\* Two workers on two commands of one session, every fault, failure writes that stall.
SPECIFICATION Spec
CONSTANTS
  s1 = s1
  Command = {c1, c2}
  Session = {s1}
  SessionOf <- MCSessionOf
  Worker = {w1, w2}
  MaxAttempts = 2
  PerformedCap = 0
  PollBatch = 2
  ExecutorEnabled = TRUE
  ClaimMidFailure = TRUE
  NoWorker = NoWorker
  NoCommand = NoCommand
  Free = Free
  Other = Other
SYMMETRY Symmetry
INVARIANTS
  TypeOK
  AckedWasConfirmed
  DeadIsJustified
  NoStrandedRow
  LocksDoNotLeak
PROPERTY AckUndoneOnlyByStaleFailure
