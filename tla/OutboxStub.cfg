\* The tick without the executor.
SPECIFICATION Spec
CONSTANTS
  s1 = s1
  Command = {c1, c2}
  Session = {s1}
  SessionOf <- MCSessionOf
  Worker = {w1, w2}
  MaxAttempts = 2
  PerformedCap = 0
  PollBatch = 2
  ExecutorEnabled = FALSE
  ClaimMidFailure = TRUE
  NoWorker = NoWorker
  NoCommand = NoCommand
  Free = Free
  Other = Other
SYMMETRY Symmetry
INVARIANT NoStrandedRow
PROPERTY SentRowIsSettledByItsSender
CHECK_DEADLOCK FALSE
