\* A crash between the carrier call and completeCommand.
SPECIFICATION Spec
CONSTANTS
  s1 = s1
  Command = {c1}
  Session = {s1}
  SessionOf <- MCSessionOf
  Worker = {w1}
  MaxAttempts = 2
  PerformedCap = 2
  PollBatch = 2
  ExecutorEnabled = TRUE
  ClaimMidFailure = FALSE
  NoWorker = NoWorker
  NoCommand = NoCommand
  Free = Free
  Other = Other
INVARIANT PerformedOnce
