\* Two workers on one command, no stalled failure writes: what the outbox promises.
SPECIFICATION LiveSpec
CONSTANTS
  s1 = s1
  Command = {c1}
  Session = {s1}
  SessionOf <- MCSessionOf
  Worker = {w1, w2}
  MaxAttempts = 3
  PerformedCap = 0
  PollBatch = 2
  ExecutorEnabled = TRUE
  ClaimMidFailure = FALSE
  NoWorker = NoWorker
  NoCommand = NoCommand
  Free = Free
  Other = Other
PROPERTY EventuallySettled LeaseRespected ImplementsDelivery
