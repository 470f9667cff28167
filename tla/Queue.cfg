SPECIFICATION Spec
CONSTANTS
  p1 = p1
  p2 = p2
  digit = digit
  Process = {p1, p2}
  Task = {p1, p2}
  ProcessOf <- OneEach
  JoinId = {digit}
  MaxRetries = 2
  MaxJoins = 2
  MaxFaults = 1
  NoQueue = NoQueue
SYMMETRY Symmetry
CONSTRAINT Followed
INVARIANTS
  TypeOK
  QueuedCallerIsNotForgotten
PROPERTY
  QueueIsChangedFromWhatItIs
CHECK_DEADLOCK FALSE
