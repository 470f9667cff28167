\* Two POSTs of one event, two workers, one replayed dead letter, every fault.
SPECIFICATION LiveSpec
CONSTANTS
  e1 = e1
  Event = {e1}
  Post = {p1, p2}
  EventOf <- MCEventOf
  Worker = {w1, w2}
  Entry <- MCEntry
  Copy <- MCCopy
  MaxDeliveries = 2
  BatchSize = 2
  MaxMishaps = 1
  NoEvent = NoEvent
  NoEntry = NoEntry
INVARIANTS
  TypeOK
  NothingAcceptedIsLost
  QueuedHasPayload
  AnsweredEventIsNotQueuedAgain
PROPERTY EveryEntryIsSettled
CHECK_DEADLOCK FALSE
