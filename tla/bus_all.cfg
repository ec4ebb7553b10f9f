SPECIFICATION FairSpec
CONSTANTS
  p1 = p1
  p2 = p2
  Publishers = {p1, p2}
  Slots = 3
  QueueMax = 2
  HistoryMax = 2
  MaxEvents = 3
CHECK_DEADLOCK FALSE
INVARIANT TypeOK
INVARIANT CriticalDelivered
PROPERTY PublishReturns
