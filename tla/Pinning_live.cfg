\* Cancelled and stalled pins end, and a dropped order is served by another one.
CONSTANTS
  a = a b = b q1 = q1 q2 = q2
  Paths <- OnePath
  QNames <- OneQueue
  Faults <- Refusals
  MaxStalled = 2
  MaxOrders = 2
SPECIFICATION FairSpec
PROPERTIES DroppedAreServed CancelEnds StalledEnds
CHECK_DEADLOCK FALSE
