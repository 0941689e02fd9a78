\* The status file holds every unfinished pin, through errors, stops and crashes.
CONSTANTS
  a = a b = b q1 = q1 q2 = q2
  Paths <- TwoPaths
  QNames <- TwoQueues
  Faults <- AllFaults
  MaxStalled = 1
  MaxOrders = 2
SPECIFICATION Spec
SYMMETRY Symmetry
INVARIANTS TypeOK UnfinishedAreSaved
CHECK_DEADLOCK FALSE
