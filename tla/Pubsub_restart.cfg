\* The service is stopped and started by new operators, and its subscription
\* lost, while its tasks are anywhere.
CONSTANTS
  l1 = l1 l2 = l2 l3 = l3 p1 = p1 p2 = p2 m1 = m1 m2 = m2
  None = None
  Loops <- ThreeLoops
  Procs <- TwoProcs
  Msgs <- TwoMsgs
  Events <- AllEvents
  QueueSize = 1
  MaxArrivals = 3
  MaxStarts = 3
SPECIFICATION FairSpec
INVARIANTS TypeOK OneTreats ExchangedOnce
PROPERTIES Listens
CHECK_DEADLOCK FALSE
