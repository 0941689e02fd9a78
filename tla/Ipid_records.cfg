\* One update, two publications at a time and a loader, with every fault.
CONSTANTS
  u1 = u1 l1 = l1 p1 = p1 p2 = p2
  Updates <- OneUpdate
  Loaders <- OneLoader
  Publishers <- TwoPublishers
  MaxTimers = 1
  Faults <- FaultKinds
SPECIFICATION FairSpec
INVARIANTS TypeOK FileIsCache RepublicationToCome
PROPERTIES UpdatesGetPublished
CHECK_DEADLOCK FALSE
