\* Ident messages of two DIDs, one of them of this node, are handled by two tasks;
\* documents that the graph names can be loaded, saves of the graph succeed.
CONSTANTS
  t1 = t1 t2 = t2 d1 = d1 d2 = d2 h1 = h1 h2 = h2 alice = alice bob = bob
  None = None
  Tasks <- TwoTasks
  Dids <- TwoDids
  Handles <- TwoHandles
  Idents <- OwnHandles
  Valid <- TwoHandles
  PeerOf <- TwoPeers
  Own = bob
  Active = None
  MaxSaves = 2
  Failures <- Loaded
SPECIFICATION FairSpec
INVARIANTS TypeOK OneAuthPerDid OneLoadPerDid
PROPERTIES GraphedIsListed
CHECK_DEADLOCK FALSE
