\* A peer gives one handle with two DIDs, another handle is not a valid one;
\* authentications, saves and loads from the graph may fail.
CONSTANTS
  t1 = t1 t2 = t2 d1 = d1 d2 = d2 h1 = h1 h2 = h2 alice = alice bob = bob
  None = None
  Tasks <- TwoTasks
  Dids <- TwoDids
  Handles <- TwoHandles
  Idents <- SharedHandle
  Valid <- FirstHandle
  PeerOf <- OnePeer
  Own = bob
  Active = None
  MaxSaves = 1
  Failures <- InTheGraph
SYMMETRY Symmetry
SPECIFICATION Spec
INVARIANTS OnlyAuthenticatedListed
CHECK_DEADLOCK FALSE
