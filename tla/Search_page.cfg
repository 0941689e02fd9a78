\* Two pages of two hits, all with an IPFS path, and clicks at any
\* time, with every fault.
CONSTANTS
  Hits = 2
  Invalid = {}
  Pages = 2
  MaxSearches = 2
  MaxSurvivors = 2
  Faults <- AllFaults
SPECIFICATION FairSpec
INVARIANTS TypeOK OneSearchShown 
PROPERTIES SearchingEnds ImplementsResultList
CHECK_DEADLOCK FALSE
