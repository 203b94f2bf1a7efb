SPECIFICATION FairSpec
CONSTANTS
  Producers = {p1, p2}
  Viewers = {v}
  MaxMsgs = 1
  MaxRing = 1
  Graph = Graph
  None = None
INVARIANTS
  NothingMissed
  
 
CHECK_DEADLOCK FALSE
