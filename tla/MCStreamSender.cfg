SPECIFICATION FairSpec
CONSTANTS
  Threads = {m, w}
  MainThread = m
  MaxInflight = 2
  MaxCalls = 3
  Sentinel = Sentinel
  NoItem = NoItem
INVARIANTS
  SlotAccounting
  FinishIsTruthful
  NoTailLoss
PROPERTIES
  SenderEnds
  ImplementsEventStream
CHECK_DEADLOCK FALSE
