CONSTANTS
  Threads = {main, w}
  Main = main
  Cap = 2
  MaxFrames = 2
  MaxSteps = 4
  MaxFailures = 1
SPECIFICATION TracerSpec
INVARIANTS DepthIsTrue SinkFailureTold 
CHECK_DEADLOCK FALSE
