SPECIFICATION Spec
CONSTANTS
  a = a
  b = b
  None = None
  Stored = {a, b}
  Live = {l}
  TraceLen <- MCTraceLen
  WindowSize = 2
  MaxEvents = 2
  MaxLoads = 2
  MaxScrubs = 1
INVARIANT SessionIsShown
CHECK_DEADLOCK FALSE
