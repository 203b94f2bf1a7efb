SPECIFICATION Spec
CONSTANTS
  Runs = {r1, r2}
  MaxEvents = 3
  BufLines = 2
  NoFile = NoFile
SYMMETRY RunSymmetry
INVARIANTS
  
  SalvageKept
  
CHECK_DEADLOCK FALSE
