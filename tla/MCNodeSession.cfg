CONSTANTS
  Fns = {f, g}
  MaxCalls = 1
  MaxPolls = 2
  Cap = 2
SPECIFICATION Spec
INVARIANTS
  AnswersMatch
  NothingUnseen
PROPERTIES
  
  RunEnds
