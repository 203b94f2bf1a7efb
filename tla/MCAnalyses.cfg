SPECIFICATION Spec
CONSTANTS
  Nothing = Nothing
  Multiple = 2
  Floor = 6
  Reports <- MCReports
  Graphs <- MCGraphs
  Projects <- MCProjects
  Scans <- MCScans
  Profiles <- MCProfiles
  Scenarios <- MCScenarios
  Values <- MCValues
  PythonProjects <- MCPythonProjects
  Jobs <- MCJobs
INVARIANTS
  FramesFindTheirNode
  ColdTraceIsExact
  ProfileIsTheStack
  CyclesAreExact
  
  DiffMirrors
  
  SecretsUntouched
  
  DefinitionsKeepIds
  CallsResolveInScope
  ScopesAreKept
CHECK_DEADLOCK FALSE
