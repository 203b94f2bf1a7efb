CONSTANTS
  Files = {f, g}
  Clients = {c}
  MaxEdits = 2
  MaxTrains = 1
  CacheMax = 1
  Reverts = FALSE
SPECIFICATION Spec
INVARIANT MetadataMatches
 
