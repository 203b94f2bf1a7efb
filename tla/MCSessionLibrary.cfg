SPECIFICATION Spec
CONSTANTS
  Conns = {c1, c2}
  Viewers = {v}
  Sids = {s1, s2}
  MaxFiles = 3
  MaxEvents = 2
  None = None
SYMMETRY LibrarySymmetry
INVARIANTS
  PartHasOwner
  LibraryIsComplete
  SeekableIsCurrent
