SPECIFICATION Spec
CONSTANTS
  Files = {a, b}
  Contents = {x, y}
  Workers = {w1, w2}
  None = None
SYMMETRY CacheSymmetry
INVARIANTS
  FreshContent
  SetSticks
