CONSTANTS
  Artifacts = {x, y, z, w}
  Readers = {r, s, t}
  Capacity = 2
  None = None
SPECIFICATION Spec
SYMMETRY Symmetry
INVARIANTS Bounded NothingStale
