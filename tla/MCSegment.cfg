SPECIFICATION Spec
CONSTANTS
  Kernel = {k1, k2}
  App = {a1, a2}
  NoSeg = NoSeg
SYMMETRY Symmetry
INVARIANTS NamedByItsKernel
PROPERTIES FreshSegment AppsShareTheTable ConfiguredStays
CHECK_DEADLOCK FALSE
