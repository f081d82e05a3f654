SPECIFICATION Spec
CONSTANTS
  Keys = {k1, k2}
  Workers = {w1, w2}
  Limits = {1, 3}
  Window = 2
  MaxTime = 3
  MaxDelay = 2
  Initial = 1
  MaxKeys = 1
SYMMETRY Symmetry
INVARIANTS
  MemoryBounded
  RateHolds
PROPERTIES
  BanEnds
  ImplementsSlidingWindow
VIEW WithoutVerdict
