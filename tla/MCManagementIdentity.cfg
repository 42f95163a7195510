SPECIFICATION Spec
CONSTANTS
  r1 = r1
  r2 = r2
  k1 = k1
  k2 = k2
  Requests = {r1, r2}
  Keys = {k1, k2}
  Ttl = 2
  MaxTime = 3
SYMMETRY RequestKeySymmetry
INVARIANTS
  StalenessBounded
  PublishedKeyIsFound
PROPERTIES
  RefreshesOnce
