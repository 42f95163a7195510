SPECIFICATION Spec
CONSTANTS
  w1 = w1
  w2 = w2
  w3 = w3
  d1 = d1
  d2 = d2
  Workers = {w1, w2}
  Identities = {d1, d2}
  Backend = "memory"
  MaxEvents = 2
  PoolSize = 2
  MaxAttempts = 4
SYMMETRY WorkerSymmetry
INVARIANTS
  AckedIsRecorded
PROPERTIES
  LookupIsTruthful
