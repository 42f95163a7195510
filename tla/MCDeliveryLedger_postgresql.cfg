SPECIFICATION FairSpec
CONSTANTS
  w1 = w1
  w2 = w2
  w3 = w3
  d1 = d1
  d2 = d2
  Workers = {w1, w2}
  Identities = {d1, d2}
  Backend = "postgresql"
  MaxEvents = 2
  PoolSize = 2
  MaxAttempts = 3
INVARIANTS
  LedgerConsistent
  AckedIsRecorded
PROPERTIES
  RecordsAtomically
  Answered
