SPECIFICATION LookupSpec
CONSTANTS
  r1 = r1
  r2 = r2
  d1 = d1
  a1 = a1
  g1 = g1
  Requests = {r1, r2}
  Attempts = {a1}
  Guids = {g1}
  GuidOf <- MCGuidOf
  Eligible = {a1}
  Targets = {1}
  Backend = "memory"
  MaxActions = 2
  MaxPages = 1
  PerPage = 1
  MaxHistory = 1
  MaxCreated = 3
  Readers = {d1}
SYMMETRY RequestSymmetry
INVARIANTS
  OneRedeliveryPerAction
  NoStrandedIntent
PROPERTIES
  LookupIsCurrent
