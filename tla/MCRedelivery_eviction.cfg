SPECIFICATION Spec
CONSTANTS
  r1 = r1
  r2 = r2
  a1 = a1
  a2 = a2
  g1 = g1
  g2 = g2
  Requests = {r1, r2}
  Attempts = {a1, a2}
  Guids = {g1, g2}
  GuidOf <- MCGuidOf
  Eligible = {a1}
  Targets = {1, 2}
  Backend = "memory"
  MaxActions = 1
  MaxPages = 2
  PerPage = 1
  MaxHistory = 2
  MaxCreated = 2
INVARIANTS
  PostEndsFinalized
