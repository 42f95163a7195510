SPECIFICATION FairSpec
CONSTANTS
  a1 = a1
  a2 = a2
  a3 = a3
  g1 = g1
  g2 = g2
  none = none
  NoAttempt = none
  Attempts = {a1, a2, a3}
  Guids = {g1, g2}
  GuidOf <- MCGuidOf
  Eligible = {a1, a2}
  MaxPages = 2
  PerPage = 2
  LinkForms = {"expected", "other"}
  MaxHistory = 5
INVARIANTS
  CursorSplits
PROPERTIES
  Responds
  KeepsTraversal
