SPECIFICATION FairSpec
CONSTANTS
  g1 = g1
  g2 = g2
  a1 = a1
  a2 = a2
  Guids = {g1, g2}
  Actions = {a1, a2}
  MaxRecords = 3
  MaxWithout = 1
CHECK_DEADLOCK FALSE
INVARIANTS
  AttemptsAreExplained
  DeliveredIsOnRecord
PROPERTIES
  AcceptedIsSettled
