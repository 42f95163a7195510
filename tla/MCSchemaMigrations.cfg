SPECIFICATION FairSpec
CONSTANTS
  w1 = w1
  w2 = w2
  Workers = {w1, w2}
  MaxAttempts = 1
  MaxActions = 1
  Targets = {0, 3, 5}
INVARIANTS
  RevisionWasAskedFor
  HistoryIsKept
PROPERTIES
  ReadyMeansUsable
  EveryoneEnds
