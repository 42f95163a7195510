SPECIFICATION Spec
CONSTANTS
  c1 = c1
  Times = {1, 2}
  RowIds = {1, 2, 3, 4}
  Readers = {c1}
  Limits = {1, 2}
  Backends = {"memory", "postgresql"}
  MaxEvents = 3
INVARIANTS
  PagesDescend
PROPERTIES
  CursorMeansMore
  KeepsTraversal
