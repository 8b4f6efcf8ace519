CONSTANTS
  Proc = {p1, p2}
  MaxId = 3
  Stat <- MCStat
  InitialKeys = {2}
  Requests <- SortedRequests
  MaxLost = 1
SYMMETRY Symmetry
SPECIFICATION Spec
INVARIANTS
  TypeOK
  PredicatesExact
PROPERTIES
  Suffices
  NothingLost
