CONSTANTS
  Proc = {p1, p2}
  MaxId = 3
  Stat <- MCStat
  InitialKeys = {2}
  Requests <- SortedRequests
  MaxLost = 0
SPECIFICATION Spec
INVARIANT Exact
