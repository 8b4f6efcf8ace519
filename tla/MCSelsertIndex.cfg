CONSTANTS
  a = a
  b = b
  c = c
  d = d
  Proc = {p1, p2}
  NoProc = NoProc
  Data = {a, b, c, d}
  HashOf <- MCHashOf
  Rank <- MCRank
  Batch <- MCBatch
  IndexPage = 2
  MaxHash = 5
SPECIFICATION Spec
INVARIANT IndexAgrees
