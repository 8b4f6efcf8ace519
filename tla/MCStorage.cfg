SPECIFICATION StorageSpec
CONSTANTS
  Input = {1, 2, 3, 4}
  Output = {1, 150}
  OptimalPageSize = 4
  UIntBits = 8
  Files <- FilesDef
  CloseOf <- CloseDef
  MirrorOf <- MirrorDef
  MaxRuns = 2
  MaxOthers = 2
  Id = {1, 2, 4, 6, 8}
  Batch = {{1}, {2}, {4, 6}, {8}}
  PageSize = 1
  Shape <- ShapeDef
INVARIANTS
  TypeOK
  TreeExact
  EdgesExact
  RepresentationsExact
  GroupsAgree
PROPERTIES
  ImplementsSet
  SyncCorrect
CHECK_DEADLOCK FALSE
