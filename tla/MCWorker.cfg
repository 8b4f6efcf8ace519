CONSTANTS
  Producer = {p1, p2, p3}
  Consumer = {c1, c2}
  Capacity = 2
  MaxPut = 2
  threads = 3
  MaxTasks = 5
  NoTask = NoTask
  Slices = 3
  Divisor = 3
  Readers = 2
  Gadget = {1, 2, 3, 4, 5}
  HashOf <- MCHashOf
  StatsOrder <- MCStatsOrder
  Batches <- MCBatches
  Present <- MCPresent
  Strangers = {3, 4}
  MaxFailures = 1
  AlphabetSize = 5
  FastpathStates = 6
  MaxDeterminized = 6
  CounterBits = 8
  UIntBits = 16
  Definitions <- DefinitionsDef
  Rights <- RightsDef
  MaxLeftStates = 2
  MaxStates = 3
SPECIFICATION Spec
INVARIANTS
  StoredForm
  SearchLaws
  OperationsExact
  QueueCorrect
  ReductionCorrect
  SecondhalfCorrect
PROPERTIES
  ThreadsFinish
CHECK_DEADLOCK FALSE
