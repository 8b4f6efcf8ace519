CONSTANTS
  NumWorkers = 3
  MaxTasks = 4
  MinPending = 2
  BigEnough <- MCBigEnough
  MaxFaults = 2
SPECIFICATION Spec
INVARIANTS
  TypeOK
  WorkConserved
PROPERTIES
  NothingIssuedAfterError
  OperationEnds
  ImplementsOperation
