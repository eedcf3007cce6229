SPECIFICATION Spec
CONSTANTS
  OperationLimit = 3
  MaxOperations = 4
INVARIANTS
  CopyInOwned
PROPERTIES
  ErrorsStopAtSync
  ResponsesInOrder
CHECK_DEADLOCK FALSE
