SPECIFICATION Spec
CONSTANTS
  OperationLimit = 2
  MaxRequests = 4
  ClientKinds = {"Query", "CopyData", "CopyDone"}
  CopyKinds = {"Query"}
  EmptyStatements = FALSE
  EagerSync = FALSE
  CopyErrors = FALSE
  MaxNotices = 0
  Calls = {"forward_next"}
  FrontendDecisions = {"Forward"}
  LocalKinds = {}
  LocalErrors = TRUE
  FlushKinds = {}
  BackendDecisions = {"Forward"}
  HoldKinds = {}
  FlushDecisions = {}
  HoldLimit = 0
  Cancellation = FALSE
INVARIANTS NoForwardError
CHECK_DEADLOCK FALSE
