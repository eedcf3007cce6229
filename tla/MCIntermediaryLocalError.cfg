SPECIFICATION Spec
CONSTANTS
  OperationLimit = 4
  MaxRequests = 4
  ClientKinds = {"Parse", "Sync"}
  CopyKinds = {}
  EmptyStatements = FALSE
  EagerSync = FALSE
  CopyErrors = FALSE
  MaxNotices = 0
  Calls = {"forward_next"}
  FrontendDecisions = {"Forward", "Respond"}
  LocalKinds = {"Parse"}
  LocalErrors = TRUE
  FlushKinds = {}
  BackendDecisions = {"Forward"}
  HoldKinds = {}
  FlushDecisions = {}
  HoldLimit = 0
  Cancellation = FALSE
INVARIANTS NoForwardError
CHECK_DEADLOCK FALSE
