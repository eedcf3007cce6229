SPECIFICATION Spec
CONSTANTS
  OperationLimit = 2
  MaxRequests = 2
  ClientKinds = {"Execute", "Sync"}
  CopyKinds = {}
  EmptyStatements = TRUE
  EagerSync = FALSE
  CopyErrors = FALSE
  MaxNotices = 0
  Calls = {"forward_next", "forward_frontend", "forward_backend"}
  FrontendDecisions = {"Forward", "ForwardThenFlush", "Suppress", "Respond", "Fail"}
  LocalKinds = {"Execute"}
  LocalErrors = TRUE
  FlushKinds = {}
  BackendDecisions = {"Forward", "Expand", "Suppress", "Fail", "Hold"}
  HoldKinds = {}
  FlushDecisions = {"ReplaceOneToOne", "ReplaceOtherwise", "Keep", "Fail"}
  HoldLimit = 2
  Cancellation = TRUE
INVARIANTS OneOwner
PROPERTIES NoReplay
CHECK_DEADLOCK FALSE
