SPECIFICATION FairSpec
CONSTANTS
  OperationLimit = 2
  MaxRequests = 4
  ClientKinds = {"Query", "Execute", "Sync", "CopyData", "CopyDone"}
  CopyKinds = {"Execute"}
  EmptyStatements = FALSE
  EagerSync = FALSE
  CopyErrors = FALSE
  MaxNotices = 0
  Calls = {"forward_next"}
  FrontendDecisions = {"Forward"}
  LocalKinds = {}
  LocalErrors = TRUE
  FlushKinds = {"Parse", "Execute"}
  BackendDecisions = {"Forward"}
  HoldKinds = {}
  FlushDecisions = {}
  HoldLimit = 0
  Cancellation = FALSE
PROPERTIES EverythingAnswered
CHECK_DEADLOCK FALSE
