SPECIFICATION Spec
CONSTANTS
  OperationLimit = 2
  MaxRequests = 4
  ClientKinds = {"Query", "Parse", "Execute", "Sync", "CopyData", "CopyDone"}
  CopyKinds = {"Execute"}
  EmptyStatements = FALSE
  EagerSync = FALSE
  CopyErrors = FALSE
  MaxNotices = 1
  Calls = {"forward_next"}
  FrontendDecisions = {"Forward", "Respond", "ForwardThenFlush"}
  LocalKinds = {"Query"}
  LocalErrors = TRUE
  FlushKinds = {}
  BackendDecisions = {"Forward"}
  HoldKinds = {"DataRow"}
  FlushDecisions = {"ReplaceOneToOne"}
  HoldLimit = 2
  Cancellation = FALSE
INVARIANTS TypeOK NoForwardError AnswersOwnRequest SameIdentity
PROPERTIES ClientOrder Lossless
CHECK_DEADLOCK FALSE
