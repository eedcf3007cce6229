SPECIFICATION Spec
CONSTANTS
  Unnamed = "unnamed"
  ClientNames = {"unnamed", "c"}
  UpstreamNames = {"unnamed", "u"}
  QueryEffects = {"Read", "Begin", "Set", "Retain", "CopyIn", "CopyOut", "CopyBoth"}
  StatelessEffects = {"Read", "Begin", "Set"}
  MaxMessages = 4
  Generations = 3
INVARIANTS
  NoIllegalMessage
  ReadyMeansQuiet
  PristineIsClean
  TokensUnambiguous
  OwnObjects
PROPERTIES
  StaleStaysStale
