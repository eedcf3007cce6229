SPECIFICATION FairSpec
CONSTANTS
  CONCURRENCY = 2
  MaxFaults = 1
  Versions = 1
  Profiles = 1
  Today = 2
  Schedules <- MCSchedules
  Recordings <- MCRecordings
  Registries <- MCRegistries
INVARIANTS
  CleanRunSucceeds
  CompletedMeansServed
  ReductionSound
  AuditSound
PROPERTY
  EveryCommandReturns
CHECK_DEADLOCK FALSE
