CONSTANTS
  Releases = {1, 2, 3}
  Migrations <- MCMigrations
  None = None
  MaxOps = 3
  MaxFaults = 1
SPECIFICATION FairSpec
INVARIANTS
  FailedOperationRestores
  DeployedReleaseFitsSchema
  RunningVenvIntact
  MappedLoginIsRestricted
  LeftoversOnlyAfterInterruption
PROPERTY ServiceComesBack
CHECK_DEADLOCK FALSE
