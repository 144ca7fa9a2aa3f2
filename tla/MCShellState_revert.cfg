SPECIFICATION Spec
CONSTANTS
  Main = main
  Followers = {}
  Writer = writer
  MigrationAttempts = 2
  UpdateAttempts = 2
  MaxWrites = 3
  MaxFaults = 2
  MaxCrashes = 0
  MaxDamages = 0
CHECK_DEADLOCK FALSE
INVARIANT RevertShowsStored
