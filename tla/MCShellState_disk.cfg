SPECIFICATION Spec
CONSTANTS
  Main = main
  Followers = {}
  Writer = writer
  MigrationAttempts = 2
  UpdateAttempts = 2
  MaxWrites = 3
  MaxFaults = 1
  MaxCrashes = 2
  MaxDamages = 1
CHECK_DEADLOCK FALSE
INVARIANT TypeOK
INVARIANT HeldIsWhatLoads
INVARIANT BackupIsGood
PROPERTY SettingsKeepPromise
