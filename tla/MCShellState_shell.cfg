\* Two windows and a writer of Rust's over two writes, a failed one, two crashes and damage.
SPECIFICATION FairSpec
CONSTANTS
  Main = main
  Followers = {popup}
  Writer = writer
  MigrationAttempts = 2
  UpdateAttempts = 2
  MaxWrites = 2
  MaxFaults = 1
  MaxCrashes = 2
  MaxDamages = 1
CHECK_DEADLOCK FALSE
INVARIANT HeldIsWhatLoads
INVARIANT BackupIsGood
INVARIANT SavedIsShown
INVARIANT FollowersKeepUp
PROPERTY SettingsKeepPromise
PROPERTY WritesSettle
