SPECIFICATION FairSpec
CONSTANTS
  Main = main
  Followers = {popup}
  Writer = writer
  MigrationAttempts = 2
  UpdateAttempts = 2
  MaxWrites = 3
  MaxFaults = 1
  MaxCrashes = 0
  MaxDamages = 0
CHECK_DEADLOCK FALSE
INVARIANT SavedIsShown
INVARIANT FollowersKeepUp
PROPERTY WritesSettle
