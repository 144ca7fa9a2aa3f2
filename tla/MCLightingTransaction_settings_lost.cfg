SPECIFICATION Spec
CONSTANTS
  Calls = {c1, c2, c3}
  LitKinds <- OneKind
  Requests <- SettingsAmongChoices
  Starts <- FromBoth
  HueCodes <- HueAlwaysStarts
  ApplyFaults <- NoFaults
  Paired = TRUE
  Calibrated = TRUE
  ArrivalsOverlap = FALSE
  MayQuit = FALSE
  MaxFaults = 0
INVARIANT SavedSettingsReachTheMode
