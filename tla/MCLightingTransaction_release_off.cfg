SPECIFICATION Spec
CONSTANTS
  Calls = {c1, c2}
  LitKinds <- OneKind
  Requests <- ReleaseThenChoice
  Starts <- FromOff
  HueCodes <- HueAlwaysStarts
  ApplyFaults <- NoFaults
  Paired = TRUE
  Calibrated = TRUE
  ArrivalsOverlap = FALSE
  MayQuit = FALSE
  MaxFaults = 0
INVARIANT IntentFollowsWhatRan
