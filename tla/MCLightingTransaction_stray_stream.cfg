SPECIFICATION Spec
CONSTANTS
  Calls = {c1, c2}
  LitKinds <- OneKind
  Requests <- HueChoices
  Starts <- FromOff
  HueCodes <- HueWithoutLights
  ApplyFaults <- NoFaults
  Paired = TRUE
  Calibrated = TRUE
  ArrivalsOverlap = FALSE
  MayQuit = FALSE
  MaxFaults = 0
INVARIANT UnusedStreamReleased
