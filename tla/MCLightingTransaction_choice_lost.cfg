SPECIFICATION Spec
CONSTANTS
  Calls = {c1, c2}
  LitKinds <- TwoKinds
  Requests <- RefusedThenChosen
  Starts <- FromOff
  HueCodes <- HueRefuses
  ApplyFaults <- NoFaults
  Paired = TRUE
  Calibrated = TRUE
  ArrivalsOverlap = FALSE
  MayQuit = FALSE
  MaxFaults = 0
PROPERTY NewestChoiceRuns
