SPECIFICATION Spec
CONSTANTS
  Calls = {c1, c2}
  LitKinds <- OneKind
  Requests <- UnplugThenChoice
  Starts <- FromStrip
  HueCodes <- HueAlwaysStarts
  ApplyFaults <- NoFaults
  Paired = TRUE
  Calibrated = TRUE
  ArrivalsOverlap = FALSE
  MayQuit = FALSE
  MaxFaults = 1
PROPERTY NewestChoiceRuns
