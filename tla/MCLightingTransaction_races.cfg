SPECIFICATION Spec
CONSTANTS
  Calls = {c1, c2, c3}
  LitKinds <- TwoKinds
  Requests <- RaceRequests
  Starts <- FromOffOrBoth
  HueCodes <- HueAlwaysStarts
  ApplyFaults <- NoFaults
  Paired = TRUE
  Calibrated = TRUE
  ArrivalsOverlap = FALSE
  MayQuit = FALSE
  MaxFaults = 0
SYMMETRY CallSymmetry
INVARIANT AwayStaysDark
INVARIANT HueModeHasStream
PROPERTY NewestChoiceRuns
