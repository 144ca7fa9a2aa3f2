SPECIFICATION Spec
CONSTANTS
  Calls = {c1, c2}
  LitKinds <- TwoKinds
  Requests <- TwoChoices
  Starts <- FromOffOrBoth
  HueCodes <- HueAlwaysStarts
  ApplyFaults <- NoFaults
  Paired = TRUE
  Calibrated = TRUE
  ArrivalsOverlap = FALSE
  MayQuit = FALSE
  MaxFaults = 0
PROPERTY AppliedChoiceIsSaved
