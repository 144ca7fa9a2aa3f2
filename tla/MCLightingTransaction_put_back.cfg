SPECIFICATION Spec
CONSTANTS
  Calls = {c1, c2, c3}
  LitKinds <- OneKind
  Requests <- PutBackRequests
  Starts <- FromOffWithBoth
  HueCodes <- HueMayRefuse
  ApplyFaults <- AllFaults
  Paired = TRUE
  Calibrated = TRUE
  ArrivalsOverlap = FALSE
  MayQuit = FALSE
  MaxFaults = 3
INVARIANT OnlySelectedIsLit
