SPECIFICATION Spec
CONSTANTS
  Calls = {c1, c2, c3}
  LitKinds <- OneKind
  Requests <- LeaseRequests
  Starts <- FromOffOrBoth
  HueCodes <- HueMayRefuse
  ApplyFaults <- NoFaults
  Paired = TRUE
  Calibrated = TRUE
  ArrivalsOverlap = FALSE
  MayQuit = FALSE
  MaxFaults = 1
SYMMETRY CallSymmetry
INVARIANT TestLeavesNoStream
PROPERTY TestStreamIsTheTests
