SPECIFICATION Spec
CONSTANTS
  Calls = {c1, c2, c3}
  LitKinds <- OneKind
  Requests <- FaultRequests
  Starts <- FromOffOrHueAlone
  HueCodes <- HueMayRefuse
  ApplyFaults <- AllFaults
  Paired = TRUE
  Calibrated = TRUE
  ArrivalsOverlap = FALSE
  MayQuit = FALSE
  MaxFaults = 3
SYMMETRY CallSymmetry
INVARIANT IntentFollowsWhatRan
INVARIANT DeselectedGoesDark
INVARIANT UnusedStreamReleased
