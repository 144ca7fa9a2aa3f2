SPECIFICATION FairSpec
CONSTANTS
  Calls = {c1, c2}
  LitKinds <- OneKind
  Requests <- QuitRequests
  Starts <- FromOffOrBoth
  HueCodes <- HueMayRefuse
  ApplyFaults <- AllFaults
  Paired = TRUE
  Calibrated = FALSE
  ArrivalsOverlap = TRUE
  MayQuit = TRUE
  MaxFaults = 0
INVARIANT QuitStaysDark
PROPERTY EveryCallIsAnswered
