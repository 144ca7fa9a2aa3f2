SPECIFICATION FairSpec
CONSTANTS
  c1 = c1
  c2 = c2
  Callers <- TwoCallers
  MaxCalls = 3
  Mishaps <- AllMishaps
  MaxMishaps = 1
CHECK_DEADLOCK FALSE
ACTION_CONSTRAINT Roles
INVARIANT PaintTellsTheTruth
INVARIANT DisconnectLetsGo
INVARIANT HandlesAreOwned
PROPERTY NothingOlder
PROPERTY NothingStalls
