\* As writer, with any caller doing anything; safety only.
SPECIFICATION Spec
CONSTANTS
  c1 = c1
  c2 = c2
  Callers <- TwoCallers
  MaxCalls = 3
  Mishaps <- AllMishaps
  MaxMishaps = 1
CHECK_DEADLOCK FALSE
INVARIANT TypeOK
INVARIANT PaintTellsTheTruth
INVARIANT DisconnectLetsGo
INVARIANT HandlesAreOwned
PROPERTY NothingOlder
