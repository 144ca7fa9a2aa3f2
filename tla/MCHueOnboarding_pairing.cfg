\* Two bridges, three launches; every answer late.
SPECIFICATION FairSpec
CONSTANTS
  b1 = b1
  b2 = b2
  a1 = a1
  a2 = a2
  Bridges <- TwoBridges
  Areas <- OneEach
  BridgeOf <- HomeOf
  Launches <- AnyLaunch
  MaxPolls = 1
  MaxCalls = 3
  StoreMayFail = FALSE
CHECK_DEADLOCK FALSE
INVARIANT PairingIsPolled
PROPERTY OnlyAskedPairingsLand
PROPERTY WaitsEnd
