\* As pairing, with a keychain that may refuse; safety only.
SPECIFICATION Spec
CONSTANTS
  b1 = b1
  b2 = b2
  a1 = a1
  a2 = a2
  Bridges <- TwoBridges
  Areas <- OneEach
  BridgeOf <- HomeOf
  Launches <- AnyLaunch
  MaxPolls = 1
  MaxCalls = 3
  StoreMayFail = TRUE
CHECK_DEADLOCK FALSE
INVARIANT TypeOK
INVARIANT PairingIsPolled
PROPERTY OnlyAskedPairingsLand
