\* A pairing walked away from whose link button is pressed after all.
SPECIFICATION Spec
CONSTANTS
  b1 = b1
  b2 = b2
  a1 = a1
  a2 = a2
  Bridges <- TwoBridges
  Areas <- OneEach
  BridgeOf <- HomeOf
  Launches <- FromKeychain
  MaxPolls = 1
  MaxCalls = 3
  StoreMayFail = FALSE
CHECK_DEADLOCK FALSE
ACTION_CONSTRAINT ActsAfterLoad
ACTION_CONSTRAINT NothingTyped
INVARIANT PairedIsSaved
