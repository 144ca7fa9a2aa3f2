\* Two strips; one pull, replug, refusal or bad listing against three commands, or
\* two against one.
SPECIFICATION FairSpecUpToNames
CONSTANTS
  Ports = {p1, p2}
  Readers = {start}
  Start = start
  MaxEvents = 2
  MaxCalls = 3
  MaxMoves = 5
CHECK_DEADLOCK FALSE
INVARIANT StoreCatchesUp
PROPERTY LostWasPulled
PROPERTY GoneStripIsLost
PROPERTY DrivenStays
