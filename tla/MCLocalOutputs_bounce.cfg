\* One strip, pulled twice with a short return between.
SPECIFICATION FairSpec
CONSTANTS
  Ports = {p1}
  Readers = {start}
  Start = start
  MaxEvents = 3
  MaxCalls = 0
  MaxMoves = 6
CHECK_DEADLOCK FALSE
PROPERTY GoneLeavesTheBaseline
