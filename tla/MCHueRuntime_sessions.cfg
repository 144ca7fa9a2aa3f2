SPECIFICATION FairSpec
CONSTANTS
  TxCalls = {t1, t2}
  UiCalls = {}
  Ops <- AllOps
  Streams = {s1, s2, s3, s4, s5, s6, s7}
  LatePolls = TRUE
  LateMonitors = FALSE
  MaxAttempts = 2
  Mishaps <- DeathsAndErrors
  MaxMishaps = 5
INVARIANT StoppedHoldsNoStream
INVARIANT SnapshotIsHome
INVARIANT StopRestores
INVARIANT RunningStreamHasArea
PROPERTY ReconnectEnds
PROPERTY CallsEnd
