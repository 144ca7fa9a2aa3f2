SPECIFICATION Spec
CONSTANTS
  TxCalls = {t1}
  UiCalls = {u1}
  Ops <- AllOps
  Streams = {s1, s2, s3, s4, s5}
  LatePolls = TRUE
  LateMonitors = TRUE
  MaxAttempts = 2
  Mishaps <- AnyMishap
  MaxMishaps = 3
INVARIANT StopIsFinal
INVARIANT OneRestart
