SPECIFICATION Spec
CONSTANTS
  TxCalls = {t1, t2}
  UiCalls = {}
  Ops <- StartAndStop
  Streams = {s1, s2, s3}
  LatePolls = TRUE
  LateMonitors = FALSE
  MaxAttempts = 3
  Mishaps <- Deaths
  MaxMishaps = 1
INVARIANT StopAlwaysRestores
