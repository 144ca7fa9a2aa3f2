\* A start that read the area before a budget was spent: see README, section 3.
SPECIFICATION Spec
CONSTANTS
  TxCalls = {t1, t2}
  UiCalls = {}
  Ops <- AllOps
  Streams = {s1, s2, s3}
  LatePolls = FALSE
  LateMonitors = FALSE
  MaxAttempts = 2
  Mishaps <- DeathsAndFailures
  MaxMishaps = 4
CHECK_DEADLOCK FALSE
INVARIANT RunningAlwaysHasArea
