SPECIFICATION FairSpec
CONSTANTS
  N = 1
  Laps = 8
  Threads = {t1, t2}
  Values = {a}
  NoValue = NoValue
  Ops = {"push", "force", "pop"}
  MaxCalls = 3
  StaleLoads = FALSE
  Stalled = {t1}
CHECK_DEADLOCK FALSE
PROPERTY
  LockFree
