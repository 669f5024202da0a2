SPECIFICATION WatchedSpec
CONSTANTS
  N = 1
  Laps = 4
  Threads = {t1, t2}
  Values = {a}
  NoValue = NoValue
  Ops = {"push", "force"}
  MaxCalls = 3
  StaleLoads = FALSE
  Watchers = {w}
  MaxLooks = 2
CHECK_DEADLOCK FALSE
PROPERTY
  LenNeverFalls
