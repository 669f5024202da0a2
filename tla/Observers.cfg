SPECIFICATION WatchedFairSpec
CONSTANTS
  N = 2
  Laps = 4
  Threads = {t1, t2}
  Values = {a}
  NoValue = NoValue
  Ops = {"push", "force", "pop"}
  MaxCalls = 2
  StaleLoads = FALSE
  Watchers = {w}
  MaxLooks = 1
CHECK_DEADLOCK FALSE
INVARIANT
  AnswerWasTrue
PROPERTY
  LooksEnd
