SPECIFICATION FairSpec
CONSTANTS
  N = 1
  Laps = 8
  Threads = {t1, t2, t3}
  Values = {a}
  NoValue = NoValue
  Ops = {"force", "pop"}
  MaxCalls = 2
  StaleLoads = FALSE
  Stalled = {t1}
CHECK_DEADLOCK FALSE
PROPERTIES
  CallsReturn
  OnlyHoldersBlock
