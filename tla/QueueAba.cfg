SPECIFICATION AbaSpec
CONSTANTS
  N = 1
  Laps = 4
  Threads = {t1, t2}
  Values = {a}
  NoValue = NoValue
  Ops = {"push", "pop"}
  MaxCalls = 8
  StaleLoads = FALSE
CHECK_DEADLOCK FALSE
INVARIANT
  SlotExclusive
