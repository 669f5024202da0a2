SPECIFICATION Spec
CONSTANTS
  N = 1
  Laps = 4
  Threads = {t1, t2, t3}
  Values = {a, b}
  NoValue = NoValue
  Ops = {"push", "force", "pop"}
  MaxCalls = 2
  StaleLoads = TRUE
SYMMETRY Symmetry
CHECK_DEADLOCK FALSE
INVARIANTS
  SlotExclusive
  ValuesLive
PROPERTY
  Linearizable
