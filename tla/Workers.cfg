SPECIFICATION WorkersSpec
CONSTANTS
  N = 3
  Laps = 4
  Threads = {t1, t2, t3}
  Values = {a, b, c}
  NoValue = NoValue
  Ops = {"push", "pop"}
  MaxCalls = 4
  StaleLoads = TRUE
SYMMETRY Symmetry
CHECK_DEADLOCK FALSE
INVARIANTS
  NeverFull
  NeverEmpty
  ItemsSurvive
