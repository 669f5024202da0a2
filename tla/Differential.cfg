SPECIFICATION DiffSpec
CONSTANTS
  N = 3
  Laps = 4
  Threads = {t}
  Fuzzer = t
  Values = {a, b}
  NoValue = NoValue
  Ops = {"push", "force", "pop"}
  MaxCalls = 16
  StaleLoads = FALSE
CHECK_DEADLOCK FALSE
INVARIANTS
  AssertsHold
  ObserversAgree
  DropsOldestFirst
