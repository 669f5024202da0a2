SPECIFICATION BenchSpec
CONSTANTS
  N = 1
  Laps = 8
  Producers = {p1, p2}
  Consumers = {c1, c2}
  PER = 2
  Threads <- MCThreads
  Values <- MCItems
  NoValue = NoValue
  Ops = {"push", "pop"}
  MaxCalls = 0
  StaleLoads = FALSE
CHECK_DEADLOCK FALSE
INVARIANT
  Delivered
PROPERTY
  BenchEnds
