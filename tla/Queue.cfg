SPECIFICATION Spec
CONSTANTS
  N = 2
  Laps = 4
  Threads = {t1, t2}
  Values = {a, b}
  NoValue = NoValue
  Ops = {"push", "force", "pop"}
  MaxCalls = 3
  StaleLoads = TRUE
SYMMETRY Symmetry
CHECK_DEADLOCK FALSE
INVARIANTS
  TypeOK
  SlotExclusive
  ValuesLive
  DropExact
  IndInv
  NoIdleWait
PROPERTIES
  PositionsAdvance
  StampsAdvance
  Linearizable
