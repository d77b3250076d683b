CONSTANTS
  Cothreads = {a, b}
  Main = main
  Hub = hub
  Null = null
  Channels = {}
  Semaphores = {}
  SemInit = 0
  Ops <- MainLookupOps
  MaxCalls = 4
SYMMETRY CothreadSymmetry
SPECIFICATION Spec
CHECK_DEADLOCK FALSE
INVARIANTS LookupFindsItsWaiter
