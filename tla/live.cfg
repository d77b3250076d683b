CONSTANTS
  Cothreads = {a, b}
  Main = main
  Hub = hub
  Null = null
  Channels = {c1}
  Semaphores = {}
  SemInit = 0
  Ops <- LiveOps
  MaxCalls = 5
SPECIFICATION FairSpec
CHECK_DEADLOCK FALSE
PROPERTIES MainRunsAgain WaitingEnds
