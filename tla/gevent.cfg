CONSTANTS
  Cothreads = {a, b, c}
  Main = main
  Hub = hub
  Null = null
  Channels = {c1}
  Semaphores = {s1}
  SemInit = 1
  Ops <- FullOps
  MaxCalls = 7
SYMMETRY CothreadSymmetry
SPECIFICATION Spec
CHECK_DEADLOCK FALSE
INVARIANTS TypeOK WaitingWhereItsStateSays HandlesAreFresh HubRunsWhenIdle AssertsHold ChannelsDeliver PermitsConserved
PROPERTIES WokenForItsReason MainForcedOnlyWhenIdle
