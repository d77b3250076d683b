CONSTANTS
  p1 = p1
  p2 = p2
  i1 = i1
  t1 = t1
  a1 = a1
  Handles = {p1, p2, i1, t1, a1}
  Kind <- LoopKind
  Modes = {"default", "once"}
  MaxTimeout = 1
  MaxCalls = 4
SYMMETRY WatcherSymmetry
SPECIFICATION Spec
CHECK_DEADLOCK FALSE
INVARIANTS CountIsRight ClosedOnce NeverOversleeps
PROPERTIES RunEndsClean CalledOnce
