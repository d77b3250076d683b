CONSTANTS
  l1 = l1
  l2 = l2
  h1 = h1
  h2 = h2
  h3 = h3
  s1 = s1
  s2 = s2
  Loops = {l1, l2}
  Others = {}
  Handles = {h1, h2, h3}
  LoopOf <- SignalLoop
  Signums = {s1, s2}
  None = none
  MaxCalls = 4
  MaxSignals = 2
SYMMETRY SignalSymmetry
SPECIFICATION Spec
CHECK_DEADLOCK FALSE
INVARIANTS ClosedWhenDrained HandledIffWatched DeletedLoopIsLeftAlone
