CONSTANTS
  s1 = s1
  s2 = s2
  Handles = {s1, s2}
  Streams = {s1, s2}
  Writes = {r1, r2}
  Fds = {1, 2, 3}
  FdOf <- ConnectedFd
  Faulty = {}
  None = none
  MaxCalls = 4
  Habits = {}
SYMMETRY WriteSymmetry
SPECIFICATION Spec
CHECK_DEADLOCK FALSE
INVARIANTS WatchersAgree  NothingForgotten DescriptorsAreOwned
PROPERTIES AnsweredInOrder
