CONSTANTS
  u1 = u1
  u2 = u2
  p1 = p1
  Handles = {u1, u2, p1}
  Udps = {u1, u2}
  Polls = {p1}
  Sends = {r1, r2}
  Fds = {1, 2, 3}
  FdOf <- SocketFd
  Faulty = {1}
  None = none
  MaxCalls = 5
  Habits = {}
SYMMETRY UdpSymmetry
SPECIFICATION SocketsSpec
CHECK_DEADLOCK FALSE
INVARIANTS WatchersAgree SendsAreWatched
PROPERTIES CalledInOrder
