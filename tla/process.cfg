CONSTANTS
  in = in
  out = out
  err = err
  log = log
  Procs = {h1, h2}
  Silent = {h2}
  Handles = {h1, h2}
  Pids = {k1, k2}
  Opened <- ProgramFiles
  Nowhere = nowhere
  DevNull = devnull
  SignalPipe = signalpipe
  Ignore = ignore
  Pipe = pipe
  MaxFd = 11
  None = none
  MaxCalls = 4
  Habits = {}
SYMMETRY ProcessSymmetry
SPECIFICATION ProcessSpec
CHECK_DEADLOCK FALSE
INVARIANTS ExitsAreReported StdioIsAsAsked
PROPERTIES FilesAreKept
