CONSTANTS
  Polls = {h1}
  Ctxs = {c1, c2}
  Watches = {e1, e2, e3}
  Handles = {h1, c1, c2, e1, e2, e3}
  Paths = {p1, p2}
  Contents = {x, y}
  Errors = {enoent}
  None = none
  MaxWd = 2
  MaxChanges = 2
  MaxEvents = 2
  MaxCalls = 5
  Pairs = FALSE
SYMMETRY WatchSymmetry
SPECIFICATION Spec
CHECK_DEADLOCK FALSE
INVARIANTS ContextsAreKept ListsAgree
PROPERTIES NeverToldTwice EventsReachWatchers
