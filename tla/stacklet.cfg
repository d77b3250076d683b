CONSTANTS
  Main = main
  Tasks = {t1, t2}
  N = 6
  Vals = {x, y}
  Junk = junk
SYMMETRY StackletSymmetry
SPECIFICATION Spec
INVARIANTS StacksIntact
PROPERTIES ResumedWithItsStack
