SPECIFICATION Spec
CONSTANTS
  Procs = {1, 2}
  Init1 = 1
  Pages = {1, 2, 3, 4, 5, 6, 7, 8, 9, 10, 11, 12}
  NPTE = 2
  KTABS = 1
  VA = {0, 1, 2, 3, 4}
  Sizes = {1, 2}
INVARIANTS PageOnce 
PROPERTY LostOnlyWhenFull
CHECK_DEADLOCK FALSE
VIEW Shape
