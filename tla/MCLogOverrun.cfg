SPECIFICATION Spec
CONSTANTS
  p1 = p1
  p2 = p2
  Procs = {p1, p2}
  Vals = {0}
  LOGSIZE = 3
  MAXOPBLOCKS = 1
  OPBLOCKS = 1
  NLOG = 3
  NHOME = 3
INVARIANTS LogInRegion
CHECK_DEADLOCK FALSE
