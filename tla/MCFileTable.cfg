SPECIFICATION Spec
CONSTANTS
  p1 = p1
  p2 = p2
  k1 = k1
  Procs = {p1, p2}
  initproc = p1
  NOFILE = 2
  NFILE = 3
  Pipes = {k1}
INVARIANTS FilesSound NothingLeaks
