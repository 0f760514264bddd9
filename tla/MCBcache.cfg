SPECIFICATION Spec
CONSTANTS
  p1 = p1
  p2 = p2
  v1 = v1
  v2 = v2
  b1 = b1
  b2 = b2
  b3 = b3
  k1 = k1
  k2 = k2
  k3 = k3
  k4 = k4
  Procs = {p1, p2}
  Bufs = {b1, b2, b3}
  Blocks = {k1, k2, k3, k4}
  Vals = {v1, v2}
  MAXPIN = 1
  DISKERR = FALSE
SYMMETRY Symmetry
INVARIANTS CacheSound
PROPERTIES Store
