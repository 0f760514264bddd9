SPECIFICATION FairSpec
CONSTANTS
  p1 = p1
  p2 = p2
  Procs = {p1, p2}
  Vals = {0, 1}
  LOGSIZE = 4
  MAXOPBLOCKS = 2
  OPBLOCKS = 2
  NLOG = 5
  NHOME = 2
INVARIANTS LogControl QuiescentDurable ReservationHolds
PROPERTIES Atomic SleeperWakes RecoveryEnds
CHECK_DEADLOCK FALSE
