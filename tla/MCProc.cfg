SPECIFICATION Spec
CONSTANTS
  c0 = c0
  c1 = c1
  CPUs = {c0, c1}
  BOOTCPU = c0
  NPROC = 4
  MAXPID = 4
  MAXTICKS = 0
INVARIANTS TableSound
CHECK_DEADLOCK FALSE
