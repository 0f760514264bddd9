SPECIFICATION FairSpec
CONSTANTS
  c0 = c0
  CPUs = {c0}
  BOOTCPU = c0
  NPROC = 3
  MAXPID = 3
  MAXTICKS = 1
INVARIANTS TableSound
PROPERTIES RunnableRuns KilledExits
CHECK_DEADLOCK FALSE
