SPECIFICATION FairSpec
CONSTANTS
  r1 = r1
  r2 = r2
  w1 = w1
  Readers = {r1, r2}
  Writers = {w1}
  Killable = {w1}
  Bytes = {0, 1}
  PIPESIZE = 2
  UINT = 4
  MAXN = 2
INVARIANTS PipeSound
PROPERTIES Fifo CallsReturn
CHECK_DEADLOCK FALSE
