SPECIFICATION Spec
CONSTANTS
  CPUs = {1, 2}
  Readers = {rd}
  Writers = {wr}
  kbdintr = kbdintr
  KbdCPU = 1
  INPUT_BUF = 2
  MOD = 4
  Chars = {"a"}
INVARIANTS SpinlocksSound NoLostWakeup
PROPERTY Lines
