SPECIFICATION Spec
CONSTANTS
  Procs = {1, 2}
  Inums = {1, 2, 3}
  Blocks = {1, 2}
  MaxLink = 2
  Names = {"a", "b"}
  Calls <- MCCalls
INVARIANTS RefsBalanced  BlocksOwned 
PROPERTY OnlyCrashLeaks
CHECK_DEADLOCK FALSE
