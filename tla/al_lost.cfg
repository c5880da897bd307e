SPECIFICATION Spec
CONSTANTS
  Writer = {w1, w2}
  Keep = 3
  MaxLines = 2
  Genesis = genesis
  MaxRecords = 8
  MaxCrashes = 0
INVARIANTS
  NewestIsKept
CHECK_DEADLOCK FALSE
