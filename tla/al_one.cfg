SPECIFICATION Spec
CONSTANTS
  Writer = {w1}
  Keep = 3
  MaxLines = 2
  Genesis = genesis
  MaxRecords = 12
  MaxCrashes = 2
INVARIANTS
  TypeOK
  ChainHolds
  LatestAreKept
  EnoughIsKept
CHECK_DEADLOCK FALSE
