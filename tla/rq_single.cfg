SPECIFICATION FairSpec
CONSTANTS
  Session = {s1}
  Id = {i1, i2}
  Listing = {l1}
  Action = {update_title, markdown}
  Fingerprint = {f1, f2}
  Actor = {ann}
  NoActor = NoActor
  NoId = NoId
  NoRow = NoRow
  NotListed = NotListed
  DefaultActor = NoActor
  RequireDryRun = TRUE
  RequireApprover = TRUE
  CrashIn = {"rest", "call"}
INVARIANTS
  TypeOK
  RestIsSaved
  DriftIsFlagged
PROPERTIES
  MemoryFollowsEdges
  ImplementsLifecycle
  EveryCallReturns
CHECK_DEADLOCK FALSE
