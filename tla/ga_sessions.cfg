SPECIFICATION Spec
CONSTANTS
  Session = {s1, s2}
  Id = {i1, i2}
  Listing = {l1}
  Action = {update_title}
  Fingerprint = {f1, f2}
  Actor = {ann}
  Operator = ann
  NoActor = NoActor
  NoId = NoId
  NoRow = NoRow
  NotListed = NotListed
  NoCall = NoCall
  Executors = {"mock", "ebay"}
  RequireDryRun = FALSE
  RequireApprover = TRUE
SYMMETRY SessionSymmetry
INVARIANTS
  TypeOK
  SuccessIsReal
  NoApplyAfterRecord
  RowStillReady
CHECK_DEADLOCK FALSE
