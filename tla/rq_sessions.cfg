SPECIFICATION Spec
CONSTANTS
  Session = {s1, s2}
  Id = {i1, i2}
  Listing = {l1}
  Action = {update_title}
  Fingerprint = {f1}
  Actor = {system}
  NoActor = NoActor
  NoId = NoId
  NoRow = NoRow
  NotListed = NotListed
  DefaultActor = system
  RequireDryRun = TRUE
  RequireApprover = TRUE
  CrashIn = {"call", "save"}
SYMMETRY SessionSymmetry
INVARIANTS
  OnePendingPerTarget
  ApprovalEvidence
  JudgedBeforeApproval
  SupersededByLaterVersion
  SameIdSameProposal
CHECK_DEADLOCK FALSE
