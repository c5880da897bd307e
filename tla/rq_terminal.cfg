SPECIFICATION Spec
CONSTANTS
  Session = {s1, s2}
  Id = {i1, i2}
  Listing = {l1}
  Action = {update_title}
  Fingerprint = {f1, f2}
  Actor = {system}
  NoActor = NoActor
  NoId = NoId
  NoRow = NoRow
  NotListed = NotListed
  DefaultActor = system
  RequireDryRun = FALSE
  RequireApprover = TRUE
  CrashIn = {"rest"}
PROPERTIES
  SupersededIsTerminal
CHECK_DEADLOCK FALSE
