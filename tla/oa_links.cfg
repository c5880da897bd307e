SPECIFICATION Spec
CONSTANTS
  Listing = {l1, l2}
  Approvable = {"update_title", "relist_candidate"}
  Window = 2
  Ambiguity = 2
  Lookback = 3
  HistoryStart = 4
  MaxDelay = 3
  MaxTime = 4
  MaxEvents = 3
INVARIANTS
  CountsAgree
PROPERTIES
  LinksStand
CHECK_DEADLOCK FALSE
