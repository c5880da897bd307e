SPECIFICATION Spec
CONSTANTS
  s1 = s1
  s2 = s2
  l1 = l1
  l2 = l2
  Session <- MCSession
  Listing <- MCListing
  Absent = Absent
  Torn = Torn
  Shops <- MCShops
  MaxSold = 1
  MaxIngests = 3
  MaxMoves = 1
  MaxGaps = 1
  MaxCrashes = 1
SYMMETRY Sessions
INVARIANTS
  TypeOK
  NothingUnreported
  NothingRepeated
  SlipsHaveCause
  SalesAreReal
CHECK_DEADLOCK FALSE
