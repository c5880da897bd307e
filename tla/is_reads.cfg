SPECIFICATION Spec
CONSTANTS
  Session = {s1, s2}
  Sku = {k1, k2, k3}
  PageSize = 2
  Budgets = {2, 5}
  Offers <- MCOffers
  k1 = k1
  k2 = k2
  k3 = k3
  Unknown = Unknown
  NoRead = NoRead
  MaxEdits = 1
  MaxReads = 2
SYMMETRY Symmetry
INVARIANTS
  TypeOK
  NothingMissed
  RestIsRecorded
CHECK_DEADLOCK FALSE
