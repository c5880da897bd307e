SPECIFICATION FairSpec
CONSTANTS
  Title = {t1, t2}
  Aspect = {a1, a2}
  NoPrior = NoPrior
  NoDoc = NoDoc
  MaxEdits = 2
  MaxRetries = 2
  BudgetMax = 4
  CanRefresh = TRUE
INVARIANTS
  TypeOK
PROPERTIES
  KeepsPromise
  CallEnds
CHECK_DEADLOCK FALSE
