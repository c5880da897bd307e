SPECIFICATION Spec
CONSTANTS
  DayLength = 4
  Weeks = 4
  AsOf = 40
INVARIANTS
  EveryEventInOneWeek
CHECK_DEADLOCK FALSE
