SPECIFICATION Spec
CONSTANTS
  Tables = {"cfd"}
  SITES <- MCOneSite
  Ids = {i1}
  NoId = NoId
  DayOfMonth <- MCDayOfMonth
  MaxDay = 6
  MaxRows = 0
  MaxCrash = 2
  CheckEvery = 2
INVARIANTS
  NoDayMissed
