SPECIFICATION FairSpec
CONSTANTS
  Tables = {"actionsvals"}
  SITES <- MCSharedTable
  Ids = {i1}
  NoId = NoId
  DayOfMonth <- MCDayOfMonth
  MaxDay = 3
  MaxRows = 2
  MaxCrash = 1
  CheckEvery = 1
INVARIANTS
  OverlapExplained
  TornKept
PROPERTIES
  LedgerSpec
  ExistingFileFreezesItsDay
  YesterdayLeaves
