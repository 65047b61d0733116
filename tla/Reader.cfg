SPECIFICATION RSpec
CONSTANTS
  Tables = {"cfd"}
  SITES <- MCSites
  Ids = {"i1"}
  NoId = "null"
  DayOfMonth <- MCDayOfMonth
  Month <- MCMonth
  MaxDay = 3
  MaxRows = 1
  MaxCrash = 1
  CheckEvery = 1
INVARIANTS
  MissingExplained
  TornReadTwice
  TotalCounts
PROPERTIES
  DoubledExplained
  TotalsNotInflated
