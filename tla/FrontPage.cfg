SPECIFICATION FairSpec
CONSTANTS
  a = a
  b = b
  Indices = {a, b}
  Quoted = {a, b}
  NoIndice = NoIndice
  Listings <- MCListings
  LIMIT = 1
  MaxVals = 2
  MaxClicks = 1
  MaxNet = 2
CHECK_DEADLOCK FALSE
INVARIANTS
  TypeOK
  OneTimer
  LeakExplained
  SeriesClean
  TemplateThrowsExplained
PROPERTIES
  CatchesUp
