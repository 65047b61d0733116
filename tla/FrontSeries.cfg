SPECIFICATION TSpec
CONSTANTS
  a = a
  b = b
  Indices = {a, b}
  Quoted = {a}
  NoIndice = NoIndice
  Listings <- MCListings
  LIMIT = 1
  MaxVals = 3
  MaxClicks = 1
  MaxNet = 2
CHECK_DEADLOCK FALSE
INVARIANTS
  
  GapExplained
  TotalAgrees
