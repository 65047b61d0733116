SPECIFICATION Spec
CONSTANTS
  Size = 10
  Values = {1, 2}
  S1 <- MCS1
  S2 <- MCS2
  None = None
INVARIANTS
  Intact
  HeldIntact
