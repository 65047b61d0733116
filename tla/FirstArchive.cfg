SPECIFICATION Spec
CONSTANTS
  Procs = {p1, p2}
  Ids = {i1}
  NoId = NoId
  DayOfMonth <- MCLate
  MaxDay = 4
  MaxRows = 3
SYMMETRY MCSymmetry
INVARIANTS
  LossExplained
PROPERTIES
  LedgerUnlessClash
