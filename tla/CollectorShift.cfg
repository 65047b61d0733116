SPECIFICATION Spec
CONSTANTS
  SITES <- MCSites
  Pages <- MCPages
  Line <- MCLine
  NoId = NoId
INVARIANTS
  Provenance
PROPERTIES
  NullIdExplained
