SPECIFICATION RSpec
CONSTANTS
  SITES <- MCSites
  Pages <- MCPages
  Line <- MCLine
  NoId = NoId
  Local = 1
INVARIANTS
  IdsIdentify
  CountryKnown
  RepeatExplained
PROPERTIES
  PageStored
