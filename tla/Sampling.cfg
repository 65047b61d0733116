SPECIFICATION FairSpec
CONSTANTS
  LIMIT = 2
  Contents <- MCContents
  MaxTable = 7
  MaxMore = 2
INVARIANTS
  LeastDivisor
  AnswerBounded
  NoStretchLost
  PrintedBounded
PROPERTIES
  Answers
