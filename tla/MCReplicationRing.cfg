SPECIFICATION RFairSpec
CONSTANTS
  PageSize = 2
  MaxXLogPages = 4
  MaxSizes <- ThreeBlocks
  Sizes <- OneOrThree
  BuildSizes = {1}
  BuildObjects = 3
  MaxObjects = 8
  MaxTruncates = 0
  MaxAborts = 1
  Readers = {r1}
  KeepsUp = TRUE
  MaxDeaths = 0
  MaxResets = 0
INVARIANTS ReadersNeverFail PositionAfterLastObject
PROPERTY Delivers
CHECK_DEADLOCK FALSE
