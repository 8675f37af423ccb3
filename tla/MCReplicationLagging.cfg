SPECIFICATION RSpec
CONSTANTS
  PageSize = 2
  MaxXLogPages = 4
  MaxSizes <- ThreeBlocks
  Sizes <- OneOrThree
  BuildSizes = {1}
  BuildObjects = 3
  MaxObjects = 6
  MaxTruncates = 1
  MaxAborts = 0
  Readers = {r1}
  KeepsUp = FALSE
  MaxDeaths = 1
  MaxResets = 1
PROPERTIES NeverBackwards RaisedOnlyWhenBehind
CHECK_DEADLOCK FALSE
