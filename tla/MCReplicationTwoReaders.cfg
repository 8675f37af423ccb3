SPECIFICATION RFairSpec
CONSTANTS
  PageSize = 2
  MaxXLogPages = 4
  MaxSizes <- ThreeBlocks
  Sizes = {3}
  BuildSizes = {1}
  BuildObjects = 3
  MaxObjects = 6
  MaxTruncates = 0
  MaxAborts = 0
  Readers = {r1, r2}
  KeepsUp = TRUE
  MaxDeaths = 0
  MaxResets = 0
INVARIANTS NothingSkipped ReplaysEndInOrder
PROPERTY EventuallyApplied
CHECK_DEADLOCK FALSE
