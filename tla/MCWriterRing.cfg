SPECIFICATION Spec
CONSTANTS
  PageSize = 2
  MaxXLogPages = 4
  MaxSizes <- AnySize
  Sizes <- WithHuge
  BuildSizes <- WithHuge
  BuildObjects = 3
  MaxObjects = 6
  MaxTruncates = 1
  MaxAborts = 1
INVARIANTS TypeOK NoHole PositionAtEnd HangsOnlyInShortRing StreamIntact
PROPERTY OverwritesOldest
CHECK_DEADLOCK FALSE
