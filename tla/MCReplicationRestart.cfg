SPECIFICATION RSpec
CONSTANTS
  PageSize = 2
  MaxXLogPages = 3
  MaxSizes <- Unlimited
  Sizes <- OneOrFive
  BuildSizes = {1}
  BuildObjects = 3
  MaxObjects = 6
  MaxTruncates = 0
  MaxAborts = 0
  Readers = {r1}
  KeepsUp = TRUE
  MaxDeaths = 0
  MaxResets = 0
INVARIANT ReadersNeverFail
CHECK_DEADLOCK FALSE
