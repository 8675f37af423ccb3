SPECIFICATION Spec
CONSTANTS
  Databases = {"d1", "d2"}
  Modes = {"custom", "generic"}
  FileNodes = {1, 2}
  Home <- TheHome
  Built <- TheBuilt
  Spaces <- TheSpaces
  Attributes <- TheAttributes
  Prefix = {"title"}
  Included = {"tags"}
  Plugin <- ThePlugin
  Domain <- TheDomain
  Rows <- TheRows
  Contents <- TheContents
  MaxBulkTuples = 0
  Active <- TheActive
  Kept = {2}
  MaxOperations <- TheMaxOperations
  MaxLag <- TheMaxLag
  MaxErrors = 1
  MaxRestarts = 1
INVARIANTS RecordsTellOperations FirstReplayNeverFails ReplayFailsOnMovedTables StandbyHasIndexes StandbyHasNoMore
CHECK_DEADLOCK FALSE
