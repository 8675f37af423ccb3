SPECIFICATION Spec
CONSTANTS
  Databases = {d1}
  Backends = {b1, b2}
  Roles <- PrimaryAndStandby
  ParallelReindex = FALSE
  CounterSize = 8
  MaxConnects = 3
  MaxRemovals = 1
  MaxFailures = 0
  MaxCrashes = 1
  MaxStops = 0
  MaxSignals = 2
INVARIANT IndexesFilled
CHECK_DEADLOCK FALSE
