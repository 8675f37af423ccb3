SPECIFICATION FairSpec
CONSTANTS
  Databases = {d1}
  Backends = {b1, b2}
  Roles <- PrimaryAndStandby
  ParallelReindex = FALSE
  CounterSize = 8
  MaxConnects = 3
  MaxRemovals = 0
  MaxFailures = 1
  MaxCrashes = 1
  MaxStops = 1
  MaxSignals = 0
INVARIANTS RunningIsFlushed NothingLeftUnflushed NoneWhilePreparing CountsUsers
PROPERTY WaitingIsServed
CHECK_DEADLOCK FALSE
