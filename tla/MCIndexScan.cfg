SPECIFICATION Spec
CONSTANTS
  Participants = {leader, worker}
  Leader = leader
  Tids <- TheTids
  MaxTuples = 3
  MaxTime = 4
  MaxVacuums = 2
  MaxStatements = 2
INVARIANTS ScansSeeSnapshot LiveTuplesHaveRows ScanKeepsObjects
CHECK_DEADLOCK FALSE
