SPECIFICATION FairSpec
CONSTANTS
  d1 = d1
  d2 = d2
  d3 = d3
  i1 = i1
  i2 = i2
  i3 = i3
  i4 = i4
  Databases = {d1, d2, d3}
  Indexes = {i1, i2, i3, i4}
  DatabaseOf <- ThreeAndOne
  Broken = {i1}
  Limits <- UpToTwo
  MaxRefusals = 1
  MaxDeaths = 1
INVARIANTS NeverTooMany VacuumAfterAppliers
PROPERTIES RoundEnds StopsWhenTold TriedByAppliers
CHECK_DEADLOCK FALSE
