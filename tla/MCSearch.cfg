SPECIFICATION SearchSpec
CONSTANTS
  Characters <- TheCharacters
  Rows <- TheRows
  Plans <- ThePlans
  Datums <- TheDatums
  i1 = i1
  i2 = i2
  other = other
  NoIndex = NoIndex
  NoDatum = NoDatum
  NoQuery = NoQuery
  Broken = Broken
  Indexes = {i1, i2}
  OtherIndexes = {other}
  BareName <- TheBareName
  Available = TRUE
  Conditions <- TheConditions
  Unparsable = {"bad"}
  Options = {1, 2}
  VacuumFrequency = 2
INVARIANTS IndexFindsAll IndexFindsOnly ExecutesWhatIsAsked
