SPECIFICATION Spec
CONSTANTS
  MaxPath = 3
  NumberOf <- TheNumber
  Tokens <- JsonbTokens
  Workloads <- TheWorkloads
  Queries <- Documents
  MaxFailures = 1
  MaxVacuums = 2
INVARIANTS SearchesAgree NoValueIsLeft ContainFindsAll ContainFindsOnly
CHECK_DEADLOCK FALSE
