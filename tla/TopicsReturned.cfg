SPECIFICATION Spec
CONSTANTS
  Domains <- MCDomains
  EndsInRequest <- MCEndsInRequest
  Ids <- MCIds
  MaxDomains = 3
INVARIANTS
  ReturnsCorrelationId
CHECK_DEADLOCK FALSE
