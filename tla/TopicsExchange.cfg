SPECIFICATION Spec
CONSTANTS
  Domains <- MCDomains
  EndsInRequest <- MCEndsInRequest
  Ids <- MCIds
  MaxDomains = 3
INVARIANTS
  IInv
  BuiltTopicsParse
  AnswersAloneComplete
  AnswerIsNoRequest
CHECK_DEADLOCK FALSE
