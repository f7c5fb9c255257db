SPECIFICATION Spec
CONSTANTS
  Calls = {c1, c2, c3}
  Structs = {s1}
  Blank = Blank
  None = None
  MaxAnswers = 2
SYMMETRY Symmetry
INVARIANTS
  IInv
  AnswerBearsKey
  PanicTakesTwo
  BlockedForAReason
  BlankIdStopsRouter
  CarefulReuseIsHarmless
CHECK_DEADLOCK FALSE
