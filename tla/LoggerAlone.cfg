SPECIFICATION Spec
CONSTANTS
  Goroutines = {g1}
  Levels <- MCLevels
  Inputs <- AloneInputs
  MaxCalls = 3
INVARIANTS
  IInv
  OwnLine
  OnlyRefusedCallsLeak
CHECK_DEADLOCK FALSE
