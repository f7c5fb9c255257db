SPECIFICATION Spec
CONSTANTS
  Goroutines = {g1, g2}
  Levels = {0}
  Inputs <- SharedInputs
  MaxCalls = 1
SYMMETRY Symmetry
INVARIANTS
  IInv
  NoLeftovers
  MixedLinesOverlap
CHECK_DEADLOCK FALSE
