SPECIFICATION Spec
CONSTANTS
  Pods = {p1, p2}
  NoPod = NoPod
  Topics = {request, event}
  MaxInFlight = 1
INVARIANTS
  ReadyMeansConnected
CHECK_DEADLOCK FALSE
