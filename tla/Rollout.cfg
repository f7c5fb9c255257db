SPECIFICATION FairSpec
CONSTANTS
  Pods = {p1, p2}
  NoPod = NoPod
  Topics = {request, event}
  MaxInFlight = 1
INVARIANTS
  IInv
  OwnerKeepsSubscriptions
  StatusSurvivesTakeover
  OnlineHidesNoCrash
PROPERTIES
  SignalledPodsExit
CHECK_DEADLOCK FALSE
