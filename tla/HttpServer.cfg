SPECIFICATION Spec
CONSTANTS
  Requests = {r1, r2}
  Asks <- MCAsks
  EnvLevel = "WARNING"
INVARIANTS
  IInv
  CtxStaysEmpty
  PagesAreWhole
  CookieComesWithDashBoard
  LastLevelHolds
CHECK_DEADLOCK FALSE
