SPECIFICATION LoginFairSpec
CONSTANTS
  Calls = {c1, c2}
  NoTopic = NoTopic
  NoPacket = NoPacket
  MaxAnswers = 2
INVARIANTS
  LoginIInv
  EndingsAreTrue
  ServedAtMostOnce
PROPERTIES
  LogInEndsUnlessBlocked
CHECK_DEADLOCK FALSE
