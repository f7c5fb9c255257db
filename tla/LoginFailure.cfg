SPECIFICATION LoginSpec
CONSTANTS
  Calls = {c1, c2}
  NoTopic = NoTopic
  NoPacket = NoPacket
  MaxAnswers = 1
INVARIANTS
  FailureReachesForm
CHECK_DEADLOCK FALSE
