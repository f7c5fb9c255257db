SPECIFICATION FairSpec
CONSTANTS
  Calls = {c1, c2}
  NoTopic = NoTopic
  NoPacket = NoPacket
  MaxAnswers = 1
PROPERTIES
  EveryCallReturns
CHECK_DEADLOCK FALSE
