SPECIFICATION FairSpec
CONSTANTS
  Calls = {c1, c2}
  NoTopic = NoTopic
  NoPacket = NoPacket
  MaxAnswers = 2
INVARIANTS
  IInv
  SendIsSafe
  AnswerIsOwn
  CallerAlwaysToldSomething
  AnsweredCallLeavesNothing
  BlockedByAbandonedCall
PROPERTIES
  BlockedForGood
  ImplementsRpcCalls
  ReturnsUnlessBlocked
CHECK_DEADLOCK FALSE
