SPECIFICATION ClientSpec
CONSTANT
  StreamScenarios <- MCStreams
  Calls <- MCCalls
  MaxExtra = 3
  MaxGroupSpan = 16
  Held <- HeldValues
  Moves <- MCAllMoves
INVARIANTS
  StreamTypeOK
  CommandGetsItsReply
  CallTypeOK
  
  RepliesDecode
  MoveTypeOK
  OkMeansArrived
  NotFoundBeforeCommand
PROPERTIES
  DeliversReliably
  StreamOperationEnds
  MoveEnds
CHECK_DEADLOCK FALSE
