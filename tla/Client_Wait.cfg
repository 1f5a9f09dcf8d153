SPECIFICATION ClientSpec
CONSTANT
  StreamScenarios <- MCStreams
  Calls <- MCCalls
  MaxExtra = 3
  MaxGroupSpan = 16
  Held <- HeldValues
  Moves <- MCAllMoves
INVARIANT
  WaitEndsWhenComplete
CHECK_DEADLOCK FALSE
