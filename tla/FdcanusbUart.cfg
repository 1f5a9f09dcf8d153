SPECIFICATION FairSpec
CONSTANT
  Scenarios <- AllScenarios
INVARIANTS
  TypeOK
  NoStaleReply
  FlushFlagged
  TransactionsExecuteAcked
  RetriesAbsorbFaults
  DistinctRepliesReachTheirRequest
PROPERTY
  OperationEnds
CHECK_DEADLOCK FALSE
