SPECIFICATION FairSpec
CONSTANTS
  Requests <- MCRequests
  QueueLimit = 1
  MaxFrames = 3
  MaxConfigs = 2
INVARIANTS
  TypeOK
  Listening
  PriorityKept
  CommandsWhole
  LastCommandApplied
PROPERTIES
  ReadsAgain
CHECK_DEADLOCK FALSE
