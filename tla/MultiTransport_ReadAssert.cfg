SPECIFICATION Spec
CONSTANTS
  Requests <- AssertRequests
  QueueLimit = 1
  MaxFrames = 1
  MaxConfigs = 2
INVARIANTS
  NoReadAssert
CHECK_DEADLOCK FALSE
