SPECIFICATION FairSpec
CONSTANT
  Scenarios <- AllScenarios
INVARIANTS
  TypeOK
  ResponsesAnswerTheirRequest
  FreshRoutesHold
  OkMeansExecuted
  LookupErrorSendsNothing
  DiscoveryFindsController
  DiscoveredAddressesUnique
PROPERTY
  OperationEnds
CHECK_DEADLOCK FALSE
