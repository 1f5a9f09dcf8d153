SPECIFICATION Spec
CONSTANT
  Scenarios <- CancelledProbe
INVARIANT
  CancelSafeDiscovery
CHECK_DEADLOCK FALSE
