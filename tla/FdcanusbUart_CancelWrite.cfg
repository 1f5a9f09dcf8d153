SPECIFICATION Spec
CONSTANT
  Scenarios <- WriteScenarios
INVARIANT
  AckedMeansExecuted
CHECK_DEADLOCK FALSE
