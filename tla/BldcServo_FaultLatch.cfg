SPECIFICATION Spec
CONSTANTS
  Commands <- MCCommands
  Inputs <- MCInputs
  CooldownCycles = 3
  CooldownBrake = 1
  CalibrateCount = 2
  DefaultTimeout = 2
  TimeoutMode = "kZeroVelocity"
  FixedVoltage = FALSE
  BemfFeedforward = FALSE
  EpochLimit = 3
PROPERTY
  FaultLeavesOnlyToStopped
