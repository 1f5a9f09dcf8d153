SPECIFICATION FairSpec
CONSTANTS
  Commands <- LiveCommands
  Inputs <- LiveInputs
  CooldownCycles = 2
  CooldownBrake = 1
  CalibrateCount = 1
  DefaultTimeout = 2
  TimeoutMode = "kZeroVelocity"
  FixedVoltage = FALSE
  BemfFeedforward = FALSE
  EpochLimit = 1
PROPERTIES
  StopDisablesDriver
  StartCompletes
