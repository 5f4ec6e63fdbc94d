SPECIFICATION Spec
CONSTANTS
  ModeList <- MCModes
  Files <- MCFiles
  Inputs <- MCInputs
  Snapshots <- MCSnapshots
  Limit = 2
  Thresholds <- MCThresholds
  MaxRewrites = 1
INVARIANTS AllOrNothing FailureIsReported NoBlindPass
CHECK_DEADLOCK FALSE
