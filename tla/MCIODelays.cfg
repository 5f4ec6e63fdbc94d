SPECIFICATION Spec
CONSTANTS
  Ports <- SomePorts
  Direction <- PortDirection
  ClockPorts <- OnlyCk
  Clocks <- TwoClocks
  ClockTargets <- TargetsOf
  Pins <- OnePin
  NoPin = NoPin
  NoValue = NoValue
  Commands <- SomeCommands
  MaxCommands = 3
INVARIANTS ReplaysAgree ActiveIsHistory OverwritesReported SnapshotExact FullCoverageIsClean
CHECK_DEADLOCK FALSE
