SPECIFICATION Propagation
CONSTANTS
  Ports <- PortNames
  Pins <- PinNames
  Nets <- NetNames
  Instances <- InstanceNames
  NoNet = "unconnected"
  Designs <- SmallDesigns
  TargetSets <- SmallTargets
INVARIANTS TypeOK NoLeak ResultIsReach
PROPERTIES Terminates
CHECK_DEADLOCK FALSE
