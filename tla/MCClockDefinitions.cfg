SPECIFICATION Spec
CONSTANTS
  Ports <- PortNames
  Pins <- PinNames
  Nets <- NetNames
  Instances <- InstanceNames
  NoNet = "unconnected"
  Design <- SmallDesign
  ClockNames <- MasterAndChild
  NoName = NoName
  PointRank <- Rank
  Periods <- OneAndTwo
  NoPeriod = NoPeriod
  PrimaryCommands <- SomePrimaries
  GeneratedCommands <- SomeGenerated
  MaxCommands = 3
INVARIANTS NoSilentLoss BuildAndAuditAgree DerivedPeriodCurrent NoValidMasterRing
CHECK_DEADLOCK FALSE
