CONSTANTS
  NoNet = NoNet
  Ports <- MCPorts
  Pins <- MCPins
  Cells <- MCCells
  Nets <- MCNets
  Clocks <- MCClocks
  Inputs = {"a", "zzz"}
  Outputs = {"zzz"}
  Registers = {"u/r"}
  Owner <- MCOwner
  NetOf <- MCNetOf
  Width <- MCWidth
  LocalWidth <- MCLocalWidth
  Depth <- MCDepth
  Forests <- MCForests
  Limits <- MCLimits
  BroadMatches = 2
  BroadUniverse = 2
  BroadPercent = 50
  MaxAudits = 2
SPECIFICATION Spec
INVARIANTS SameFindings
CHECK_DEADLOCK FALSE
