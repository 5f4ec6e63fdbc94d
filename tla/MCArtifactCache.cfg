SPECIFICATION Spec
CONSTANTS
  Processes <- TwoProcesses
  Trees <- OneTree
  MaxCalls = 2
  MaxCrashes = 1
  MaxDamages = 1
INVARIANTS NeverPoisoned ReturnedIsWhole LoneCallsRecover NotAllFail
PROPERTIES CallsEnd
CHECK_DEADLOCK FALSE
