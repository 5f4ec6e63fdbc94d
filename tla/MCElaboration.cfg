CONSTANTS
  NoSignal = NoSignal
  Cells <- MCCells
  Netlists <- MCNetlists
  Limits <- MCLimits
  MaxDepth = 3
SPECIFICATION Spec
INVARIANTS CutIffWarned IndexConsistent NetsSound NetsComplete
CHECK_DEADLOCK FALSE
