SPECIFICATION ExceptionReplay
CONSTANTS
  Objects <- TwoClocks
  NoMultiplier = NoMultiplier
  PathCommands <- SomePaths
  GroupCommands <- SomeGroups
  MaxProgram = 3
  SharedLines = FALSE
INVARIANTS TypeOK MulticyclesFollowExceptions ResetHistoryExact OverlapsReported ConflictsReported
CHECK_DEADLOCK FALSE
