SPECIFICATION ExceptionReplay
CONSTANTS
  Objects <- TwoClocks
  NoMultiplier = NoMultiplier
  PathCommands <- SomePaths
  GroupCommands <- SomeGroups
  MaxProgram = 3
  SharedLines = TRUE
INVARIANT ConflictsReported
CHECK_DEADLOCK FALSE
