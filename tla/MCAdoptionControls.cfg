SPECIFICATION Spec
CONSTANTS
  Workspaces <- Everything
  Invocations <- MCInvocations
  Ids <- TwoIds
  PathLimit = 4
  SuffixParts = 2
  FieldLimit = 4
  Refused <- Illegible
  MaxEntries = 2
  Oversize <- LargeFiles
  MaxDay = 1
  MaxRuns = 3
  MaxEdits = 2
INVARIANTS NothingVanishes ReviewedOnly
PROPERTIES UnchangedIsQuiet
CHECK_DEADLOCK FALSE
