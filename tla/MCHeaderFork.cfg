SPECIFICATION Spec
CONSTANTS
  Blocks <- MCBlocks
  Parent <- MCParent
  Number <- MCNumber
  Difficulty <- MCDifficulty
  Networks <- MCNetworks
  Saved0 <- MCSaved
  None <- MCNone
  SliceSize = 2
  MaxSlices = 3
  Base = 1
  Top = 4
  MaxCrashes <- MCMaxCrashes
INVARIANTS StopsKnown WindowLinked TablesMatch
PROPERTY NeverLighter
CHECK_DEADLOCK FALSE
