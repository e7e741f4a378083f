SPECIFICATION Spec
CONSTANTS
  NAddr = 1
  HashRank <- MCHashRank
  NSlot = 2
  MaxValue = 1
  MaxBlock = 3
  MaxUnwinds = 1
  MaxRestarts = 1
  Effects <- LaterBlocks
INVARIANTS ReadsCurrentState HistoryReadable HashedFollows AppendsSucceed
CHECK_DEADLOCK FALSE
