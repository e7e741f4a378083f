SPECIFICATION Spec
CONSTANTS
  NAddr = 2
  HashRank <- MCHashRank
  NSlot = 1
  MaxValue = 1
  MaxBlock = 2
  MaxUnwinds = 1
  MaxRestarts = 0
  Effects <- TouchedDead
INVARIANTS HistoryReadable
