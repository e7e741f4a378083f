SPECIFICATION Spec
CONSTANTS
  NAddr = 2
  HashRank <- MCHashRank
  NSlot = 1
  MaxValue = 2
  MaxBlock = 3
  MaxUnwinds = 1
  MaxRestarts = 0
  Effects <- Once
INVARIANT RootsAgree
