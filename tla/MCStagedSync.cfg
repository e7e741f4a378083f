SPECIFICATION FairSpec
CONSTANTS
  MaxHeight = 3
  Branches <- MCBranches
  Tree <- MCTree
  TxAmount <- MCTxAmount
  MinCommit = 2
  ToBlocks <- MCToBlocks
  Increment = 3
  None = None
INVARIANTS CommittedConsistent NoStageFails
PROPERTIES FollowsErigon ReturnsOnceReached
CHECK_DEADLOCK FALSE
