SPECIFICATION Spec
CONSTANTS
  Addr <- MCAddr
  Slot = {0}
  Value = {0, 1, 2}
  Revision = 9
  Genesis <- MCGenesis
  GenesisSlots <- MCSlots
  BalanceChanges <- MCBalanceChanges
  Txs <- MCTxs
  Beneficiary = 3
  BaseFee = 1
  BlockGasLimit = 165000
  Reward = 2
  NewAddrs = {21, 22}
  Calls <- MCCalls
  Named = {22}
  None = None
  MaxBlocks = 1
  MaxTxs = 2
  MaxOps = 3
  MaxDepth = 2
INVARIANTS EtherNotCreated NoUnderflow OriginalAsAtStart
PROPERTIES RevertsExactly WritesExactly
CHECK_DEADLOCK FALSE
