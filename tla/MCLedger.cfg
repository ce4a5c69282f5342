SPECIFICATION ChainSpec
CONSTANTS
  Transaction <- MCTransaction
  Hash <- MCHash
  TxHash <- MCTxHash
  TxInputs <- MCTxInputs
  TxOutputs <- MCTxOutputs
  IndexRange = 2
  MainCacheCapacity = 2
  MempoolCapacity = 2
  Block <- MCBlock
  Genesis = "g"
  NoHash = "0"
  BlockHash <- MCBlockHash
  BlockPrev <- MCBlockPrev
  BlockTxs <- MCBlockTxs
INVARIANT LedgerFollowsChain
CHECK_DEADLOCK FALSE
