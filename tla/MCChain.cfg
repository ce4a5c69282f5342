SPECIFICATION FairChainSpec
CONSTANTS
  Transaction <- MCTransaction
  Hash <- MCHash
  TxHash <- MCTxHash
  TxInputs <- MCTxInputs
  TxOutputs <- MCTxOutputs
  IndexRange = 2
  MainCacheCapacity = 2
  MempoolCapacity = 2
  Block <- MCBlock
  Genesis = "g"
  NoHash = "0"
  BlockHash <- MCBlockHash
  BlockPrev <- MCBlockPrev
  BlockTxs <- MCBlockTxs
INVARIANTS ChainTypeOK HeightsWithinLength HeightsBelowParents TipHeight ActiveChainRooted
  AtMostOneTakeover LedgerFollowsChainUntilTakeover MempoolUnconfirmed
PROPERTIES HeightsNeverDrop TipAdvances HandlerReturns
CHECK_DEADLOCK FALSE
