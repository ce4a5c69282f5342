SPECIFICATION FilesSpec
CONSTANTS
  Transaction <- MCTransaction
  Hash <- MCHash
  TxHash <- MCTxHash
  TxInputs <- MCTxInputs
  TxOutputs <- MCTxOutputs
  IndexRange = 2
  MainCacheCapacity = 2
  MempoolCapacity = 2
  Block <- MCBlock
  Genesis = "g"
  NoHash = "0"
  BlockHash <- MCBlockHash
  BlockPrev <- MCBlockPrev
  BlockTxs <- MCBlockTxs
  Size <- MCSize
  MaxFileSize = 4
  OffsetRange = 8
  FileRange = 3
  SizeRange = 64
  MaxCalls = 8
INVARIANTS RecordsLeadToBlocks NoCoinWithoutBlock AnswersAreChains
CHECK_DEADLOCK FALSE
