SPECIFICATION OpenSpec
CONSTANTS
  Transaction <- MCAliasing
  Hash <- MCHash
  TxHash <- MCTxHash
  TxInputs <- MCTxInputs
  TxOutputs <- MCTxOutputs
  IndexRange = 2
  MainCacheCapacity = 2
  MempoolCapacity = 2
  TransactionList <- MCTransactionList
  UndoList <- MCUndoList
  MaxCopies = 2
INVARIANTS CoinTypeOK CacheWithinCapacity NoCoinFromNothing MempoolWithinCapacity
PROPERTIES MempoolNeverReopens
CHECK_DEADLOCK FALSE
