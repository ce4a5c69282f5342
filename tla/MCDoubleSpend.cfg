SPECIFICATION ValidatedSpec
CONSTANTS
  Transaction <- MCTransaction
  Hash <- MCHash
  TxHash <- MCTxHash
  TxInputs <- MCTxInputs
  TxOutputs <- MCTxOutputs
  IndexRange = 3
  MainCacheCapacity = 2
  MempoolCapacity = 2
  TransactionList <- MCTransactionList
  UndoList <- MCUndoList
  MaxCopies = 1
INVARIANT NoDoubleSpend
CHECK_DEADLOCK FALSE
