-------------------------- MODULE CoinClient_proofs -------------------------
(***************************************************************************)
(* The coin database's invariant under any caller, for every value of the  *)
(* constants; and for a careful caller, the refinement of TxoLedger.       *)
(***************************************************************************)
EXTENDS CoinClient, CoinDatabase_proofs

LEMMA OpenStep ==
  ASSUME CoinInv, [OpenNext]_coinVars
  PROVE  CoinInv'
<1>1. CASE Walk
  BY <1>1, WalkInv
<1>2. ASSUME NEW txs \in TransactionList, StoreBlock(txs)
      PROVE  CoinInv'
  BY <1>2, ClientAssumption, StoreBlockInv, UnchangedKeepsCoins DEF StoreBlock
<1>3. ASSUME NEW txs \in TransactionList, validate_and_store_block(txs)
      PROVE  CoinInv'
  <2>1. txs \in Seq(Transaction) /\ Validation(txs)
    BY <1>3, ClientAssumption DEF validate_and_store_block
  <2>2. KeepsCoins
    BY <2>1, ValidationKeepsCoins DEF KeepsCoins, CoinInv
  <2>3. CASE store_block(txs)
    BY <2>1, <2>2, <2>3, StoreBlockInv
  <2>4. CASE UNCHANGED <<main_cache, main_cache_size, mempoolVars, loopVars,
                         historyVars>>
    <3>1. UNCHANGED <<main_cache, main_cache_size, mempool_cache, mempool_size,
                      status, transactions, cursor, historyVars>>
      BY <2>4 DEF mempoolVars, loopVars
    <3> QED
      BY <2>2, <3>1, NoCoinMoves
      DEF Untouched, CoinInv, CoinTypeOK, MempoolWithinCapacity
  <2> QED BY <1>3, <2>3, <2>4 DEF validate_and_store_block
<1>4. ASSUME NEW t \in Transaction, validate_and_store_transaction(t)
      PROVE  CoinInv'
  BY <1>4, ValidatedTransactionInv
<1>5. ASSUME NEW t \in Transaction, StoreTransaction(t)
      PROVE  CoinInv'
  BY <1>5, MempoolInv, UnchangedKeepsCoins DEF StoreTransaction, Untouched, cacheVars
<1>6. ASSUME NEW undo_blocks \in UndoList, undo_coins(undo_blocks)
      PROVE  CoinInv'
  BY <1>6, UndoInv
<1>7. CASE FlushMainCache
  BY <1>7, FlushInv DEF FlushMainCache
<1>8. CASE UNCHANGED coinVars
  BY <1>8, CoinStutterInv
<1> QED
  BY <1>1, <1>2, <1>3, <1>4, <1>5, <1>6, <1>7, <1>8 DEF OpenNext, AnyTransaction

\* Under any caller the state keeps its types, the cache and the mempool stay
\* within their capacities, and no coin is held more often than it was added:
\* CoinInv is inductive and implies each of them.
THEOREM CoinSafety == OpenSpec => []CoinInv
<1>1. CoinInit => CoinInv
  BY InitInv
<1>2. CoinInv /\ [OpenNext]_coinVars => CoinInv'
  BY OpenStep
<1> QED BY <1>1, <1>2, PTL DEF OpenSpec

\* Every variable keeps its type under any caller.
THEOREM CoinTypes == OpenSpec => []CoinTypeOK
<1>1. CoinInv => CoinTypeOK
  BY DEF CoinInv
<1> QED BY <1>1, CoinSafety, PTL

\* The cache and its counter stay within the capacity under any caller.
THEOREM CacheBounded == OpenSpec => []CacheWithinCapacity
<1>1. CoinInv => CacheWithinCapacity
  BY DEF CoinInv
<1> QED BY <1>1, CoinSafety, PTL

\* The cache and the database never hold more copies of a coin than were added,
\* under any caller.
THEOREM CoinsConserved == OpenSpec => []NoCoinFromNothing
<1>1. CoinInv => NoCoinFromNothing
  BY DEF CoinInv
<1> QED BY <1>1, CoinSafety, PTL

\* The mempool and its counter stay within the capacity under any caller.
THEOREM MempoolBounded == OpenSpec => []MempoolWithinCapacity
<1>1. CoinInv => MempoolWithinCapacity
  BY DEF CoinInv
<1> QED BY <1>1, CoinSafety, PTL

\* Once the mempool's counter has reached the capacity, nothing enters any more,
\* whatever callers do.
THEOREM MempoolStaysClosed == OpenSpec => MempoolNeverReopens
<1> DEFINE Closed == mempool_size = MempoolCapacity =>
                       mempool_cache' \subseteq mempool_cache /\ mempool_size' = mempool_size
<1>1. ASSUME [OpenNext]_coinVars
      PROVE  Closed
  <2>1. ASSUME UNCHANGED mempoolVars
        PROVE  Closed
    BY <2>1 DEF mempoolVars
  <2>2. ASSUME NEW t \in Transaction, store_transaction_in_mempool(t)
        PROVE  Closed
    BY <2>1, <2>2 DEF store_transaction_in_mempool
  <2>3. ASSUME NEW txs, remove_transactions_from_mempool(txs)
        PROVE  Closed
    BY <2>3 DEF remove_transactions_from_mempool
  <2>4. CASE Walk
    BY <2>1, <2>4 DEF Walk, SpendInput, SpendFromCache, SpendFromDatabase, SpendUnknown,
                      SpendMissing, SpentInput, AddOutput, NextTransaction, Return
  <2>5. ASSUME NEW txs \in TransactionList,
               StoreBlock(txs) \/ validate_and_store_block(txs)
        PROVE  Closed
    BY <2>1, <2>3, <2>5 DEF StoreBlock, validate_and_store_block, store_block
  <2>6. ASSUME NEW t \in Transaction,
               validate_and_store_transaction(t) \/ StoreTransaction(t)
        PROVE  Closed
    BY <2>1, <2>2, <2>6 DEF validate_and_store_transaction, StoreTransaction
  <2>7. ASSUME NEW undo_blocks \in UndoList, undo_coins(undo_blocks)
        PROVE  Closed
    BY <2>1, <2>7 DEF undo_coins
  <2>8. CASE FlushMainCache \/ UNCHANGED coinVars
    BY <2>1, <2>8 DEF FlushMainCache, coinVars
  <2> QED BY <1>1, <2>4, <2>5, <2>6, <2>7, <2>8 DEF OpenNext, AnyTransaction
<1>2. [OpenNext]_coinVars => [Closed]_mempoolVars
  BY <1>1
<1> QED BY <1>2, PTL DEF OpenSpec, MempoolNeverReopens

-----------------------------------------------------------------------------
(* Careful callers. *)

\* Calls that leave the database idle.
LEMMA IdleOnce ==
  ASSUME OnceInv, OnceNext, status = "idle", status' = "idle", Still
  PROVE  OnceInv'
<1>1. CoinInv'
  BY OpenStep DEF OnceNext, OpenNext, OnceInv
<1> QED BY <1>1, QuietOnce

LEMMA BlockOnce ==
  ASSUME OnceInv, NEW txs \in TransactionList, Careful(txs), validate_and_store_block(txs)
  PROVE  OnceInv' /\ Still
<1>1. /\ txs \in Seq(Transaction) /\ Validation(txs)
      /\ UNCHANGED <<main_cache, historyVars>>
  BY ClientAssumption DEF validate_and_store_block, store_block
<1>2. Still
  BY <1>1, ValidatedStill
<1>3. CoinInv'
  BY OpenStep DEF OpenNext, OnceInv
<1>4. CASE ~validate_block(txs)
  <2>1. status' = "idle"
    BY <1>4 DEF validate_and_store_block, loopVars
  <2> QED BY <1>2, <1>3, <2>1, QuietOnce
<1>5. CASE validate_block(txs) /\ store_block(txs)
  BY <1>1, <1>2, <1>3, <1>5, StoreOnce
<1> QED BY <1>2, <1>4, <1>5 DEF validate_and_store_block

LEMMA TransactionOnce ==
  ASSUME OnceInv, AnyTransaction
  PROVE  OnceInv' /\ Still
<1>1. PICK t \in Transaction : validate_and_store_transaction(t) \/ StoreTransaction(t)
  BY DEF AnyTransaction
<1>2. /\ status = "idle" /\ status' = "idle"
      /\ UNCHANGED <<main_cache, historyVars>>
  BY <1>1 DEF validate_and_store_transaction, StoreTransaction, loopVars, cacheVars
<1>3. Still
  <2>1. CASE validate_and_store_transaction(t)
    <3>1. <<t>> \in Seq(Transaction) /\ Validation(<<t>>)
      BY <2>1 DEF validate_and_store_transaction
    <3> QED BY <1>2, <3>1, ValidatedStill
  <2>2. CASE StoreTransaction(t)
    BY <1>2, <2>2 DEF StoreTransaction, cacheVars, historyVars, Still, Copies, InDatabase
  <2> QED BY <1>1, <2>1, <2>2
<1> QED BY <1>2, <1>3, IdleOnce DEF OnceNext

LEMMA FlushOnce ==
  ASSUME OnceInv, FlushMainCache
  PROVE  OnceInv' /\ Still
<1>1. /\ status = "idle" /\ status' = "idle" /\ main_cache' = {}
      /\ database' = FlushedDatabase /\ UNCHANGED <<created, spent>> /\ CoinTypeOK
  BY DEF FlushMainCache, flush_main_cache, loopVars, historyVars, OnceInv, CoinInv
<1>2. \A c \in Locator : InDatabase(c)' = Copies(c) /\ Copies(c) \in Nat
  BY <1>1, FlushedType, CopiesType
<1>3. Still
  BY <1>1, <1>2 DEF Still, Copies
<1> QED BY <1>1, <1>3, IdleOnce DEF OnceNext

\* For a careful caller OnceInv holds: of the block being stored, all that is still
\* to be spent is there, and nothing that is still to be added is.
THEOREM OnceInvariant == OnceSpec => []OnceInv
<1>1. CoinInit => OnceInv
  BY StartOnce
<1>2. OnceInv /\ [OnceNext]_coinVars => OnceInv'
  BY WalkOnce, BlockOnce, TransactionOnce, FlushOnce, StutterOnce DEF OnceNext
<1> QED BY <1>1, <1>2, PTL DEF OnceSpec

\* For a careful caller exactly the created and unspent coins have a copy, one each.
THEOREM CoinsHaveOneHome == OnceSpec => []OneHome
<1>1. OnceInv => OneHome
  BY CopiesType DEF OnceInv, CoinInv, CoinTypeOK, CreatedOnce, OneHome
<1> QED BY <1>1, OnceInvariant, PTL

\* For a careful caller no spend reaches the undefined erase.
THEOREM StoringIsDefined == OnceSpec => []NeverDies
<1>1. OnceInv => NeverDies
  BY DEF OnceInv, NeverDies
<1> QED BY <1>1, OnceInvariant, PTL

LEMMA LedgerStep ==
  ASSUME OnceInv, [OnceNext]_coinVars
  PROVE  [Ledger!LedgerNext]_(Ledger!ledgerVars)
<1>1. /\ Unspent = {c \in Locator : Copies(c) > 0} /\ Unspent' = {c \in Locator : Copies(c)' > 0}
      /\ Gone = {c \in Locator : spent[c] > 0} /\ Gone' = {c \in Locator : spent'[c] > 0}
  BY DEF Unspent, Gone
<1>2. \A c \in Locator : /\ Copies(c) \in Nat /\ Copies(c) <= 1
                         /\ spent[c] \in Nat /\ spent \in [Locator -> Nat]
  BY CopiesType DEF OnceInv, CoinInv, CoinTypeOK, CreatedOnce
<1>3. CASE Still
  <2>1. Unspent' = Unspent /\ Gone' = Gone
    BY <1>1, <1>3 DEF Still
  <2> QED BY <2>1 DEF Ledger!ledgerVars
<1>4. CASE SpendInput
  <2> DEFINE coin == ThisInput
  <2>1. /\ coin \in Locator /\ Copies(coin) > 0
        /\ spent' = [spent EXCEPT ![coin] = @ + 1]
        /\ \A c \in Locator : Copies(c)' = IF c = coin THEN Copies(c) - 1 ELSE Copies(c)
    BY <1>4, SpendTakesOne, InputIsThere, InputStepType DEF SpentInput, OnceInv, CoinInv
  <2> HIDE DEF coin
  <2>2. Unspent' = Unspent \ {coin} /\ coin \in Unspent
    BY <1>1, <1>2, <2>1
  <2>3. Gone' = Gone \cup {coin}
    BY <1>1, <1>2, <2>1
  <2> QED BY <2>1, <2>2, <2>3 DEF Ledger!LedgerNext, Ledger!Spend
<1>5. CASE AddOutput
  <2> DEFINE coin == ThisOutput
  <2>1. /\ coin \in Locator /\ Copies(coin) = 0 /\ spent[coin] = 0 /\ spent' = spent
        /\ \A c \in Locator : Copies(c)' = IF c = coin THEN Copies(c) + 1 ELSE Copies(c)
    BY <1>5, AddMakesOne, OutputHere DEF AddOutput
  <2> HIDE DEF coin
  <2>2. Unspent' = Unspent \cup {coin} /\ coin \notin Unspent \cup Gone
    BY <1>1, <1>2, <2>1
  <2>3. Gone' = Gone
    BY <1>1, <2>1
  <2> QED BY <2>1, <2>2, <2>3 DEF Ledger!LedgerNext, Ledger!Create
<1>6. SpendInput \/ AddOutput \/ Still
  BY NextOnce, ReturnOnce, BlockOnce, TransactionOnce, FlushOnce, StutterOnce DEF OnceNext, Walk
<1> QED BY <1>3, <1>4, <1>5, <1>6

\* For a careful caller every step of the database is one of the ledger or changes
\* nothing that the ledger shows: the database implements TxoLedger.
THEOREM DatabaseIsLedger == OnceSpec => ImplementsLedger
<1>1. CoinInit => Ledger!LedgerInit
  <2>1. CoinInit => Unspent = {} /\ Gone = {}
    BY StartOnce DEF Unspent, Gone
  <2> QED BY <2>1 DEF Ledger!LedgerInit
<1>2. OnceInv /\ [OnceNext]_coinVars => [Ledger!LedgerNext]_(Ledger!ledgerVars)
  BY LedgerStep
<1> QED BY <1>1, <1>2, OnceInvariant, PTL DEF OnceSpec, ImplementsLedger, Ledger!LedgerSpec

=============================================================================
