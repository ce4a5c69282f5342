---------------------------- MODULE CoinDatabase ----------------------------
(***************************************************************************)
(* The coin database (core/src/coin_database): the unspent outputs of the  *)
(* chain, kept in a bounded in-memory cache that is flushed as a whole to  *)
(* an in-memory key-value store, and a mempool of unconfirmed              *)
(* transactions.                                                           *)
(*                                                                         *)
(* store_block walks the inputs and then the outputs of every transaction. *)
(* Each iteration of those loops is one step here, ordered by the cursor,  *)
(* so that an invariant says what holds after every iteration.  No other   *)
(* operation can start before the walk is over: the class is driven by one *)
(* thread.                                                                 *)
(*                                                                         *)
(* Data that no property distinguishes is abstracted: an output's amount   *)
(* and public key travel with its index, so a CoinRecord (three parallel   *)
(* vectors edited at one common position) is a bag of indices.  is_spent   *)
(* is left out because it is FALSE in every coin: the constructor sets it  *)
(* so and its only other write (line 213) dereferences the null pointer    *)
(* that operator[] has just inserted.                                      *)
(***************************************************************************)
EXTENDS Integers, Sequences, FiniteSets

CONSTANTS
  Transaction,        \* the transactions callers may pass in
  Hash,               \* the values CryptCrypto::hash takes on them
  TxHash,             \* TxHash[t]: hash of the serialized transaction
  TxInputs,           \* TxInputs[t]: the coins its inputs refer to, in order
  TxOutputs,          \* TxOutputs[t]: how many outputs it has
  IndexRange,         \* output_index is a uint8_t: 256
  MainCacheCapacity,  \* _main_cache_capacity: 70
  MempoolCapacity     \* _mempool_capacity: 70

Index == 0 .. IndexRange - 1

\* CoinLocator: a transaction's hash and the index of one of its outputs.
Locator == Hash \X Index

ASSUME CapacityAssumption ==
  /\ IndexRange \in Nat \ {0}
  /\ MainCacheCapacity \in Nat \ {0}
  /\ MempoolCapacity \in Nat

ASSUME TransactionAssumption ==
  /\ TxHash \in [Transaction -> Hash]
  /\ TxInputs \in [Transaction -> Seq(Locator)]
  /\ TxOutputs \in [Transaction -> Nat]

VARIABLES
  main_cache,       \* the locators of the cached coins
  main_cache_size,  \* _main_cache_size, a counter kept beside the map
  database,         \* tx hash -> the bag of unspent indices of its CoinRecord
  mempool_cache,    \* the hashes of the transactions in the mempool
  mempool_size,     \* _mempool_size, a counter kept beside the map
  status,           \* "idle", "storing" (inside store_block) or "dead"
  transactions,     \* the argument of the store_block call under way
  cursor,           \* where its loops are: transaction, input, count
  created,          \* history: how often each coin has been added
  spent             \* history: how often a stored input has named each coin

cacheVars == <<main_cache, main_cache_size, database>>
mempoolVars == <<mempool_cache, mempool_size>>
loopVars == <<status, transactions, cursor>>
historyVars == <<created, spent>>
coinVars == <<cacheVars, mempoolVars, loopVars, historyVars>>

Start == [tx |-> 1, in |-> 1, count |-> 0]
EmptyRecord == [i \in Index |-> 0]

CoinInit ==
  /\ main_cache = {} /\ main_cache_size = 0
  /\ database = [h \in {} |-> EmptyRecord]
  /\ mempool_cache = {} /\ mempool_size = 0
  /\ status = "idle" /\ transactions = <<>> /\ cursor = Start
  /\ created = [c \in Locator |-> 0] /\ spent = [c \in Locator |-> 0]

-----------------------------------------------------------------------------
(* Reading the state. *)

\* How often the record of c's transaction lists c's index.
InDatabase(c) == IF c[1] \in DOMAIN database THEN database[c[1]][c[2]] ELSE 0

\* Mutant: any coin of a known transaction will do.
AvailableByRecord(c) == c \in main_cache \/ c[1] \in DOMAIN database

\* What one input asks of validate_transaction: a cached coin, or an index
\* that the record found in the database lists.
Available(c) == c \in main_cache \/ InDatabase(c) > 0

\* The positions of all inputs of a list of transactions.
InputPositions(txs) ==
  UNION {{k} \X (1 .. Len(TxInputs[txs[k]])) : k \in 1 .. Len(txs)}

InputAt(txs, p) == TxInputs[txs[p[1]]][p[2]]

Before(p, q) == p[1] < q[1] \/ (p[1] = q[1] /\ p[2] < q[2])

validate_block(txs) == \A p \in InputPositions(txs) : Available(InputAt(txs, p))

\* The input at which validation stops.
FirstUnavailable(txs, p) ==
  /\ ~Available(InputAt(txs, p))
  /\ \A q \in InputPositions(txs) :
       ~Available(InputAt(txs, q)) => ~Before(q, p)

WithKey(db, h) ==
  IF h \in DOMAIN db THEN db
  ELSE [k \in DOMAIN db \cup {h} |-> IF k = h THEN EmptyRecord ELSE db[k]]

\* What validating a list of transactions does to the database.  get_safely
\* reads with operator[]: looking up an absent key inserts it with an empty
\* value, so a failed validation leaves an empty record behind.
Validation(txs) ==
  \/ validate_block(txs) /\ UNCHANGED database
  \/ \E p \in InputPositions(txs) :
       /\ FirstUnavailable(txs, p)
       /\ database' = WithKey(database, InputAt(txs, p)[1])

-----------------------------------------------------------------------------
(* Entering store_block.  Its transactions leave the mempool, whose counter *)
(* is not touched, and the walk begins.  The caller says what the lookups   *)
(* that came before have left in the database.                              *)

\* Mutant: the block's transactions stay in the mempool.
KeepInMempool(txs) == UNCHANGED mempoolVars

remove_transactions_from_mempool(txs) ==
  /\ mempool_cache' = mempool_cache \ {TxHash[txs[k]] : k \in 1 .. Len(txs)}
  /\ UNCHANGED mempool_size

store_block(txs) ==
  /\ status = "idle"
  /\ remove_transactions_from_mempool(txs)
  /\ status' = "storing" /\ transactions' = txs /\ cursor' = Start
  /\ UNCHANGED <<main_cache, main_cache_size, historyVars>>

-----------------------------------------------------------------------------
(* The walk: one step per input, per output and per transaction.           *)

Current == transactions[cursor.tx]
AtTransaction == status = "storing" /\ cursor.tx <= Len(transactions)
AtInput == AtTransaction /\ cursor.in <= Len(TxInputs[Current])
AtOutput == /\ AtTransaction
            /\ cursor.in > Len(TxInputs[Current])
            /\ cursor.count < TxOutputs[Current]

ThisInput == TxInputs[Current][cursor.in]
ThisOutput == <<TxHash[Current], cursor.count % IndexRange>>

SpentInput ==
  /\ cursor' = [cursor EXCEPT !.in = @ + 1]
  /\ spent' = [spent EXCEPT ![ThisInput] = @ + 1]
  /\ UNCHANGED <<created, transactions, mempoolVars>>

\* Mutant: the spent coin stays in the cache.
SpendKeepsCached ==
  /\ AtInput /\ ThisInput \in main_cache
  /\ SpentInput
  /\ UNCHANGED <<main_cache, main_cache_size, database, status>>

SpendFromCache ==
  /\ AtInput /\ ThisInput \in main_cache
  /\ main_cache' = main_cache \ {ThisInput}
  /\ main_cache_size' = main_cache_size - 1
  /\ SpentInput
  /\ UNCHANGED <<database, status>>

\* Mutant: the position that find returns is not looked at.
SpendUnlisted ==
  /\ AtInput /\ ThisInput \notin main_cache /\ ThisInput[1] \in DOMAIN database
  /\ database' = [database EXCEPT ![ThisInput[1]][ThisInput[2]] = @ - 1]
  /\ SpentInput
  /\ UNCHANGED <<main_cache, main_cache_size, status>>

SpendFromDatabase ==
  /\ AtInput /\ ThisInput \notin main_cache /\ InDatabase(ThisInput) > 0
  /\ database' = [database EXCEPT ![ThisInput[1]][ThisInput[2]] = @ - 1]
  /\ SpentInput
  /\ UNCHANGED <<main_cache, main_cache_size, status>>

\* Neither the cache nor the database knows the transaction: nothing is
\* erased and nothing is reported.
SpendUnknown ==
  /\ AtInput /\ ThisInput \notin main_cache
  /\ ThisInput[1] \notin DOMAIN database
  /\ SpentInput
  /\ UNCHANGED <<cacheVars, status>>

\* The record exists but does not list the index: find returns end() and
\* erase(end()) is undefined.  Depending on the library it drops the record's
\* last entry or corrupts the heap and the process dies.
SpendMissing ==
  /\ AtInput /\ ThisInput \notin main_cache
  /\ ThisInput[1] \in DOMAIN database /\ InDatabase(ThisInput) = 0
  /\ SpentInput
  /\ UNCHANGED <<main_cache, main_cache_size>>
  /\ \/ /\ \E i \in Index :
             /\ database[ThisInput[1]][i] > 0
             /\ database' = [database EXCEPT ![ThisInput[1]][i] = @ - 1]
        /\ UNCHANGED status
     \/ status' = "dead" /\ UNCHANGED database

\* Mutant: a new record replaces the one of earlier outputs.
OverwritingFlush ==
  [h \in DOMAIN database \cup {c[1] : c \in main_cache} |->
    IF \E c \in main_cache : c[1] = h
    THEN [i \in Index |-> IF <<h, i>> \in main_cache THEN 1 ELSE 0]
    ELSE database[h]]

\* The database after flush_main_cache: every cached coin is appended to the
\* record of its transaction, which is made if there is none.
FlushedDatabase ==
  [h \in DOMAIN database \cup {c[1] : c \in main_cache} |->
    [i \in Index |->
      InDatabase(<<h, i>>) + IF <<h, i>> \in main_cache THEN 1 ELSE 0]]

\* Mutant: the cache is not cleared.
FlushKeepsCache ==
  /\ UNCHANGED <<main_cache, main_cache_size>>
  /\ database' = FlushedDatabase

flush_main_cache ==
  /\ main_cache' = {} /\ main_cache_size' = 0
  /\ database' = FlushedDatabase

\* Mutant: the counter is forgotten.
InsertUncounted(cache, size) ==
  /\ main_cache' = cache \cup {ThisOutput}
  /\ main_cache_size' = size

\* insert does nothing when the key is present; the counter grows regardless.
InsertCoin(cache, size) ==
  /\ main_cache' = cache \cup {ThisOutput}
  /\ main_cache_size' = size + 1

AddOutput ==
  /\ AtOutput
  /\ \/ /\ main_cache_size >= MainCacheCapacity
        /\ InsertCoin({}, 0)
        /\ database' = FlushedDatabase
     \/ /\ main_cache_size < MainCacheCapacity
        /\ InsertCoin(main_cache, main_cache_size)
        /\ UNCHANGED database
  /\ cursor' = [cursor EXCEPT !.count = @ + 1]
  /\ created' = [created EXCEPT ![ThisOutput] = @ + 1]
  /\ UNCHANGED <<spent, status, transactions, mempoolVars>>

NextTransaction ==
  /\ AtTransaction
  /\ cursor.in > Len(TxInputs[Current]) /\ cursor.count >= TxOutputs[Current]
  /\ cursor' = [Start EXCEPT !.tx = cursor.tx + 1]
  /\ UNCHANGED <<cacheVars, mempoolVars, historyVars, status, transactions>>

\* Mutant: the loop waits for one transaction more.
ReturnLate ==
  /\ status = "storing" /\ cursor.tx > Len(transactions) + 1
  /\ status' = "idle" /\ transactions' = <<>> /\ cursor' = Start
  /\ UNCHANGED <<cacheVars, mempoolVars, historyVars>>

Return ==
  /\ status = "storing" /\ cursor.tx > Len(transactions)
  /\ status' = "idle" /\ transactions' = <<>> /\ cursor' = Start
  /\ UNCHANGED <<cacheVars, mempoolVars, historyVars>>

SpendInput == \/ SpendFromCache \/ SpendFromDatabase
              \/ SpendUnknown \/ SpendMissing

Walk == SpendInput \/ AddOutput \/ NextTransaction \/ Return

-----------------------------------------------------------------------------
(* The other operations.                                                   *)

\* Mutant: off by one at the capacity.
StorePastCapacity(t) ==
  IF mempool_size > MempoolCapacity
  THEN UNCHANGED mempoolVars
  ELSE /\ mempool_cache' = mempool_cache \cup {TxHash[t]}
       /\ mempool_size' = mempool_size + 1

store_transaction_in_mempool(t) ==
  IF mempool_size = MempoolCapacity
  THEN UNCHANGED mempoolVars
  ELSE /\ mempool_cache' = mempool_cache \cup {TxHash[t]}
       /\ mempool_size' = mempool_size + 1

validate_and_store_transaction(t) ==
  /\ status = "idle"
  /\ Validation(<<t>>)
  /\ IF validate_block(<<t>>)
     THEN store_transaction_in_mempool(t)
     ELSE UNCHANGED mempoolVars
  /\ UNCHANGED <<main_cache, main_cache_size, loopVars, historyVars>>

\* Mutant: the loops tolerate an undo block that lists nothing.
UndoNeverFatal(undo_blocks) == FALSE

\* Both loops of undo_coins test i == size() where i < size() is meant, so an
\* undo block that lists transactions is skipped, and one that lists none has
\* its missing first entry read through a null pointer.  An undo block is
\* therefore abstracted to the number of transactions it lists.
UndoIsFatal(undo_blocks) ==
  \E k \in 1 .. Len(undo_blocks) : undo_blocks[k] = 0

undo_coins(undo_blocks) ==
  /\ status = "idle"
  /\ status' = IF UndoIsFatal(undo_blocks) THEN "dead" ELSE "idle"
  /\ UNCHANGED <<cacheVars, mempoolVars, transactions, cursor, historyVars>>

-----------------------------------------------------------------------------
(* What the code does not check and needs of a list of transactions: a     *)
(* careful caller sees to it before storing them.                          *)

DistinctInputs(txs) ==
  \A p, q \in InputPositions(txs) : InputAt(txs, p) = InputAt(txs, q) => p = q

FreshOutputs(txs) ==
  \A k \in 1 .. Len(txs) :
    /\ TxOutputs[txs[k]] <= IndexRange
    /\ \A l \in 1 .. Len(txs) : TxHash[txs[k]] = TxHash[txs[l]] => k = l
    /\ \A i \in Index : created[<<TxHash[txs[k]], i>>] = 0

Careful(txs) == DistinctInputs(txs) /\ FreshOutputs(txs)

-----------------------------------------------------------------------------
(* Properties. *)

\* How many copies of a coin the cache and the database hold together.
Copies(c) == InDatabase(c) + IF c \in main_cache THEN 1 ELSE 0

CoinTypeOK ==
  /\ main_cache \in SUBSET Locator /\ main_cache_size \in Nat
  /\ \E keys \in SUBSET Hash : database \in [keys -> [Index -> Nat]]
  /\ mempool_cache \in SUBSET Hash /\ mempool_size \in Nat
  /\ status \in {"idle", "storing", "dead"}
  /\ transactions \in Seq(Transaction)
  /\ cursor \in [tx : Nat \ {0}, in : Nat \ {0}, count : Nat]
  /\ created \in [Locator -> Nat] /\ spent \in [Locator -> Nat]

\* The cache never outgrows its capacity, although its counter is kept by hand
\* and drifts: insert is a no-op on a coin that is already cached while the
\* counter still grows.  The drift only makes a flush come early.
CacheWithinCapacity ==
  /\ Cardinality(main_cache) <= main_cache_size
  /\ main_cache_size <= MainCacheCapacity

\* Whatever is stored, restored, flushed or spent, and in whatever order, the
\* cache and the database never hold more copies of a coin than were added:
\* flushing moves coins and never duplicates them.
NoCoinFromNothing == \A c \in Locator : Copies(c) <= created[c]

\* The mempool stays within its capacity; its counter only ever grows, so it
\* bounds the map from above.
MempoolWithinCapacity ==
  /\ Cardinality(mempool_cache) <= mempool_size
  /\ mempool_size <= MempoolCapacity

\* Removing transactions from the mempool does not lower _mempool_size: once
\* the counter has reached the capacity no transaction ever enters again, even
\* when blocks have emptied the mempool.
MempoolNeverReopens ==
  [][mempool_size = MempoolCapacity =>
       mempool_cache' \subseteq mempool_cache /\ mempool_size' = mempool_size
    ]_mempoolVars

\* The inductive invariant: these together, and both maps finite, as a
\* cardinality needs.
CoinInv ==
  /\ CoinTypeOK /\ CacheWithinCapacity /\ NoCoinFromNothing
  /\ MempoolWithinCapacity
  /\ IsFiniteSet(main_cache) /\ IsFiniteSet(mempool_cache)

\* A coin is accepted as an input at most as often as it has been created.
NoDoubleSpend == \A c \in Locator : spent[c] <= created[c]

=============================================================================
