------------------------- MODULE CoinDatabase_proofs ------------------------
(***************************************************************************)
(* Every operation of the coin database preserves CoinInv: its types, the  *)
(* bounds on the cache and the mempool, and NoCoinFromNothing.  The lemmas *)
(* are about single operations, so that any caller's specification can be  *)
(* assembled from them.                                                    *)
(* Where blocks are stored with care, OnceInv is preserved too.  It looks  *)
(* ahead: of the block being stored, every input still to be spent names a *)
(* coin that is there, no two name the same one, and none of the outputs   *)
(* still to be added has ever been created.                                *)
(***************************************************************************)
EXTENDS CoinDatabase, FiniteSetTheorems, TLAPS

-----------------------------------------------------------------------------
(* Locators, records and copies. *)

LEMMA LocatorParts ==
  ASSUME NEW c \in Locator
  PROVE  c[1] \in Hash /\ c[2] \in Index /\ c = <<c[1], c[2]>>
BY DEF Locator

LEMMA RecordTypes ==
  ASSUME CoinTypeOK
  PROVE  /\ database \in [DOMAIN database -> [Index -> Nat]]
         /\ DOMAIN database \subseteq Hash
<1>1. PICK keys \in SUBSET Hash : database \in [keys -> [Index -> Nat]]
  BY DEF CoinTypeOK
<1> QED BY <1>1

LEMMA CopiesType ==
  ASSUME CoinTypeOK, NEW c \in Locator
  PROVE  InDatabase(c) \in Nat /\ Copies(c) \in Nat
BY RecordTypes, LocatorParts DEF InDatabase, Copies

LEMMA WithKeyType ==
  ASSUME CoinTypeOK, NEW h \in Hash, database' = WithKey(database, h)
  PROVE  /\ database' \in [DOMAIN database' -> [Index -> Nat]]
         /\ DOMAIN database' \subseteq Hash
         /\ \A c \in Locator : InDatabase(c)' = InDatabase(c)
<1>1. EmptyRecord \in [Index -> Nat] /\ \A i \in Index : EmptyRecord[i] = 0
  BY DEF EmptyRecord, Index
<1>2. CASE h \in DOMAIN database
  BY <1>2, RecordTypes DEF WithKey, InDatabase
<1>3. CASE h \notin DOMAIN database
  <2>1. /\ DOMAIN database' = DOMAIN database \cup {h}
        /\ database'[h] = EmptyRecord
        /\ \A k \in DOMAIN database : database'[k] = database[k]
    BY <1>3 DEF WithKey
  <2>2. database' \in [DOMAIN database' -> [Index -> Nat]]
    BY <1>1, <1>3, <2>1, RecordTypes DEF WithKey
  <2>3. ASSUME NEW c \in Locator
        PROVE  InDatabase(c)' = InDatabase(c)
    BY <1>1, <1>3, <2>1, LocatorParts DEF InDatabase
  <2> QED BY <2>1, <2>2, <2>3, RecordTypes
<1> QED BY <1>2, <1>3

-----------------------------------------------------------------------------
(* Validation leaves every coin where it is. *)

LEMMA InputType ==
  ASSUME NEW txs \in Seq(Transaction), NEW p \in InputPositions(txs)
  PROVE  InputAt(txs, p) \in Locator
<1>1. PICK k \in 1 .. Len(txs) : p \in {k} \X (1 .. Len(TxInputs[txs[k]]))
  BY DEF InputPositions
<1>2. TxInputs[txs[k]] \in Seq(Locator)
  BY TransactionAssumption
<1> QED BY <1>1, <1>2 DEF InputAt

LEMMA ValidationKeepsCoins ==
  ASSUME CoinTypeOK, NEW txs \in Seq(Transaction), Validation(txs)
  PROVE  /\ database' \in [DOMAIN database' -> [Index -> Nat]]
         /\ DOMAIN database' \subseteq Hash
         /\ \A c \in Locator : InDatabase(c)' = InDatabase(c)
<1>1. CASE UNCHANGED database
  BY <1>1, RecordTypes DEF InDatabase
<1>2. ASSUME NEW p \in InputPositions(txs),
             database' = WithKey(database, InputAt(txs, p)[1])
      PROVE  /\ database' \in [DOMAIN database' -> [Index -> Nat]]
             /\ DOMAIN database' \subseteq Hash
             /\ \A c \in Locator : InDatabase(c)' = InDatabase(c)
  BY <1>2, InputType, LocatorParts, WithKeyType
<1> QED BY <1>1, <1>2 DEF Validation

-----------------------------------------------------------------------------
(* The steps of the walk. *)

LEMMA InputStepType ==
  ASSUME CoinTypeOK, AtInput
  PROVE  ThisInput \in Locator
<1>1. Current \in Transaction
  BY DEF CoinTypeOK, AtInput, AtTransaction, Current
<1>2. TxInputs[Current] \in Seq(Locator)
  BY <1>1, TransactionAssumption
<1> QED BY <1>2 DEF CoinTypeOK, AtInput, ThisInput

LEMMA OutputStepType ==
  ASSUME CoinTypeOK, AtOutput
  PROVE  ThisOutput \in Locator
<1>1. Current \in Transaction
  BY DEF CoinTypeOK, AtOutput, AtTransaction, Current
<1>2. cursor.count % IndexRange \in Index
  BY CapacityAssumption DEF CoinTypeOK, Index
<1> QED BY <1>1, <1>2, TransactionAssumption DEF ThisOutput, Locator

\* What counting a spent input changes.
LEMMA SpentInputType ==
  ASSUME CoinTypeOK, AtInput, SpentInput
  PROVE  /\ cursor' \in [tx : Nat \ {0}, in : Nat \ {0}, count : Nat]
         /\ spent' \in [Locator -> Nat]
         /\ UNCHANGED <<created, transactions, mempool_cache, mempool_size>>
<1>1. spent \in [Locator -> Nat] /\ ThisInput \in Locator
  BY InputStepType DEF CoinTypeOK
<1>2. cursor \in [tx : Nat \ {0}, in : Nat \ {0}, count : Nat]
  BY DEF CoinTypeOK
<1>3. cursor' \in [tx : Nat \ {0}, in : Nat \ {0}, count : Nat]
  BY <1>2 DEF SpentInput
<1>4. spent' \in [Locator -> Nat]
  BY <1>1 DEF SpentInput
<1> QED BY <1>3, <1>4 DEF SpentInput, mempoolVars

LEMMA SpendFromCacheInv ==
  ASSUME CoinInv, SpendFromCache
  PROVE  CoinInv'
<1> USE DEF CoinInv
<1>1. AtInput /\ SpentInput /\ ThisInput \in main_cache
      /\ main_cache' = main_cache \ {ThisInput}
      /\ main_cache_size' = main_cache_size - 1
      /\ UNCHANGED <<database, status>>
  BY DEF SpendFromCache
<1>2. /\ IsFiniteSet(main_cache')
      /\ Cardinality(main_cache') = Cardinality(main_cache) - 1
      /\ Cardinality(main_cache) \in Nat /\ Cardinality(main_cache) # 0
  BY <1>1, FS_RemoveElement, FS_CardinalityType, FS_EmptySet
<1>3. CoinTypeOK' /\ CacheWithinCapacity'
  <2>1. main_cache_size' \in Nat /\ main_cache_size' <= MainCacheCapacity
        /\ Cardinality(main_cache') <= main_cache_size'
    BY <1>1, <1>2, CapacityAssumption DEF CoinTypeOK, CacheWithinCapacity
  <2> QED BY <1>1, <2>1, SpentInputType DEF CoinTypeOK, CacheWithinCapacity
<1>4. NoCoinFromNothing'
  <2>1. ASSUME NEW c \in Locator
        PROVE  Copies(c)' \in Nat /\ Copies(c)' <= Copies(c)
    BY <1>1, CopiesType DEF Copies, InDatabase
  <2>2. \A c \in Locator : created'[c] \in Nat /\ created'[c] = created[c]
    BY <1>1, SpentInputType DEF CoinTypeOK
  <2> QED BY <2>1, <2>2, CopiesType DEF NoCoinFromNothing
<1>5. MempoolWithinCapacity' /\ IsFiniteSet(mempool_cache)'
  BY <1>1, SpentInputType DEF MempoolWithinCapacity
<1> QED BY <1>2, <1>3, <1>4, <1>5

\* The three ways to spend a coin that is not cached leave the cache alone and
\* only take indices out of records.
LEMMA RecordsShrinkInv ==
  ASSUME CoinInv, AtInput, SpentInput,
         UNCHANGED <<main_cache, main_cache_size>>,
         status' \in {"idle", "storing", "dead"},
         DOMAIN database' = DOMAIN database,
         database' \in [DOMAIN database -> [Index -> Nat]],
         \A h \in DOMAIN database, i \in Index : database'[h][i] <= database[h][i]
  PROVE  CoinInv'
<1> USE DEF CoinInv
<1>1. CoinTypeOK'
  BY RecordTypes, SpentInputType DEF CoinTypeOK
<1>2. NoCoinFromNothing'
  <2>1. ASSUME NEW c \in Locator
        PROVE  Copies(c)' \in Nat /\ Copies(c)' <= Copies(c)
    <3>1. InDatabase(c)' \in Nat /\ InDatabase(c)' <= InDatabase(c)
      BY LocatorParts, RecordTypes DEF InDatabase
    <3> QED BY <3>1, CopiesType DEF Copies
  <2>2. \A c \in Locator : created'[c] \in Nat /\ created'[c] = created[c]
    BY SpentInputType DEF CoinTypeOK
  <2> QED BY <2>1, <2>2, CopiesType DEF NoCoinFromNothing
<1>3. CacheWithinCapacity' /\ MempoolWithinCapacity'
      /\ IsFiniteSet(main_cache)' /\ IsFiniteSet(mempool_cache)'
  BY SpentInputType DEF CacheWithinCapacity, MempoolWithinCapacity
<1> QED BY <1>1, <1>2, <1>3

\* Taking one copy of an index out of a record that lists it.
LEMMA TakeOut ==
  ASSUME CoinTypeOK, NEW h \in DOMAIN database, NEW i \in Index,
         database[h][i] > 0,
         database' = [database EXCEPT ![h][i] = @ - 1]
  PROVE  /\ DOMAIN database' = DOMAIN database
         /\ database' \in [DOMAIN database -> [Index -> Nat]]
         /\ \A k \in DOMAIN database, j \in Index :
              database'[k][j] <= database[k][j]
<1>1. database[h] \in [Index -> Nat] /\ database[h][i] - 1 \in Nat
  BY RecordTypes
<1> QED BY <1>1, RecordTypes

LEMMA SpendFromDatabaseInv ==
  ASSUME CoinInv, SpendFromDatabase
  PROVE  CoinInv'
<1>1. /\ AtInput /\ SpentInput /\ InDatabase(ThisInput) > 0
      /\ database' = [database EXCEPT ![ThisInput[1]][ThisInput[2]] = @ - 1]
      /\ UNCHANGED <<main_cache, main_cache_size, status>>
  BY DEF SpendFromDatabase
<1>2. /\ ThisInput[1] \in DOMAIN database /\ ThisInput[2] \in Index
      /\ database[ThisInput[1]][ThisInput[2]] > 0
  BY <1>1, InputStepType, LocatorParts DEF InDatabase, CoinInv
<1> QED BY <1>1, <1>2, TakeOut, RecordsShrinkInv DEF CoinInv, CoinTypeOK

LEMMA SpendUnknownInv ==
  ASSUME CoinInv, SpendUnknown
  PROVE  CoinInv'
<1>1. AtInput /\ SpentInput
      /\ UNCHANGED <<main_cache, main_cache_size, database, status>>
  BY DEF SpendUnknown, cacheVars
<1> QED BY <1>1, RecordTypes, RecordsShrinkInv DEF CoinInv, CoinTypeOK

LEMMA SpendMissingInv ==
  ASSUME CoinInv, SpendMissing
  PROVE  CoinInv'
<1>1. /\ AtInput /\ SpentInput /\ ThisInput[1] \in DOMAIN database
      /\ UNCHANGED <<main_cache, main_cache_size>>
  BY DEF SpendMissing
<1>2. CASE status' = "dead" /\ UNCHANGED database
  BY <1>1, <1>2, RecordTypes, RecordsShrinkInv DEF CoinInv
<1>3. ASSUME NEW i \in Index, database[ThisInput[1]][i] > 0,
             database' = [database EXCEPT ![ThisInput[1]][i] = @ - 1],
             UNCHANGED status
      PROVE  CoinInv'
  BY <1>1, <1>3, TakeOut, RecordsShrinkInv DEF CoinInv, CoinTypeOK
<1> QED BY <1>2, <1>3 DEF SpendMissing

LEMMA FlushedType ==
  ASSUME CoinTypeOK, database' = FlushedDatabase
  PROVE  /\ database' \in [DOMAIN database' -> [Index -> Nat]]
         /\ DOMAIN database' \subseteq Hash
         /\ \A c \in Locator : InDatabase(c)' = Copies(c)
<1> DEFINE keys == DOMAIN database \cup {c[1] : c \in main_cache}
<1>1. main_cache \subseteq Locator /\ keys \subseteq Hash
  BY RecordTypes, LocatorParts DEF CoinTypeOK
<1>2. DOMAIN database' = keys
  BY DEF FlushedDatabase
<1>3. ASSUME NEW h \in keys
      PROVE  /\ database'[h] \in [Index -> Nat]
             /\ \A i \in Index : database'[h][i] = Copies(<<h, i>>)
  <2>1. \A i \in Index : <<h, i>> \in Locator
    BY <1>1 DEF Locator
  <2>2. database'[h] = [i \in Index |-> Copies(<<h, i>>)]
    BY DEF FlushedDatabase, Copies
  <2> QED BY <2>1, <2>2, CopiesType
<1>4. ASSUME NEW c \in Locator
      PROVE  InDatabase(c)' = Copies(c)
  <2>1. CASE c[1] \in keys
    BY <1>2, <1>3, <2>1, LocatorParts DEF InDatabase
  <2>2. CASE c[1] \notin keys
    BY <1>2, <2>2 DEF InDatabase, Copies
  <2> QED BY <2>1, <2>2
<1>5. database' = [h \in keys |-> database'[h]]
  BY DEF FlushedDatabase
<1> QED BY <1>1, <1>2, <1>3, <1>4, <1>5

LEMMA AddOutputInv ==
  ASSUME CoinInv, AddOutput
  PROVE  CoinInv'
<1> USE DEF CoinInv
<1>1. /\ AtOutput
      /\ cursor' = [cursor EXCEPT !.count = @ + 1]
      /\ created' = [created EXCEPT ![ThisOutput] = @ + 1]
      /\ UNCHANGED <<spent, status, transactions, mempool_cache, mempool_size>>
  BY DEF AddOutput, mempoolVars
<1>2. ThisOutput \in Locator
  BY <1>1, OutputStepType
<1>3. /\ created' \in [Locator -> Nat]
      /\ created'[ThisOutput] = created[ThisOutput] + 1
      /\ \A c \in Locator : created[c] \in Nat /\ created[c] <= created'[c]
  BY <1>1, <1>2 DEF CoinTypeOK
<1>4. cursor' \in [tx : Nat \ {0}, in : Nat \ {0}, count : Nat]
  <2>1. cursor \in [tx : Nat \ {0}, in : Nat \ {0}, count : Nat]
    BY DEF CoinTypeOK
  <2>2. cursor.count + 1 \in Nat
    BY <2>1
  <2> QED BY <1>1, <2>1, <2>2
<1>5. CASE /\ main_cache_size >= MainCacheCapacity
           /\ InsertCoin({}, 0)
           /\ database' = FlushedDatabase
  <2>1. main_cache' = {ThisOutput} /\ main_cache_size' = 1
    BY <1>5 DEF InsertCoin
  <2>2. IsFiniteSet(main_cache') /\ Cardinality(main_cache') = 1
    BY <2>1, FS_Singleton
  <2>3. CoinTypeOK'
    BY <1>1, <1>2, <1>3, <1>4, <1>5, <2>1, FlushedType DEF CoinTypeOK
  <2>4. CacheWithinCapacity'
    BY <2>1, <2>2, CapacityAssumption DEF CacheWithinCapacity
  <2>5. NoCoinFromNothing'
    BY <1>2, <1>3, <1>5, <2>1, FlushedType, CopiesType
    DEF NoCoinFromNothing, Copies
  <2> QED BY <1>1, <2>2, <2>3, <2>4, <2>5 DEF MempoolWithinCapacity
<1>6. CASE /\ main_cache_size < MainCacheCapacity
           /\ InsertCoin(main_cache, main_cache_size)
           /\ UNCHANGED database
  <2>1. main_cache' = main_cache \cup {ThisOutput}
        /\ main_cache_size' = main_cache_size + 1
    BY <1>6 DEF InsertCoin
  <2>2. IsFiniteSet(main_cache')
        /\ Cardinality(main_cache) \in Nat
        /\ Cardinality(main_cache') <= Cardinality(main_cache) + 1
    <3>1. Cardinality(main_cache) \in Nat
      BY FS_CardinalityType
    <3>2. /\ IsFiniteSet(main_cache \cup {ThisOutput})
          /\ Cardinality(main_cache \cup {ThisOutput}) =
               IF ThisOutput \in main_cache THEN Cardinality(main_cache)
               ELSE Cardinality(main_cache) + 1
      BY FS_AddElement
    <3> QED BY <2>1, <3>1, <3>2
  <2>3. CoinTypeOK'
    <3>1. main_cache' \in SUBSET Locator /\ main_cache_size' \in Nat
      BY <1>2, <2>1 DEF CoinTypeOK
    <3> QED BY <1>1, <1>3, <1>4, <1>6, <3>1 DEF CoinTypeOK
  <2>4. CacheWithinCapacity'
    <3>1. Cardinality(main_cache') \in Nat
      BY <2>2, FS_CardinalityType
    <3> QED
      BY <1>6, <2>1, <2>2, <3>1, CapacityAssumption
      DEF CacheWithinCapacity, CoinTypeOK
  <2>5. NoCoinFromNothing'
    BY <1>2, <1>3, <1>6, <2>1, CopiesType
    DEF NoCoinFromNothing, Copies, InDatabase
  <2> QED BY <1>1, <2>2, <2>3, <2>4, <2>5 DEF MempoolWithinCapacity
<1> QED BY <1>5, <1>6 DEF AddOutput

LEMMA NextTransactionInv ==
  ASSUME CoinInv, NextTransaction
  PROVE  CoinInv'
<1> USE DEF CoinInv
<1>1. cursor' \in [tx : Nat \ {0}, in : Nat \ {0}, count : Nat]
  <2>1. cursor.tx + 1 \in Nat \ {0}
    BY DEF CoinTypeOK
  <2> QED BY <2>1 DEF NextTransaction, Start
<1>2. UNCHANGED <<cacheVars, mempoolVars, historyVars, status, transactions>>
  BY DEF NextTransaction
<1> QED
  BY <1>1, <1>2
  DEF CoinTypeOK, CacheWithinCapacity, NoCoinFromNothing, Copies, InDatabase,
      MempoolWithinCapacity, cacheVars, mempoolVars, historyVars

LEMMA ReturnInv ==
  ASSUME CoinInv, Return
  PROVE  CoinInv'
<1> USE DEF CoinInv
<1>1. cursor' \in [tx : Nat \ {0}, in : Nat \ {0}, count : Nat]
      /\ status' = "idle" /\ transactions' \in Seq(Transaction)
  BY DEF Return, Start
<1>2. UNCHANGED <<cacheVars, mempoolVars, historyVars>>
  BY DEF Return
<1> QED
  BY <1>1, <1>2
  DEF CoinTypeOK, CacheWithinCapacity, NoCoinFromNothing, Copies, InDatabase,
      MempoolWithinCapacity, cacheVars, mempoolVars, historyVars

LEMMA WalkInv ==
  ASSUME CoinInv, Walk
  PROVE  CoinInv'
BY SpendFromCacheInv, SpendFromDatabaseInv, SpendUnknownInv, SpendMissingInv,
   AddOutputInv, NextTransactionInv, ReturnInv
DEF Walk, SpendInput

-----------------------------------------------------------------------------
(* Calls. *)

LEMMA InitInv ==
  ASSUME CoinInit
  PROVE  CoinInv
<1>1. database \in [{} -> [Index -> Nat]]
  BY DEF CoinInit
<1>2. CoinTypeOK
  BY <1>1 DEF CoinInit, CoinTypeOK, Start
<1>3. IsFiniteSet({}) /\ Cardinality({}) = 0
  BY FS_EmptySet
<1>4. CacheWithinCapacity /\ MempoolWithinCapacity
  BY <1>3, CapacityAssumption
  DEF CoinInit, CacheWithinCapacity, MempoolWithinCapacity
<1>5. NoCoinFromNothing
  BY DEF CoinInit, NoCoinFromNothing, Copies, InDatabase
<1> QED BY <1>2, <1>3, <1>4, <1>5 DEF CoinInv, CoinInit

\* What a call may do to the database before or instead of storing anything.
Untouched == UNCHANGED <<main_cache, main_cache_size, historyVars>>
KeepsCoins ==
  /\ database' \in [DOMAIN database' -> [Index -> Nat]]
  /\ DOMAIN database' \subseteq Hash
  /\ \A c \in Locator : InDatabase(c)' = InDatabase(c)

\* A step that moves no coin keeps the cache and coin invariants.
LEMMA NoCoinMoves ==
  ASSUME CoinInv, Untouched, KeepsCoins
  PROVE  /\ CacheWithinCapacity' /\ NoCoinFromNothing' /\ IsFiniteSet(main_cache)'
         /\ main_cache' \in SUBSET Locator /\ main_cache_size' \in Nat
         /\ \E keys \in SUBSET Hash : database' \in [keys -> [Index -> Nat]]
         /\ created' \in [Locator -> Nat] /\ spent' \in [Locator -> Nat]
<1>1. UNCHANGED <<main_cache, main_cache_size, created, spent>>
  BY DEF Untouched, historyVars
<1>2. \A c \in Locator : Copies(c)' = Copies(c)
  BY <1>1 DEF KeepsCoins, Copies
<1> QED
  BY <1>1, <1>2
  DEF CoinInv, CoinTypeOK, KeepsCoins, CacheWithinCapacity, NoCoinFromNothing

LEMMA StoreBlockInv ==
  ASSUME CoinInv, NEW txs \in Seq(Transaction), store_block(txs), KeepsCoins
  PROVE  CoinInv'
<1>1. Untouched
  BY DEF store_block, Untouched
<1>2. mempool_cache' \subseteq mempool_cache /\ mempool_size' = mempool_size
  BY DEF store_block, remove_transactions_from_mempool
<1>3. IsFiniteSet(mempool_cache')
      /\ Cardinality(mempool_cache') <= Cardinality(mempool_cache)
      /\ Cardinality(mempool_cache') \in Nat /\ Cardinality(mempool_cache) \in Nat
  BY <1>2, FS_Subset, FS_CardinalityType DEF CoinInv
<1>4. MempoolWithinCapacity'
  BY <1>2, <1>3, CapacityAssumption DEF CoinInv, MempoolWithinCapacity, CoinTypeOK
<1>5. status' = "storing" /\ transactions' = txs
      /\ cursor' \in [tx : Nat \ {0}, in : Nat \ {0}, count : Nat]
  BY DEF store_block, Start
<1> QED
  BY <1>1, <1>2, <1>3, <1>4, <1>5, NoCoinMoves DEF CoinInv, CoinTypeOK

LEMMA MempoolInv ==
  ASSUME CoinInv, NEW t \in Transaction, KeepsCoins, Untouched,
         UNCHANGED loopVars,
         store_transaction_in_mempool(t) \/ UNCHANGED mempoolVars
  PROVE  CoinInv'
<1>1. UNCHANGED <<status, transactions, cursor>>
  BY DEF loopVars
<1>2. CASE UNCHANGED mempoolVars
  BY <1>1, <1>2, NoCoinMoves DEF CoinInv, CoinTypeOK, MempoolWithinCapacity, mempoolVars
<1>3. CASE /\ mempool_size # MempoolCapacity
           /\ mempool_cache' = mempool_cache \cup {TxHash[t]}
           /\ mempool_size' = mempool_size + 1
  <2>1. IsFiniteSet(mempool_cache')
        /\ Cardinality(mempool_cache) \in Nat
        /\ Cardinality(mempool_cache') \in Nat
        /\ Cardinality(mempool_cache') <= Cardinality(mempool_cache) + 1
    <3>1. Cardinality(mempool_cache) \in Nat
      BY FS_CardinalityType DEF CoinInv
    <3>2. /\ IsFiniteSet(mempool_cache \cup {TxHash[t]})
          /\ Cardinality(mempool_cache \cup {TxHash[t]}) =
               IF TxHash[t] \in mempool_cache THEN Cardinality(mempool_cache)
               ELSE Cardinality(mempool_cache) + 1
      BY FS_AddElement DEF CoinInv
    <3> QED BY <1>3, <3>1, <3>2
  <2>2. MempoolWithinCapacity'
    BY <1>3, <2>1, CapacityAssumption DEF CoinInv, MempoolWithinCapacity, CoinTypeOK
  <2>3. mempool_cache' \in SUBSET Hash /\ mempool_size' \in Nat
    BY <1>3, TransactionAssumption DEF CoinInv, CoinTypeOK
  <2> QED BY <1>1, <2>1, <2>2, <2>3, NoCoinMoves DEF CoinInv, CoinTypeOK
<1> QED BY <1>2, <1>3 DEF store_transaction_in_mempool

LEMMA ValidatedTransactionInv ==
  ASSUME CoinInv, NEW t \in Transaction, validate_and_store_transaction(t)
  PROVE  CoinInv'
<1>1. KeepsCoins
  <2>1. <<t>> \in Seq(Transaction) /\ Validation(<<t>>)
    BY DEF validate_and_store_transaction
  <2> QED BY <2>1, ValidationKeepsCoins DEF KeepsCoins, CoinInv
<1>2. Untouched /\ UNCHANGED loopVars
      /\ (store_transaction_in_mempool(t) \/ UNCHANGED mempoolVars)
  BY DEF validate_and_store_transaction, Untouched
<1> QED BY <1>1, <1>2, MempoolInv

LEMMA FlushInv ==
  ASSUME CoinInv, flush_main_cache,
         UNCHANGED <<mempoolVars, loopVars, historyVars>>
  PROVE  CoinInv'
<1>1. /\ main_cache' = {} /\ main_cache_size' = 0 /\ database' = FlushedDatabase
      /\ UNCHANGED <<mempool_cache, mempool_size, status, transactions, cursor,
                     created, spent>>
  BY DEF flush_main_cache, mempoolVars, loopVars, historyVars
<1>2. IsFiniteSet(main_cache') /\ Cardinality(main_cache') = 0
  BY <1>1, FS_EmptySet
<1>3. CoinTypeOK'
  BY <1>1, FlushedType DEF CoinInv, CoinTypeOK
<1>4. NoCoinFromNothing'
  BY <1>1, FlushedType, CopiesType
  DEF CoinInv, NoCoinFromNothing, Copies
<1>5. CacheWithinCapacity' /\ MempoolWithinCapacity'
  BY <1>1, <1>2, CapacityAssumption
  DEF CoinInv, CacheWithinCapacity, MempoolWithinCapacity
<1> QED BY <1>1, <1>2, <1>3, <1>4, <1>5 DEF CoinInv

\* Whatever only changes where control is, as undo_coins and a crash do.
LEMMA StatusInv ==
  ASSUME CoinInv, status' \in {"idle", "storing", "dead"},
         UNCHANGED <<cacheVars, mempoolVars, transactions, cursor, historyVars>>
  PROVE  CoinInv'
BY DEF CoinInv, CoinTypeOK, CacheWithinCapacity, NoCoinFromNothing, Copies,
       InDatabase, MempoolWithinCapacity, cacheVars, mempoolVars, historyVars

LEMMA UndoInv ==
  ASSUME CoinInv, NEW undo_blocks, undo_coins(undo_blocks)
  PROVE  CoinInv'
BY StatusInv DEF undo_coins

LEMMA CoinStutterInv ==
  ASSUME CoinInv, UNCHANGED coinVars
  PROVE  CoinInv'
BY StatusInv DEF coinVars, loopVars, CoinInv, CoinTypeOK

\* Stepping over the database without moving a coin is one way of touching it.
LEMMA UnchangedKeepsCoins ==
  ASSUME CoinInv, UNCHANGED database
  PROVE  KeepsCoins
BY RecordTypes DEF CoinInv, KeepsCoins, InDatabase

-----------------------------------------------------------------------------
(* Blocks stored with care. *)

\* The inputs and outputs that the walk has still to come to.
PendingInput(p) == p[1] > cursor.tx \/ (p[1] = cursor.tx /\ p[2] >= cursor.in)
PendingOutput(k, i) == k > cursor.tx \/ (k = cursor.tx /\ i >= cursor.count)

CreatedOnce ==
  \A c \in Locator : Copies(c) = created[c] - spent[c] /\ created[c] <= 1

InputsThere ==
  \A p \in InputPositions(transactions) :
    PendingInput(p) => Copies(InputAt(transactions, p)) > 0

OutputsFit ==
  \A k \in 1 .. Len(transactions) :
    /\ TxOutputs[transactions[k]] <= IndexRange
    /\ \A l \in 1 .. Len(transactions) :
         TxHash[transactions[k]] = TxHash[transactions[l]] => k = l

OutputsNew ==
  \A k \in 1 .. Len(transactions), i \in Index :
    PendingOutput(k, i) => created[<<TxHash[transactions[k]], i>>] = 0

OnceInv ==
  /\ CoinInv /\ status # "dead" /\ CreatedOnce
  /\ status = "storing" =>
       DistinctInputs(transactions) /\ InputsThere /\ OutputsFit /\ OutputsNew

-----------------------------------------------------------------------------
(* What the invariant says about the step at hand. *)

LEMMA AvailableIsThere ==
  ASSUME CoinTypeOK, NEW c \in Locator
  PROVE  Available(c) <=> Copies(c) > 0
BY CopiesType DEF Available, Copies

LEMMA InputHere ==
  ASSUME CoinTypeOK, AtInput
  PROVE  /\ <<cursor.tx, cursor.in>> \in InputPositions(transactions)
         /\ InputAt(transactions, <<cursor.tx, cursor.in>>) = ThisInput
         /\ PendingInput(<<cursor.tx, cursor.in>>)
<1>1. /\ cursor.tx \in 1 .. Len(transactions) /\ Current = transactions[cursor.tx]
      /\ Current \in Transaction
  BY DEF CoinTypeOK, AtInput, AtTransaction, Current
<1>2. TxInputs[Current] \in Seq(Locator)
  BY <1>1, TransactionAssumption
<1>3. cursor.in \in 1 .. Len(TxInputs[transactions[cursor.tx]])
  BY <1>1, <1>2 DEF CoinTypeOK, AtInput
<1>4. <<cursor.tx, cursor.in>> \in InputPositions(transactions)
  BY <1>1, <1>3 DEF InputPositions
<1>5. InputAt(transactions, <<cursor.tx, cursor.in>>) = ThisInput
  BY DEF InputAt, ThisInput, Current
<1>6. PendingInput(<<cursor.tx, cursor.in>>)
  BY DEF PendingInput, CoinTypeOK
<1> QED BY <1>4, <1>5, <1>6

LEMMA InputIsThere ==
  ASSUME OnceInv, AtInput
  PROVE  Copies(ThisInput) > 0 /\ Available(ThisInput)
<1>1. CoinTypeOK /\ InputsThere
  BY DEF OnceInv, CoinInv, AtInput, AtTransaction
<1>2. Copies(ThisInput) > 0
  BY <1>1, InputHere DEF InputsThere
<1> QED BY <1>1, <1>2, InputStepType, AvailableIsThere

LEMMA OutputHere ==
  ASSUME OnceInv, AtOutput
  PROVE  /\ cursor.tx \in 1 .. Len(transactions) /\ cursor.count \in Index
         /\ ThisOutput = <<TxHash[transactions[cursor.tx]], cursor.count>>
         /\ ThisOutput \in Locator /\ created[ThisOutput] = 0
         /\ Copies(ThisOutput) = 0 /\ spent[ThisOutput] = 0
<1>1. CoinTypeOK /\ OutputsFit /\ OutputsNew /\ CreatedOnce
  BY DEF OnceInv, CoinInv, AtOutput, AtTransaction
<1>2. cursor.tx \in 1 .. Len(transactions) /\ Current = transactions[cursor.tx]
      /\ Current \in Transaction /\ cursor.count \in Nat
  BY <1>1 DEF CoinTypeOK, AtOutput, AtTransaction, Current
<1>3. cursor.count < IndexRange /\ IndexRange \in Nat
  <2>1. TxOutputs[Current] <= IndexRange /\ cursor.count < TxOutputs[Current]
        /\ TxOutputs[Current] \in Nat /\ IndexRange \in Nat
    BY <1>1, <1>2, CapacityAssumption, TransactionAssumption DEF OutputsFit, AtOutput
  <2> QED BY <1>2, <2>1
<1>4. cursor.count % IndexRange = cursor.count /\ cursor.count \in Index
  BY <1>2, <1>3 DEF Index
<1>5. ThisOutput = <<TxHash[transactions[cursor.tx]], cursor.count>>
  BY <1>2, <1>4 DEF ThisOutput
<1>6. ThisOutput \in Locator
  BY <1>1, OutputStepType
<1>7. created[ThisOutput] = 0
  <2>1. PendingOutput(cursor.tx, cursor.count)
    BY <1>2 DEF PendingOutput
  <2> QED BY <1>1, <1>2, <1>4, <1>5, <2>1 DEF OutputsNew
<1>8. Copies(ThisOutput) = 0 /\ spent[ThisOutput] = 0
  <2>1. Copies(ThisOutput) \in Nat /\ spent[ThisOutput] \in Nat
    BY <1>1, <1>6, CopiesType DEF CoinTypeOK
  <2>2. Copies(ThisOutput) = created[ThisOutput] - spent[ThisOutput]
    BY <1>1, <1>6 DEF CreatedOnce
  <2> QED BY <1>7, <2>1, <2>2
<1> QED BY <1>2, <1>4, <1>5, <1>6, <1>7, <1>8

LEMMA PositionType ==
  ASSUME NEW txs \in Seq(Transaction), NEW p \in InputPositions(txs)
  PROVE  /\ p[1] \in 1 .. Len(txs) /\ p[2] \in 1 .. Len(TxInputs[txs[p[1]]])
         /\ p = <<p[1], p[2]>> /\ p[1] \in Nat /\ p[2] \in Nat
<1>1. PICK k \in 1 .. Len(txs) : p \in {k} \X (1 .. Len(TxInputs[txs[k]]))
  BY DEF InputPositions
<1> QED BY <1>1

-----------------------------------------------------------------------------
(* The steps of the walk. *)

\* The input's coin is there, so that it is found, and one copy of it goes.
LEMMA SpendTakesOne ==
  ASSUME OnceInv, SpendInput
  PROVE  /\ AtInput /\ SpentInput /\ UNCHANGED status
         /\ \A c \in Locator :
              Copies(c)' = IF c = ThisInput THEN Copies(c) - 1 ELSE Copies(c)
<1> DEFINE coin == ThisInput
<1>1. CoinTypeOK
  BY DEF OnceInv, CoinInv
<1>2. CASE SpendFromCache
  <2>1. main_cache' = main_cache \ {coin} /\ database' = database /\ coin \in main_cache
    BY <1>2 DEF SpendFromCache
  <2> HIDE DEF coin
  <2>2. \A c \in Locator : Copies(c)' = IF c = coin THEN Copies(c) - 1 ELSE Copies(c)
    <3>1. \A c \in Locator : InDatabase(c)' = InDatabase(c) /\ InDatabase(c) \in Nat
      BY <1>1, <2>1, CopiesType DEF InDatabase
    <3> QED BY <2>1, <3>1 DEF Copies
  <2> QED BY <1>2, <2>2 DEF SpendFromCache, coin
<1>3. CASE SpendFromDatabase
  <2>1. /\ AtInput /\ SpentInput /\ InDatabase(coin) > 0 /\ coin \notin main_cache
        /\ database' = [database EXCEPT ![coin[1]][coin[2]] = @ - 1]
        /\ main_cache' = main_cache /\ status' = status
    BY <1>3 DEF SpendFromDatabase
  <2>2. coin \in Locator
    BY <1>1, <2>1, InputStepType
  <2> HIDE DEF coin
  <2>3. /\ coin[1] \in DOMAIN database /\ coin[1] \in Hash /\ coin[2] \in Index
        /\ coin = <<coin[1], coin[2]>>
    BY <2>1, <2>2, LocatorParts DEF InDatabase
  <2>4. /\ DOMAIN database' = DOMAIN database
        /\ \A h \in DOMAIN database, i \in Index :
             database'[h][i] = IF h = coin[1] /\ i = coin[2] THEN database[h][i] - 1
                               ELSE database[h][i]
    <3>1. database \in [DOMAIN database -> [Index -> Nat]]
      BY <1>1, RecordTypes
    <3> QED BY <2>1, <2>3, <3>1
  <2>5. ASSUME NEW c \in Locator
        PROVE  Copies(c)' = IF c = coin THEN Copies(c) - 1 ELSE Copies(c)
    <3>1. c[1] \in Hash /\ c[2] \in Index /\ c = <<c[1], c[2]>>
      BY LocatorParts
    <3>2. InDatabase(c)' = IF c = coin THEN InDatabase(c) - 1 ELSE InDatabase(c)
      BY <2>3, <2>4, <3>1 DEF InDatabase
    <3>3. InDatabase(c) \in Nat
      BY <1>1, CopiesType
    <3> QED BY <2>1, <3>2, <3>3 DEF Copies
  <2> QED BY <2>1, <2>5 DEF coin
<1>4. ~SpendUnknown /\ ~SpendMissing
  <2>1. AtInput => Available(ThisInput)
    BY InputIsThere
  <2> QED BY <2>1 DEF SpendUnknown, SpendMissing, Available, InDatabase
<1> QED BY <1>2, <1>3, <1>4 DEF SpendInput

LEMMA SpendOnce ==
  ASSUME OnceInv, SpendInput
  PROVE  OnceInv'
<1> DEFINE coin == ThisInput
           here == <<cursor.tx, cursor.in>>
<1>1. /\ AtInput /\ SpentInput /\ UNCHANGED status /\ status = "storing"
      /\ \A c \in Locator : Copies(c)' = IF c = coin THEN Copies(c) - 1 ELSE Copies(c)
  BY SpendTakesOne DEF AtInput, AtTransaction
<1>2. CoinTypeOK /\ CoinInv'
  BY WalkInv DEF Walk, OnceInv, CoinInv
<1>3. coin \in Locator
  BY <1>1, <1>2, InputStepType
<1>4. /\ spent' = [spent EXCEPT ![coin] = @ + 1]
      /\ created' = created /\ transactions' = transactions
      /\ cursor' = [cursor EXCEPT !.in = @ + 1]
  BY <1>1 DEF SpentInput
<1>5. status' # "dead"
  BY <1>1 DEF OnceInv
<1>6. CreatedOnce'
  <2> SUFFICES ASSUME NEW c \in Locator
               PROVE  Copies(c)' = created'[c] - spent'[c] /\ created'[c] <= 1
    BY DEF CreatedOnce
  <2>1. Copies(c) \in Nat /\ created[c] \in Nat /\ spent[c] \in Nat
        /\ Copies(c) = created[c] - spent[c] /\ created[c] <= 1
    BY <1>2, CopiesType DEF OnceInv, CreatedOnce, CoinTypeOK
  <2>2. spent'[c] = IF c = coin THEN spent[c] + 1 ELSE spent[c]
    BY <1>2, <1>3, <1>4 DEF CoinTypeOK
  <2> HIDE DEF coin
  <2> QED BY <1>1, <1>4, <2>1, <2>2
<1>7. DistinctInputs(transactions)' /\ OutputsFit'
  BY <1>1, <1>4 DEF OnceInv, DistinctInputs, OutputsFit, InputPositions, InputAt
<1>8. /\ cursor'.tx = cursor.tx /\ cursor'.in = cursor.in + 1 /\ cursor'.count = cursor.count
      /\ cursor.tx \in Nat /\ cursor.in \in Nat /\ cursor.count \in Nat
  BY <1>2, <1>4 DEF CoinTypeOK
<1>9. OutputsNew'
  BY <1>1, <1>4, <1>8 DEF OnceInv, OutputsNew, PendingOutput
<1>10. InputsThere'
  <2> SUFFICES ASSUME NEW p \in InputPositions(transactions), PendingInput(p)'
               PROVE  Copies(InputAt(transactions, p))' > 0
    BY <1>4 DEF InputsThere, InputPositions, InputAt
  <2>1. here \in InputPositions(transactions) /\ InputAt(transactions, here) = coin
    BY <1>1, <1>2, InputHere
  <2>2. PendingInput(p) /\ p # here
    <3>1. p[1] \in Nat /\ p[2] \in Nat
      BY <1>2, PositionType DEF CoinTypeOK
    <3> QED BY <1>8, <3>1 DEF PendingInput
  <2>3. InputAt(transactions, p) # coin
    <3>1. DistinctInputs(transactions)
      BY <1>1 DEF OnceInv
    <3> QED BY <2>1, <2>2, <3>1 DEF DistinctInputs
  <2>4. InputAt(transactions, p) \in Locator
    BY <1>2, InputType DEF CoinTypeOK
  <2>5. Copies(InputAt(transactions, p)) > 0
    BY <1>1, <2>2 DEF OnceInv, InputsThere
  <2>6. \A c \in Locator : c # coin => Copies(c)' = Copies(c)
    BY <1>1
  <2>7. InputAt(transactions, p)' = InputAt(transactions, p)
    BY <1>4 DEF InputAt
  <2> QED BY <2>3, <2>4, <2>5, <2>6, <2>7 DEF Copies, InDatabase
<1> QED BY <1>2, <1>5, <1>6, <1>7, <1>9, <1>10 DEF OnceInv

\* The output is a new coin, added to the cache whether or not that is flushed first.
LEMMA AddMakesOne ==
  ASSUME OnceInv, AddOutput
  PROVE  /\ AtOutput
         /\ \A c \in Locator :
              Copies(c)' = IF c = ThisOutput THEN Copies(c) + 1 ELSE Copies(c)
<1> DEFINE coin == ThisOutput
<1>1. CoinTypeOK /\ AtOutput
  BY DEF OnceInv, CoinInv, AddOutput
<1>2. coin \in Locator /\ Copies(coin) = 0
  BY <1>1, OutputHere
<1> HIDE DEF coin
<1>3. \A c \in Locator : InDatabase(c) \in Nat /\ Copies(c) \in Nat
  BY <1>1, CopiesType
<1>4. CASE InsertCoin({}, 0) /\ database' = FlushedDatabase
  <2>1. main_cache' = {coin}
    BY <1>4 DEF InsertCoin, coin
  <2>2. \A c \in Locator : InDatabase(c)' = Copies(c)
    BY <1>1, <1>4, FlushedType
  <2>3. \A c \in Locator : Copies(c)' = IF c = coin THEN Copies(c) + 1 ELSE Copies(c)
    BY <1>3, <2>1, <2>2 DEF Copies
  <2> QED BY <1>1, <2>3 DEF coin
<1>5. CASE InsertCoin(main_cache, main_cache_size) /\ UNCHANGED database
  <2>1. main_cache' = main_cache \cup {coin} /\ database' = database
    BY <1>5 DEF InsertCoin, coin
  <2>2. coin \notin main_cache
    BY <1>2, <1>3 DEF Copies
  <2>3. \A c \in Locator : InDatabase(c)' = InDatabase(c)
    BY <2>1 DEF InDatabase
  <2>4. \A c \in Locator : Copies(c)' = IF c = coin THEN Copies(c) + 1 ELSE Copies(c)
    BY <1>3, <2>1, <2>2, <2>3 DEF Copies
  <2> QED BY <1>1, <2>4 DEF coin
<1> QED BY <1>4, <1>5 DEF AddOutput

LEMMA AddOnce ==
  ASSUME OnceInv, AddOutput
  PROVE  OnceInv'
<1> DEFINE coin == ThisOutput
<1>1. /\ AtOutput /\ status = "storing" /\ CoinTypeOK /\ CoinInv'
      /\ \A c \in Locator : Copies(c)' = IF c = coin THEN Copies(c) + 1 ELSE Copies(c)
  BY AddMakesOne, WalkInv DEF Walk, OnceInv, CoinInv, AtOutput, AtTransaction
<1>2. /\ cursor.tx \in 1 .. Len(transactions) /\ cursor.count \in Index
      /\ coin = <<TxHash[transactions[cursor.tx]], cursor.count>>
      /\ coin \in Locator /\ created[coin] = 0 /\ spent[coin] = 0
  BY <1>1, OutputHere
<1>3. /\ created' = [created EXCEPT ![coin] = @ + 1]
      /\ spent' = spent /\ transactions' = transactions /\ status' = status
      /\ cursor' = [cursor EXCEPT !.count = @ + 1]
  BY DEF AddOutput
<1> HIDE DEF coin
<1>4. /\ cursor'.tx = cursor.tx /\ cursor'.in = cursor.in /\ cursor'.count = cursor.count + 1
      /\ cursor.tx \in Nat /\ cursor.in \in Nat /\ cursor.count \in Nat
  BY <1>1, <1>3 DEF CoinTypeOK
<1>5. status' # "dead"
  BY <1>3 DEF OnceInv
<1>6. \A c \in Locator : /\ created'[c] = IF c = coin THEN created[c] + 1 ELSE created[c]
                         /\ created[c] \in Nat /\ Copies(c) \in Nat /\ spent[c] \in Nat
  BY <1>1, <1>2, <1>3, CopiesType DEF CoinTypeOK
<1>7. CreatedOnce'
  <2> SUFFICES ASSUME NEW c \in Locator
               PROVE  Copies(c)' = created'[c] - spent'[c] /\ created'[c] <= 1
    BY DEF CreatedOnce
  <2>1. Copies(c) = created[c] - spent[c] /\ created[c] <= 1
    BY DEF OnceInv, CreatedOnce
  <2> QED BY <1>1, <1>2, <1>3, <1>6, <2>1
<1>8. DistinctInputs(transactions)' /\ OutputsFit'
  BY <1>1, <1>3 DEF OnceInv, DistinctInputs, OutputsFit, InputPositions, InputAt
<1>9. OutputsNew'
  <2> SUFFICES ASSUME NEW k \in 1 .. Len(transactions), NEW i \in Index, PendingOutput(k, i)'
               PROVE  created'[<<TxHash[transactions[k]], i>>] = 0
    BY <1>3 DEF OutputsNew
  <2>1. PendingOutput(k, i) /\ (k # cursor.tx \/ i # cursor.count)
    BY <1>4 DEF PendingOutput, Index
  <2>2. created[<<TxHash[transactions[k]], i>>] = 0
    BY <1>1, <2>1 DEF OnceInv, OutputsNew
  <2>3. <<TxHash[transactions[k]], i>> # coin
    <3>1. OutputsFit
      BY <1>1 DEF OnceInv
    <3> QED BY <1>2, <2>1, <3>1 DEF OutputsFit
  <2>4. <<TxHash[transactions[k]], i>> \in Locator
    <3>1. transactions[k] \in Transaction
      BY <1>1 DEF CoinTypeOK
    <3> QED BY <3>1, TransactionAssumption DEF Locator
  <2> QED BY <1>6, <2>2, <2>3, <2>4
<1>10. InputsThere'
  <2> SUFFICES ASSUME NEW p \in InputPositions(transactions), PendingInput(p)'
               PROVE  Copies(InputAt(transactions, p))' > 0
    BY <1>3 DEF InputsThere, InputPositions, InputAt
  <2>1. InputAt(transactions, p) \in Locator
    BY <1>1, InputType DEF CoinTypeOK
  <2>2. Copies(InputAt(transactions, p)) > 0
    BY <1>1, <1>4 DEF OnceInv, InputsThere, PendingInput
  <2>3. InputAt(transactions, p)' = InputAt(transactions, p)
    BY <1>3 DEF InputAt
  <2>4. \A c \in Locator : Copies(c) > 0 => Copies(c)' > 0
    BY <1>1, <1>6
  <2> QED BY <2>1, <2>2, <2>3, <2>4 DEF Copies, InDatabase
<1> QED BY <1>1, <1>5, <1>7, <1>8, <1>9, <1>10 DEF OnceInv

-----------------------------------------------------------------------------
(* The steps that move no coin. *)

Still == UNCHANGED <<created, spent>> /\ \A c \in Locator : Copies(c)' = Copies(c)

LEMMA StillOnce ==
  ASSUME OnceInv, Still
  PROVE  CreatedOnce'
BY DEF OnceInv, CreatedOnce, Still

LEMMA NextOnce ==
  ASSUME OnceInv, NextTransaction
  PROVE  OnceInv' /\ Still
<1>1. /\ UNCHANGED <<main_cache, database, created, spent, status, transactions>>
      /\ status = "storing" /\ CoinTypeOK /\ CoinInv'
      /\ cursor' = [Start EXCEPT !.tx = cursor.tx + 1]
  BY WalkInv DEF NextTransaction, cacheVars, historyVars, AtTransaction, Walk, OnceInv, CoinInv
<1>2. Still
  BY <1>1 DEF Still, Copies, InDatabase
<1>3. /\ cursor'.tx = cursor.tx + 1 /\ cursor'.in = 1 /\ cursor'.count = 0
      /\ cursor.tx \in Nat /\ cursor.in \in Nat /\ cursor.count \in Nat
  BY <1>1 DEF CoinTypeOK, Start
<1>4. status' # "dead" /\ CreatedOnce'
  BY <1>1, <1>2, StillOnce
<1>5. DistinctInputs(transactions)' /\ OutputsFit'
  BY <1>1 DEF OnceInv, DistinctInputs, OutputsFit, InputPositions, InputAt
<1>6. OutputsNew'
  <2> SUFFICES ASSUME NEW k \in 1 .. Len(transactions), NEW i \in Index, PendingOutput(k, i)'
               PROVE  created[<<TxHash[transactions[k]], i>>] = 0
    BY <1>1 DEF OutputsNew
  <2>1. PendingOutput(k, i)
    BY <1>3 DEF PendingOutput
  <2> QED BY <1>1, <2>1 DEF OnceInv, OutputsNew
<1>7. InputsThere'
  <2> SUFFICES ASSUME NEW p \in InputPositions(transactions), PendingInput(p)'
               PROVE  Copies(InputAt(transactions, p))' > 0
    BY <1>1 DEF InputsThere, InputPositions, InputAt
  <2>1. p[1] \in Nat /\ p[2] \in Nat
    BY <1>1, PositionType DEF CoinTypeOK
  <2>2. PendingInput(p)
    BY <1>3, <2>1 DEF PendingInput
  <2>3. Copies(InputAt(transactions, p)) > 0
    BY <1>1, <2>2 DEF OnceInv, InputsThere
  <2> QED BY <1>1, <2>3 DEF Copies, InDatabase, InputAt
<1> QED BY <1>1, <1>2, <1>4, <1>5, <1>6, <1>7 DEF OnceInv

LEMMA ReturnOnce ==
  ASSUME OnceInv, Return
  PROVE  OnceInv' /\ Still
<1>1. UNCHANGED <<main_cache, database, created, spent>> /\ status' = "idle" /\ CoinInv'
  BY WalkInv DEF Return, cacheVars, historyVars, Walk, OnceInv
<1>2. Still
  BY <1>1 DEF Still, Copies, InDatabase
<1> QED BY <1>1, <1>2, StillOnce DEF OnceInv

LEMMA WalkOnce ==
  ASSUME OnceInv, Walk
  PROVE  OnceInv'
BY SpendOnce, AddOnce, NextOnce, ReturnOnce DEF Walk

LEMMA ValidatedStill ==
  ASSUME OnceInv, NEW txs \in Seq(Transaction), Validation(txs),
         UNCHANGED <<main_cache, historyVars>>
  PROVE  Still
<1>1. \A c \in Locator : InDatabase(c)' = InDatabase(c)
  BY ValidationKeepsCoins DEF OnceInv, CoinInv
<1> QED BY <1>1 DEF Still, Copies, historyVars

\* Calls that leave the database idle and move no coin.
LEMMA QuietOnce ==
  ASSUME OnceInv, CoinInv', status' = "idle", Still
  PROVE  OnceInv'
BY StillOnce DEF OnceInv

\* What validation has found available is there when the walk begins.
LEMMA StoreOnce ==
  ASSUME OnceInv, CoinInv', NEW txs \in Seq(Transaction), Careful(txs),
         validate_block(txs), store_block(txs), Still
  PROVE  OnceInv'
<1>1. status' = "storing" /\ transactions' = txs /\ cursor' = Start /\ CoinTypeOK
  BY DEF store_block, OnceInv, CoinInv
<1>2. status' # "dead" /\ CreatedOnce'
  BY <1>1, StillOnce
<1>3. DistinctInputs(transactions)'
  BY <1>1 DEF Careful, DistinctInputs, InputPositions, InputAt
<1>4. OutputsFit' /\ OutputsNew'
  BY <1>1 DEF Careful, FreshOutputs, OutputsFit, OutputsNew, Still
<1>5. InputsThere'
  <2> SUFFICES ASSUME NEW p \in InputPositions(txs)
               PROVE  Copies(InputAt(transactions, p))' > 0
    BY <1>1 DEF InputsThere, InputPositions, InputAt
  <2>1. InputAt(txs, p) \in Locator /\ Available(InputAt(txs, p))
    BY InputType DEF validate_block
  <2>2. Copies(InputAt(txs, p)) > 0 /\ Copies(InputAt(txs, p))' = Copies(InputAt(txs, p))
    BY <1>1, <2>1, AvailableIsThere DEF Still
  <2> QED BY <1>1, <2>2 DEF Copies, InDatabase, InputAt
<1> QED BY <1>1, <1>2, <1>3, <1>4, <1>5 DEF OnceInv

LEMMA StutterOnce ==
  ASSUME OnceInv, UNCHANGED coinVars
  PROVE  OnceInv' /\ Still
<1>1. UNCHANGED <<main_cache, database, created, spent, status, transactions, cursor>>
  BY DEF coinVars, cacheVars, loopVars, historyVars
<1>2. Still
  BY <1>1 DEF Still, Copies, InDatabase
<1>3. CoinInv' /\ status' # "dead" /\ CreatedOnce'
  BY <1>1, <1>2, CoinStutterInv, StillOnce DEF OnceInv
<1>4. DistinctInputs(transactions)' <=> DistinctInputs(transactions)
  BY <1>1 DEF DistinctInputs, InputPositions, InputAt
<1>5. (InputsThere' <=> InputsThere) /\ (OutputsFit' <=> OutputsFit) /\ (OutputsNew' <=> OutputsNew)
  BY <1>1 DEF InputsThere, InputPositions, InputAt, PendingInput, Copies, InDatabase,
              OutputsFit, OutputsNew, PendingOutput
<1> QED BY <1>1, <1>2, <1>3, <1>4, <1>5 DEF OnceInv

LEMMA StartOnce ==
  ASSUME CoinInit
  PROVE  OnceInv /\ \A c \in Locator : Copies(c) = 0 /\ spent[c] = 0
<1>1. CoinInv
  BY InitInv
<1>2. \A c \in Locator : Copies(c) = 0 /\ created[c] = 0 /\ spent[c] = 0
  BY DEF CoinInit, Copies, InDatabase
<1> QED BY <1>1, <1>2 DEF OnceInv, CreatedOnce, CoinInit

=============================================================================
