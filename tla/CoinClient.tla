----------------------------- MODULE CoinClient -----------------------------
(***************************************************************************)
(* The coin database under its callers.  OpenSpec lets them call any       *)
(* public operation with any argument.  ValidatedSpec lets them store only *)
(* what validate_and_store_block accepts.  OnceSpec adds what the code     *)
(* does not check and needs: no two stored transactions share a hash, and  *)
(* no two inputs of a block name the same coin.  Under OnceSpec the        *)
(* database implements TxoLedger.                                          *)
(***************************************************************************)
EXTENDS CoinDatabase

CONSTANTS
  TransactionList,  \* the lists of transactions that callers store
  UndoList,         \* the lists of undo blocks that callers undo
  MaxCopies         \* bound: a coin is created and spent so often at most

ASSUME ClientAssumption ==
  /\ TransactionList \subseteq Seq(Transaction)
  /\ UndoList \subseteq Seq(Nat)
  /\ MaxCopies \in Nat

\* Bound on the histories, checked when a call begins.
WithinBound(txs) ==
  \A k \in 1 .. Len(txs) :
    /\ \A i \in 1 .. Len(TxInputs[txs[k]]) :
         spent[TxInputs[txs[k]][i]] < MaxCopies
    /\ \A i \in Index : created[<<TxHash[txs[k]], i>>] < MaxCopies

StoreBlock(txs) ==
  /\ WithinBound(txs)
  /\ store_block(txs)
  /\ UNCHANGED database

validate_and_store_block(txs) ==
  /\ status = "idle" /\ WithinBound(txs)
  /\ Validation(txs)
  /\ \/ validate_block(txs) /\ store_block(txs)
     \/ /\ ~validate_block(txs)
        /\ UNCHANGED <<main_cache, main_cache_size, mempoolVars,
                       loopVars, historyVars>>

FlushMainCache ==
  /\ status = "idle"
  /\ flush_main_cache
  /\ UNCHANGED <<mempoolVars, loopVars, historyVars>>

StoreTransaction(t) ==
  /\ status = "idle"
  /\ store_transaction_in_mempool(t)
  /\ UNCHANGED <<cacheVars, loopVars, historyVars>>

AnyTransaction ==
  \E t \in Transaction : validate_and_store_transaction(t) \/ StoreTransaction(t)

OpenNext ==
  \/ Walk
  \/ \E txs \in TransactionList : StoreBlock(txs) \/ validate_and_store_block(txs)
  \/ AnyTransaction
  \/ \E undo_blocks \in UndoList : undo_coins(undo_blocks)
  \/ FlushMainCache

OpenSpec == CoinInit /\ [][OpenNext]_coinVars

ValidatedNext ==
  \/ Walk
  \/ \E txs \in TransactionList : validate_and_store_block(txs)
  \/ AnyTransaction
  \/ FlushMainCache

ValidatedSpec == CoinInit /\ [][ValidatedNext]_coinVars

-----------------------------------------------------------------------------

OnceNext ==
  \/ Walk
  \/ \E txs \in TransactionList : Careful(txs) /\ validate_and_store_block(txs)
  \/ AnyTransaction
  \/ FlushMainCache

OnceSpec == CoinInit /\ [][OnceNext]_coinVars

Unspent == {c \in Locator : Copies(c) > 0}
Gone == {c \in Locator : spent[c] > 0}

Ledger == INSTANCE TxoLedger WITH
  Coin <- Locator, unspent <- Unspent, gone <- Gone

\* For a careful caller the database is a ledger: the split between cache and
\* database, the flushes, the failed validations and the empty records they
\* leave behind cannot be told from outside, and no input is ever accepted for
\* a coin that does not exist or is already spent.
ImplementsLedger == Ledger!LedgerSpec

\* For a careful caller each coin is in one place: exactly the created and
\* unspent coins have a copy, and never two.
OneHome ==
  \A c \in Locator : Copies(c) = created[c] - spent[c] /\ Copies(c) <= 1

\* For a careful caller no call reaches the undefined erase, whatever empty
\* records failed validations have left behind.
NeverDies == status # "dead"

=============================================================================
