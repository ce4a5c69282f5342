-------------------------------- MODULE Chain -------------------------------
(***************************************************************************)
(* The chain (core/src/chain): the active chain's tip and length, the      *)
(* record of every block seen, and the coin database below them.           *)
(*                                                                         *)
(* handle_block runs to completion on one thread.  The call it makes to    *)
(* the coin database's store_block is the walk of CoinDatabase; handler    *)
(* says what remains to be done when that walk has returned.               *)
(*                                                                         *)
(* A block is a model value with a hash, a previous hash and transactions. *)
(* The transactions are those Block::get_transactions returns, without the *)
(* version and the lock time, because nothing else reaches the coin        *)
(* database.  Files can be opened and read back what was written, which is *)
(* the subject of ChainWriter.  Looking up an unknown block hash yields a  *)
(* record of zeros and leaves an empty value that reads the same, so a     *)
(* record that was never stored is simply absent here.                     *)
(***************************************************************************)
EXTENDS CoinDatabase

CONSTANTS
  Block,      \* the blocks that may be delivered, and the genesis block
  Genesis,    \* what construct_genesis_block makes
  NoHash,     \* 0, the genesis block's previous hash
  BlockHash,  \* BlockHash[b]: hash of the serialized block
  BlockPrev,  \* BlockPrev[b]: its header's previous_block_hash
  BlockTxs    \* BlockTxs[b]: its transactions

ASSUME BlockAssumption ==
  /\ Genesis \in Block
  /\ DOMAIN BlockHash = Block /\ DOMAIN BlockPrev = Block
  /\ BlockTxs \in [Block -> Seq(Transaction)]
  /\ BlockPrev[Genesis] = NoHash
  /\ \A b \in Block : BlockHash[b] # NoHash

\* The genesis block's only transaction spends nothing.
ASSUME GenesisAssumption ==
  \A k \in 1 .. Len(BlockTxs[Genesis]) : TxInputs[BlockTxs[Genesis][k]] = <<>>

\* Blocks that share a hash share a parent.  The hash function does not ensure
\* it, so it is a hypothesis of what is said about heights, never an ASSUME.
CollisionFree ==
  \A a, b \in Block : BlockHash[a] = BlockHash[b] => BlockPrev[a] = BlockPrev[b]

\* No two blocks share a hash, and no two transactions: what a hash is for, and
\* again hypotheses of theorems only.
BlocksDistinct == \A a, b \in Block : BlockHash[a] = BlockHash[b] => a = b
HashesDistinct ==
  /\ BlocksDistinct
  /\ \A t, u \in Transaction : TxHash[t] = TxHash[u] => t = u

\* What the ledger needs of every block that nodes make, and no code checks: its
\* inputs name different coins, its outputs can be numbered, and a transaction
\* that spends nothing is in one place only (whoever makes new coins must never
\* make the same ones again).
SoundBlocks ==
  /\ \A b \in Block : /\ DistinctInputs(BlockTxs[b])
                       /\ \A k \in DOMAIN BlockTxs[b] : TxOutputs[BlockTxs[b][k]] <= IndexRange
  /\ \A a, b \in Block : \A k \in DOMAIN BlockTxs[a], l \in DOMAIN BlockTxs[b] :
       BlockTxs[a][k] = BlockTxs[b][l] /\ TxInputs[BlockTxs[a][k]] = <<>> => a = b /\ k = l

VARIABLES
  active_chain_last_block,
  active_chain_length,
  block_records,   \* block hash -> BlockRecord, in the block info database
  handler,         \* "constructing", "idle", or what follows the walk:
                   \* "genesis", "extending", "taking over"
  block,           \* the block being handled
  takeovers        \* history: how often a fork has become the active chain

tipVars == <<active_chain_last_block, active_chain_length>>
chainVars == <<tipVars, block_records, handler, block, takeovers>>
vars == <<coinVars, chainVars>>

BlockRecord == [prev : {BlockPrev[b] : b \in Block}, height : Nat,
                block : Block, undo : Nat]

\* A record for b.  undo is what reading its undo location back yields: the
\* number of transactions listed, and 0 for the location ("", 0, 0) that a
\* fork block gets.
RecordOf(b, height, undo) ==
  [prev |-> BlockPrev[b], height |-> height, block |-> b, undo |-> undo]

\* put_safely: a record already stored under the hash is overwritten.
WithRecord(b, record) ==
  [h \in DOMAIN block_records \cup {BlockHash[b]} |->
    IF h = BlockHash[b] THEN record ELSE block_records[h]]

\* get_block_record, with zeros for what is not there.
PrevIn(records, h) == IF h \in DOMAIN records THEN records[h].prev ELSE NoHash
HeightIn(records, h) == IF h \in DOMAIN records THEN records[h].height ELSE 0

\* The n hashes met on the way back from h, lowest block first: what
\* get_active_chain_hashes and get_forked_blocks_stack both build.
PathTo(records, h, n) ==
  LET back[k \in 0 .. n - 1] == IF k = 0 THEN h ELSE PrevIn(records, back[k - 1])
  IN  [i \in 1 .. n |-> back[n - i]]

get_last_block_hash == BlockHash[active_chain_last_block]
get_active_chain_hashes ==
  PathTo(block_records, get_last_block_hash, active_chain_length)

ChainInit ==
  /\ CoinInit
  /\ active_chain_last_block = Genesis /\ active_chain_length = 1
  /\ block_records = [h \in {} |-> RecordOf(Genesis, 0, 0)]
  /\ handler = "constructing" /\ block = Genesis /\ takeovers = 0

\* The constructor records the genesis block, then stores its coins.
Construct ==
  /\ handler = "constructing"
  /\ block_records' =
       WithRecord(Genesis, RecordOf(Genesis, 1, Len(BlockTxs[Genesis])))
  /\ store_block(BlockTxs[Genesis]) /\ UNCHANGED database
  /\ handler' = "genesis"
  /\ UNCHANGED <<tipVars, block, takeovers>>

Constructed ==
  /\ handler = "genesis" /\ status = "idle"
  /\ handler' = "idle"
  /\ UNCHANGED <<coinVars, tipVars, block_records, block, takeovers>>

-----------------------------------------------------------------------------
(* handle_block on the tip.                                                *)

Delivered(b) ==
  /\ handler = "idle" /\ status = "idle"
  /\ Validation(BlockTxs[b])

OnTip(b) == BlockPrev[b] = get_last_block_hash

\* A block on the tip that names an unavailable coin is dropped.
HandleInvalid(b) ==
  /\ Delivered(b) /\ OnTip(b) /\ ~validate_block(BlockTxs[b])
  /\ UNCHANGED <<main_cache, main_cache_size, mempoolVars, loopVars,
                 historyVars, chainVars>>

HandleOnTip(b) ==
  /\ Delivered(b) /\ OnTip(b) /\ validate_block(BlockTxs[b])
  /\ store_block(BlockTxs[b])
  /\ handler' = "extending" /\ block' = b
  /\ UNCHANGED <<tipVars, block_records, takeovers>>

\* make_undo_block never clears its vectors between transactions, and
\* UndoBlock::serialize reads one amount per input: once more inputs than
\* outputs have been met it reads past the vector.
Total(count, n) ==
  LET sum[k \in 0 .. n] == IF k = 0 THEN 0 ELSE sum[k - 1] + count[k] IN sum[n]
Inputs(txs) == [k \in 1 .. Len(txs) |-> Len(TxInputs[txs[k]])]
Outputs(txs) == [k \in 1 .. Len(txs) |-> TxOutputs[txs[k]]]

ReadsPast(txs) ==
  \E k \in 1 .. Len(txs) : Total(Inputs(txs), k) > Total(Outputs(txs), k)
ReadsNull(txs) ==
  \E k \in 1 .. Len(txs) : Total(Inputs(txs), k) > 0 /\ Total(Outputs(txs), k) = 0

\* Mutant: the length is not raised.
ExtendKeepsLength ==
  /\ handler = "extending" /\ status = "idle"
  /\ ~ReadsNull(BlockTxs[block])
  /\ block_records' = WithRecord(block,
       RecordOf(block, active_chain_length + 1, Len(BlockTxs[block])))
  /\ active_chain_last_block' = block
  /\ handler' = "idle"
  /\ UNCHANGED <<coinVars, active_chain_length, block, takeovers>>

\* The chain writer's store_block, the record and the new tip.
Extend ==
  /\ handler = "extending" /\ status = "idle"
  /\ ~ReadsNull(BlockTxs[block])
  /\ block_records' = WithRecord(block,
       RecordOf(block, active_chain_length + 1, Len(BlockTxs[block])))
  /\ active_chain_length' = active_chain_length + 1
  /\ active_chain_last_block' = block
  /\ handler' = "idle"
  /\ UNCHANGED <<coinVars, block, takeovers>>

\* Reading past a vector that has elements yields other heap memory or ends
\* the process; reading through one that has none always ends it.
ExtendDies ==
  /\ handler = "extending" /\ status = "idle"
  /\ ReadsPast(BlockTxs[block])
  /\ status' = "dead"
  /\ UNCHANGED <<cacheVars, mempoolVars, transactions, cursor, historyVars,
                 chainVars>>

-----------------------------------------------------------------------------
(* handle_block off the tip.  The block is recorded whatever its           *)
(* transactions are: only the coins of a block on the tip are checked.     *)

\* Mutants: the wrong direction, the parent's own height, and the active
\* chain's length.
ForkHeightDown(b) == HeightIn(block_records, BlockPrev[b]) - 1
ForkHeightOfParent(b) == HeightIn(block_records, BlockPrev[b])
ForkHeightOfTip(b) == active_chain_length

ForkHeight(b) == HeightIn(block_records, BlockPrev[b]) + 1
ForkRecords(b) == WithRecord(b, RecordOf(b, ForkHeight(b), 0))

OffTip(b) ==
  /\ Delivered(b) /\ ~OnTip(b)
  /\ block_records' = ForkRecords(b)

HandleFork(b) ==
  /\ OffTip(b) /\ ForkHeight(b) <= active_chain_length
  /\ UNCHANGED <<main_cache, main_cache_size, mempoolVars, loopVars,
                 historyVars, tipVars, handler, block, takeovers>>

\* get_forked_blocks_stack: the active block at which the two chains part.
\* Its loop compares the common ancestor's hash with itself and stops, so the
\* stack holds the common ancestor and none of the fork's blocks.
CommonAncestor(b) ==
  LET records == ForkRecords(b)
      active == PathTo(records, get_last_block_hash, active_chain_length)
      forked == PathTo(records, BlockHash[b], ForkHeight(b))
      parting == CHOOSE i \in DOMAIN active :
                   /\ active[i] # forked[i]
                   /\ \A j \in 1 .. i - 1 : active[j] = forked[j]
  IN  PrevIn(records, active[parting])

\* get_undo_blocks_queue, called with the size of that stack, which is 1: the
\* undo blocks of every active block above the genesis block, tip first.
UndoBlocks(b) ==
  LET records == ForkRecords(b)
      active == PathTo(records, get_last_block_hash, active_chain_length)
      undo(h) == IF h \in DOMAIN records THEN records[h].undo ELSE 0
  IN  [i \in 1 .. active_chain_length - 1 |->
         undo(active[active_chain_length + 1 - i])]

Overtakes(b) == OffTip(b) /\ ForkHeight(b) > active_chain_length

\* An undo block that cannot be read, or a common ancestor that is no block.
OvertakeDies(b) ==
  /\ Overtakes(b)
  /\ \/ UndoIsFatal(UndoBlocks(b))
     \/ CommonAncestor(b) \notin DOMAIN ForkRecords(b)
  /\ status' = "dead"
  /\ UNCHANGED <<main_cache, main_cache_size, mempoolVars, transactions,
                 cursor, historyVars, tipVars, handler, block, takeovers>>

\* undo_coins does nothing, and the stack's only block is stored.
Overtake(b) ==
  /\ Overtakes(b)
  /\ ~UndoIsFatal(UndoBlocks(b))
  /\ CommonAncestor(b) \in DOMAIN ForkRecords(b)
  /\ store_block(BlockTxs[ForkRecords(b)[CommonAncestor(b)].block])
  /\ handler' = "taking over" /\ block' = b
  /\ UNCHANGED <<tipVars, takeovers>>

\* Mutants: the fork is counted but the tip stays, and the other way round.
TakeOverKeepsTip ==
  /\ handler = "taking over" /\ status = "idle"
  /\ active_chain_length' = active_chain_length + 1
  /\ handler' = "idle" /\ takeovers' = takeovers + 1
  /\ UNCHANGED <<coinVars, block_records, active_chain_last_block, block>>

TakeOverKeepsLength ==
  /\ handler = "taking over" /\ status = "idle"
  /\ active_chain_last_block' = block
  /\ handler' = "idle" /\ takeovers' = takeovers + 1
  /\ UNCHANGED <<coinVars, block_records, active_chain_length, block>>

TakeOver ==
  /\ handler = "taking over" /\ status = "idle"
  /\ active_chain_length' = active_chain_length + 1
  /\ active_chain_last_block' = block
  /\ handler' = "idle" /\ takeovers' = takeovers + 1
  /\ UNCHANGED <<coinVars, block_records, block>>

-----------------------------------------------------------------------------

handle_block(b) ==
  \/ HandleInvalid(b) \/ HandleOnTip(b) \/ HandleFork(b)
  \/ OvertakeDies(b) \/ Overtake(b)

handle_transaction(t) ==
  /\ handler = "idle"
  /\ validate_and_store_transaction(t)
  /\ UNCHANGED chainVars

\* What goes on without a new call: no step of it waits for anything.
Continue ==
  \/ Walk /\ UNCHANGED chainVars
  \/ Construct \/ Constructed \/ Extend \/ ExtendDies \/ TakeOver

ChainNext ==
  \/ Continue
  \/ \E b \in Block : handle_block(b)
  \/ \E t \in Transaction : handle_transaction(t)

ChainSpec == ChainInit /\ [][ChainNext]_vars
FairChainSpec == ChainSpec /\ WF_vars(Continue)

-----------------------------------------------------------------------------
(* Properties. *)

ChainTypeOK ==
  /\ active_chain_last_block \in Block /\ active_chain_length \in Nat \ {0}
  /\ \E known \in SUBSET {BlockHash[b] : b \in Block} :
       block_records \in [known -> BlockRecord]
  /\ handler \in {"constructing", "idle", "genesis", "extending", "taking over"}
  /\ block \in Block /\ takeovers \in Nat

LengthToBe ==
  IF handler = "taking over" THEN active_chain_length + 1 ELSE active_chain_length

\* No recorded block is higher than the active chain is long, except the fork
\* block that is taking over, which is higher by one.  A fork that skipped a
\* height would let std::mismatch in get_forked_blocks_stack run off the end of
\* the active chain.
HeightsWithinLength ==
  status # "dead" =>
    /\ \A h \in DOMAIN block_records : block_records[h].height <= LengthToBe
    /\ handler = "taking over" =>
         HeightIn(block_records, BlockHash[block]) = LengthToBe

\* No block is higher than one above its parent, whichever of the two was
\* delivered first or last.  (It may be lower: the height of a block that came
\* before its parent is corrected only when it is delivered again.)
HeightsBelowParents ==
  status # "dead" =>
    \A h \in DOMAIN block_records :
      block_records[h].height <= HeightIn(block_records, block_records[h].prev) + 1

\* The tip is recorded, at the height that is the chain's length, although the
\* length is a counter kept apart from the records, which are overwritten
\* whenever a block is delivered again.
TipHeight ==
  status # "dead" /\ handler \notin {"constructing", "taking over"} =>
    /\ get_last_block_hash \in DOMAIN block_records
    /\ block_records[get_last_block_hash].height = active_chain_length

\* The active chain begins at the genesis block and its i-th block has height
\* i: no late parent, repeated delivery or takeover makes the tip's ancestors
\* lead elsewhere or miscounts them.
ActiveChainRooted ==
  handler # "constructing" =>
    /\ get_active_chain_hashes[1] = BlockHash[Genesis]
    /\ \A i \in 1 .. active_chain_length :
         HeightIn(block_records, get_active_chain_hashes[i]) = i

\* Delivering a block again never lowers its height.
HeightsNeverDrop ==
  [][\A h \in DOMAIN block_records :
       HeightIn(block_records', h) >= block_records[h].height]_vars

\* The tip moves only to a block of the next height.
TipAdvances ==
  [][active_chain_last_block' # active_chain_last_block =>
       /\ active_chain_length' = active_chain_length + 1
       /\ HeightIn(block_records', BlockHash[active_chain_last_block'])
            = active_chain_length']_vars

\* A block that has been taken over has no undo block, and every later
\* takeover has to read it: there is at most one in the life of a chain.
AtMostOneTakeover == takeovers <= 1

ActiveBlocks ==
  {block_records[get_active_chain_hashes[i]].block : i \in 1 .. active_chain_length}
ActiveTransactions ==
  UNION {{BlockTxs[b][k] : k \in 1 .. Len(BlockTxs[b])} : b \in ActiveBlocks}

Names(t, c) == \E i \in 1 .. Len(TxInputs[t]) : TxInputs[t][i] = c

UnspentOnChain(c) ==
  /\ \E t \in ActiveTransactions : c[1] = TxHash[t] /\ c[2] < TxOutputs[t]
  /\ \A t \in ActiveTransactions : ~Names(t, c)

AtRest == handler = "idle" /\ status = "idle"

\* What the README says the coin database does, "keeps track of which TXOs are
\* spent": between calls, an input may name exactly the coins that the active
\* chain creates and does not spend.
LedgerFollowsChain ==
  AtRest => \A c \in Locator : Available(c) <=> UnspentOnChain(c)

\* That holds as long as no fork has taken over.
LedgerFollowsChainUntilTakeover == takeovers = 0 => LedgerFollowsChain

\* A transaction that spends a coin leaves the mempool when its block joins the
\* chain, and cannot come back: it is in one of the two, also when it arrives
\* again while blocks are being stored or recorded.
MempoolUnconfirmed ==
  AtRest /\ takeovers = 0 =>
    \A t \in ActiveTransactions :
      TxInputs[t] # <<>> => TxHash[t] \notin mempool_cache

\* Every call of handle_block and the constructor come to an end.
HandlerReturns == handler # "idle" ~> AtRest \/ status = "dead"

=============================================================================
