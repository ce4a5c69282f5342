---------------------------- MODULE Chain_proofs ----------------------------
(***************************************************************************)
(* What holds of the chain whatever the hash function does: the coin       *)
(* database under it keeps its invariant, and no recorded height exceeds   *)
(* the length of the active chain.                                         *)
(*                                                                         *)
(* Then heights and paths when blocks that share a hash share a parent.    *)
(* Heights: recording a block never lowers one, because a block is at most *)
(* one above its parent; therefore the tip stays as high as the chain is   *)
(* long, and HeightsWithinLength keeps it from being higher.               *)
(* Paths: a path is what PathTo computes, by induction from the least      *)
(* counterexample; every step keeps one from the genesis block to the tip, *)
(* and after a takeover one of its blocks lists no transactions, so that   *)
(* the next fork to overtake ends the process.                             *)
(***************************************************************************)
EXTENDS Chain, CoinDatabase_proofs, WellFoundedInduction

\* A record is filed under the hash of the block it describes.
RecordsOwn ==
  \A h \in DOMAIN block_records :
    /\ BlockHash[block_records[h].block] = h
    /\ block_records[h].prev = BlockPrev[block_records[h].block]

ChainInv ==
  /\ CoinInv /\ ChainTypeOK /\ RecordsOwn /\ HeightsWithinLength
  /\ handler = "constructing" =>
       DOMAIN block_records = {} /\ active_chain_last_block = Genesis
                                 /\ active_chain_length = 1

-----------------------------------------------------------------------------
(* Records. *)

LEMMA RecordsType ==
  ASSUME ChainTypeOK
  PROVE  /\ block_records \in [DOMAIN block_records -> BlockRecord]
         /\ DOMAIN block_records \subseteq {BlockHash[b] : b \in Block}
         /\ \A h : HeightIn(block_records, h) \in Nat
<1>1. PICK known \in SUBSET {BlockHash[b] : b \in Block} :
        block_records \in [known -> BlockRecord]
  BY DEF ChainTypeOK
<1> QED BY <1>1 DEF HeightIn, BlockRecord

\* What recording a block changes.
LEMMA Recording ==
  ASSUME ChainTypeOK, RecordsOwn, NEW b \in Block, NEW height \in Nat, NEW undo \in Nat,
         block_records' = WithRecord(b, RecordOf(b, height, undo))
  PROVE  /\ DOMAIN block_records' = DOMAIN block_records \cup {BlockHash[b]}
         /\ \E known \in SUBSET {BlockHash[a] : a \in Block} :
              block_records' \in [known -> BlockRecord]
         /\ RecordsOwn'
         /\ \A h \in DOMAIN block_records' :
              block_records'[h].height =
                IF h = BlockHash[b] THEN height ELSE block_records[h].height
         /\ \A h : HeightIn(block_records', h) =
              IF h = BlockHash[b] THEN height ELSE HeightIn(block_records, h)
<1>1. RecordOf(b, height, undo) \in BlockRecord
  BY DEF RecordOf, BlockRecord
<1>2. /\ DOMAIN block_records' = DOMAIN block_records \cup {BlockHash[b]}
      /\ \A h \in DOMAIN block_records' :
           block_records'[h] = IF h = BlockHash[b] THEN RecordOf(b, height, undo)
                               ELSE block_records[h]
  BY DEF WithRecord
<1>3. block_records' \in [DOMAIN block_records' -> BlockRecord]
  BY <1>1, <1>2, RecordsType DEF WithRecord
<1>4. DOMAIN block_records' \in SUBSET {BlockHash[a] : a \in Block}
  BY <1>2, RecordsType
<1>5. RecordsOwn'
  BY <1>2 DEF RecordsOwn, RecordOf
<1>6. \A h \in DOMAIN block_records' :
        block_records'[h].height =
          IF h = BlockHash[b] THEN height ELSE block_records[h].height
  BY <1>2 DEF RecordOf
<1>7. \A h : HeightIn(block_records', h) =
        IF h = BlockHash[b] THEN height ELSE HeightIn(block_records, h)
  BY <1>2, <1>6 DEF HeightIn
<1> QED BY <1>2, <1>3, <1>4, <1>5, <1>6, <1>7

\* The same for a block off the tip.
LEMMA ForkRecording ==
  ASSUME ChainTypeOK, RecordsOwn, NEW b \in Block, block_records' = ForkRecords(b)
  PROVE  /\ ForkHeight(b) \in Nat
         /\ DOMAIN block_records' = DOMAIN block_records \cup {BlockHash[b]}
         /\ block_records' \in [DOMAIN block_records' -> BlockRecord]
         /\ \E known \in SUBSET {BlockHash[a] : a \in Block} :
              block_records' \in [known -> BlockRecord]
         /\ RecordsOwn'
         /\ \A h \in DOMAIN block_records' :
              block_records'[h].height =
                IF h = BlockHash[b] THEN ForkHeight(b) ELSE block_records[h].height
         /\ \A h : HeightIn(block_records', h) =
              IF h = BlockHash[b] THEN ForkHeight(b) ELSE HeightIn(block_records, h)
<1>1. ForkHeight(b) \in Nat
  BY RecordsType DEF ForkHeight
<1>2. block_records' = WithRecord(b, RecordOf(b, ForkHeight(b), 0))
  BY DEF ForkRecords
<1> QED BY <1>1, <1>2, Recording

LEMMA OtherRecords ==
  ASSUME ChainTypeOK, RecordsOwn, NEW b \in Block, block_records' = ForkRecords(b),
         NEW h \in DOMAIN block_records', h # BlockHash[b]
  PROVE  h \in DOMAIN block_records /\ block_records'[h].height = block_records[h].height
<1>1. block_records' = WithRecord(b, RecordOf(b, ForkHeight(b), 0))
  BY DEF ForkRecords
<1> QED BY <1>1 DEF WithRecord

-----------------------------------------------------------------------------
(* What the chain's steps do to the coin database. *)

LEMMA ChainCoinStep ==
  ASSUME CoinInv, ChainTypeOK, RecordsOwn, [ChainNext]_vars
  PROVE  CoinInv'
<1>1. CASE Walk
  BY <1>1, WalkInv
<1>2. CASE Construct
  BY <1>2, StoreBlockInv, UnchangedKeepsCoins, BlockAssumption DEF Construct
<1>3. CASE Constructed \/ Extend \/ TakeOver \/ UNCHANGED vars
  BY <1>3, CoinStutterInv DEF Constructed, Extend, TakeOver, vars
<1>4. CASE ExtendDies
  BY <1>4, StatusInv DEF ExtendDies
<1>5. ASSUME NEW b \in Block, handle_block(b)
      PROVE  CoinInv'
  <2>1. BlockTxs[b] \in Seq(Transaction)
    BY BlockAssumption
  <2>2. Validation(BlockTxs[b])
    BY <1>5 DEF handle_block, HandleInvalid, HandleOnTip, HandleFork,
                OvertakeDies, Overtake, Overtakes, OffTip, Delivered
  <2>3. KeepsCoins
    BY <2>1, <2>2, ValidationKeepsCoins DEF KeepsCoins, CoinInv
  <2>4. ASSUME NEW txs \in Seq(Transaction), store_block(txs)
        PROVE  CoinInv'
    BY <2>3, <2>4, StoreBlockInv
  <2>5. ASSUME UNCHANGED <<main_cache, main_cache_size, mempoolVars,
                           transactions, cursor, historyVars>>,
               status' \in {"idle", "storing", "dead"}
        PROVE  CoinInv'
    <3>1. UNCHANGED <<main_cache, main_cache_size, mempool_cache, mempool_size,
                      transactions, cursor, historyVars>>
      BY <2>5 DEF mempoolVars
    <3> QED
      BY <2>3, <2>5, <3>1, NoCoinMoves
      DEF Untouched, CoinInv, CoinTypeOK, MempoolWithinCapacity
  <2>6. CASE HandleInvalid(b) \/ HandleFork(b) \/ OvertakeDies(b)
    BY <2>5, <2>6
    DEF HandleInvalid, HandleFork, OvertakeDies, loopVars, CoinInv, CoinTypeOK
  <2>7. CASE HandleOnTip(b)
    BY <2>1, <2>4, <2>7 DEF HandleOnTip
  <2>8. CASE Overtake(b)
    <3>1. block_records' = ForkRecords(b) /\ CommonAncestor(b) \in DOMAIN ForkRecords(b)
          /\ store_block(BlockTxs[ForkRecords(b)[CommonAncestor(b)].block])
      BY <2>8 DEF Overtake, Overtakes, OffTip
    <3>2. block_records'[CommonAncestor(b)] \in BlockRecord
      BY <3>1, ForkRecording
    <3>3. BlockTxs[ForkRecords(b)[CommonAncestor(b)].block] \in Seq(Transaction)
      BY <3>1, <3>2, BlockAssumption DEF BlockRecord
    <3> QED BY <2>4, <3>1, <3>3
  <2> QED BY <1>5, <2>6, <2>7, <2>8 DEF handle_block
<1>6. ASSUME NEW t \in Transaction, handle_transaction(t)
      PROVE  CoinInv'
  BY <1>6, ValidatedTransactionInv DEF handle_transaction
<1> QED
  BY <1>1, <1>2, <1>3, <1>4, <1>5, <1>6 DEF ChainNext, Continue

-----------------------------------------------------------------------------
(* ChainInv. *)

LEMMA ChainInit_Inv ==
  ASSUME ChainInit
  PROVE  ChainInv
<1>1. CoinInv
  BY InitInv DEF ChainInit
<1>2. DOMAIN block_records = {} /\ block_records \in [{} -> BlockRecord]
  BY DEF ChainInit
<1>3. ChainTypeOK /\ RecordsOwn
  <2>1. \E known \in SUBSET {BlockHash[b] : b \in Block} :
          block_records \in [known -> BlockRecord]
    BY <1>2
  <2>2. /\ active_chain_last_block = Genesis /\ active_chain_length = 1
        /\ handler = "constructing" /\ block = Genesis /\ takeovers = 0
    BY DEF ChainInit
  <2>3. active_chain_last_block \in Block /\ active_chain_length \in Nat \ {0}
        /\ block \in Block /\ takeovers \in Nat
        /\ handler \in {"constructing", "idle", "genesis", "extending", "taking over"}
    BY <2>2, BlockAssumption
  <2>4. RecordsOwn
    BY <1>2 DEF RecordsOwn
  <2> QED BY <2>1, <2>3, <2>4 DEF ChainTypeOK
<1>4. HeightsWithinLength
  BY <1>2 DEF ChainInit, HeightsWithinLength
<1> QED BY <1>1, <1>2, <1>3, <1>4 DEF ChainInv, ChainInit

\* The numbers ChainInv speaks of.
LEMMA Heights ==
  ASSUME ChainInv, status # "dead"
  PROVE  /\ active_chain_length \in Nat \ {0} /\ LengthToBe \in Nat
         /\ \A h \in DOMAIN block_records :
              /\ block_records[h].height \in Nat
              /\ block_records[h].height <= LengthToBe
         /\ \A b \in Block : HeightIn(block_records, BlockPrev[b]) \in Nat
         /\ \A b \in Block : HeightIn(block_records, BlockPrev[b]) <= LengthToBe
<1>1. active_chain_length \in Nat \ {0} /\ LengthToBe \in Nat
  <2>1. active_chain_length \in Nat \ {0}
    BY DEF ChainInv, ChainTypeOK
  <2>2. CASE handler = "taking over"
    <3>1. LengthToBe = active_chain_length + 1
      BY <2>2 DEF LengthToBe
    <3> QED BY <2>1, <3>1
  <2>3. CASE handler # "taking over"
    BY <2>1, <2>3 DEF LengthToBe
  <2> QED BY <2>2, <2>3
<1>2. ASSUME NEW h \in DOMAIN block_records
      PROVE  block_records[h].height \in Nat /\ block_records[h].height <= LengthToBe
  <2>1. block_records[h] \in BlockRecord
    BY RecordsType DEF ChainInv
  <2>2. block_records[h].height \in Nat
    BY <2>1 DEF BlockRecord
  <2> QED BY <2>2 DEF ChainInv, HeightsWithinLength
<1>3. ASSUME NEW b \in Block
      PROVE  /\ HeightIn(block_records, BlockPrev[b]) \in Nat
             /\ HeightIn(block_records, BlockPrev[b]) <= LengthToBe
  BY <1>1, <1>2 DEF HeightIn
<1> QED BY <1>1, <1>2, <1>3

LEMMA Counts ==
  /\ ChainTypeOK => /\ active_chain_length + 1 \in Nat
                    /\ active_chain_length + 1 \in Nat \ {0}
                    /\ takeovers + 1 \in Nat
  /\ \A b \in Block : Len(BlockTxs[b]) \in Nat
<1>1. ASSUME NEW b \in Block
      PROVE  Len(BlockTxs[b]) \in Nat
  <2>1. BlockTxs[b] \in Seq(Transaction)
    BY BlockAssumption
  <2> QED BY <2>1
<1>2. ChainTypeOK => active_chain_length \in Nat \ {0} /\ takeovers \in Nat
  BY DEF ChainTypeOK
<1> QED BY <1>1, <1>2

LEMMA ChainStep_Inv ==
  ASSUME ChainInv, [ChainNext]_vars
  PROVE  ChainInv'
<1>0. CoinInv /\ ChainTypeOK /\ RecordsOwn /\ HeightsWithinLength
      /\ (handler = "constructing" =>
            DOMAIN block_records = {} /\ active_chain_last_block = Genesis
                                      /\ active_chain_length = 1)
  BY DEF ChainInv
<1>1. CoinInv'
  BY <1>0, ChainCoinStep
<1> SUFFICES /\ ChainTypeOK' /\ RecordsOwn' /\ HeightsWithinLength'
             /\ handler' = "constructing" =>
                  DOMAIN block_records' = {} /\ active_chain_last_block' = Genesis
                                             /\ active_chain_length' = 1
  BY <1>1 DEF ChainInv
<1> DEFINE Goal == /\ ChainTypeOK' /\ RecordsOwn' /\ HeightsWithinLength'
                   /\ handler' = "constructing" =>
                        DOMAIN block_records' = {} /\ active_chain_last_block' = Genesis
                                                   /\ active_chain_length' = 1
<1>2. ASSUME UNCHANGED chainVars, status = "dead" => status' = "dead"
      PROVE  Goal
  <2>1. UNCHANGED <<active_chain_last_block, active_chain_length, block_records,
                    handler, block, takeovers>>
    BY <1>2 DEF chainVars, tipVars
  <2>2. ChainTypeOK' /\ RecordsOwn'
    BY <1>0, <2>1 DEF ChainTypeOK, RecordsOwn
  <2>3. LengthToBe' = LengthToBe
    BY <2>1 DEF LengthToBe
  <2>4. HeightIn(block_records', BlockHash[block'])
          = HeightIn(block_records, BlockHash[block])
    BY <2>1
  <2>5. HeightsWithinLength'
    BY <1>0, <1>2, <2>1, <2>3, <2>4 DEF HeightsWithinLength
  <2> QED BY <1>0, <2>1, <2>2, <2>5
<1>3. CASE Walk /\ UNCHANGED chainVars
  <2>1. status # "dead"
    BY <1>3 DEF Walk, SpendInput, SpendFromCache, SpendFromDatabase, SpendUnknown,
                SpendMissing, AddOutput, NextTransaction, Return, AtInput, AtOutput,
                AtTransaction
  <2> QED BY <1>2, <1>3, <2>1
<1>4. CASE Construct
  <2>1. block_records' =
          WithRecord(Genesis, RecordOf(Genesis, 1, Len(BlockTxs[Genesis])))
        /\ handler = "constructing" /\ handler' = "genesis"
        /\ UNCHANGED <<active_chain_last_block, active_chain_length, block, takeovers>>
    BY <1>4 DEF Construct, tipVars
  <2>2. /\ \A h \in DOMAIN block_records' : block_records'[h].height = 1
        /\ \E known \in SUBSET {BlockHash[a] : a \in Block} :
             block_records' \in [known -> BlockRecord]
        /\ RecordsOwn'
    <3>1. Genesis \in Block /\ 1 \in Nat /\ Len(BlockTxs[Genesis]) \in Nat
      BY Counts, BlockAssumption
    <3>2. PICK height \in Nat : height = 1
      BY <3>1
    <3>3. PICK undo \in Nat : undo = Len(BlockTxs[Genesis])
      BY <3>1
    <3>4. block_records' = WithRecord(Genesis, RecordOf(Genesis, height, undo))
      BY <2>1, <3>2, <3>3
    <3>5. /\ DOMAIN block_records' = DOMAIN block_records \cup {BlockHash[Genesis]}
          /\ \E known \in SUBSET {BlockHash[a] : a \in Block} :
               block_records' \in [known -> BlockRecord]
          /\ RecordsOwn'
          /\ \A h \in DOMAIN block_records' :
               block_records'[h].height =
                 IF h = BlockHash[Genesis] THEN height ELSE block_records[h].height
      BY <1>0, <3>1, <3>2, <3>3, <3>4, Recording
    <3> QED BY <1>0, <2>1, <3>2, <3>5
  <2>3. HeightsWithinLength'
    BY <1>0, <2>1, <2>2 DEF HeightsWithinLength, LengthToBe
  <2>4. ChainTypeOK'
    BY <1>0, <2>1, <2>2 DEF ChainTypeOK
  <2> QED BY <2>1, <2>2, <2>3, <2>4
<1>5. CASE Constructed
  <2>1. handler' = "idle" /\ handler = "genesis" /\ status = "idle"
        /\ UNCHANGED <<active_chain_last_block, active_chain_length, block_records,
                       block, takeovers>>
    BY <1>5 DEF Constructed, tipVars
  <2>2. ChainTypeOK' /\ RecordsOwn'
    BY <1>0, <2>1 DEF ChainTypeOK, RecordsOwn
  <2>3. LengthToBe' = LengthToBe
    BY <2>1 DEF LengthToBe
  <2>4. HeightsWithinLength'
    BY <1>0, <2>1, <2>3 DEF HeightsWithinLength
  <2> QED BY <2>1, <2>2, <2>4
<1>6. CASE Extend
  <2>1. block_records' = WithRecord(block,
          RecordOf(block, active_chain_length + 1, Len(BlockTxs[block])))
        /\ handler = "extending" /\ handler' = "idle" /\ status = "idle"
        /\ active_chain_length' = active_chain_length + 1
        /\ active_chain_last_block' = block
        /\ UNCHANGED <<block, takeovers>>
    BY <1>6 DEF Extend
  <2>2. block \in Block
    BY <1>0 DEF ChainTypeOK
  <2>3. /\ DOMAIN block_records' = DOMAIN block_records \cup {BlockHash[block]}
        /\ \A h \in DOMAIN block_records' :
             block_records'[h].height =
               IF h = BlockHash[block] THEN active_chain_length + 1
               ELSE block_records[h].height
        /\ \E known \in SUBSET {BlockHash[a] : a \in Block} :
             block_records' \in [known -> BlockRecord]
        /\ RecordsOwn'
    <3>1. active_chain_length + 1 \in Nat /\ Len(BlockTxs[block]) \in Nat
      BY <1>0, <2>2, Counts
    <3>2. PICK height \in Nat : height = active_chain_length + 1
      BY <3>1
    <3>3. PICK undo \in Nat : undo = Len(BlockTxs[block])
      BY <3>1
    <3>4. block_records' = WithRecord(block, RecordOf(block, height, undo))
      BY <2>1, <3>2, <3>3
    <3>5. /\ DOMAIN block_records' = DOMAIN block_records \cup {BlockHash[block]}
          /\ \E known \in SUBSET {BlockHash[a] : a \in Block} :
               block_records' \in [known -> BlockRecord]
          /\ RecordsOwn'
          /\ \A h \in DOMAIN block_records' :
               block_records'[h].height =
                 IF h = BlockHash[block] THEN height ELSE block_records[h].height
      BY <1>0, <2>2, <3>2, <3>3, <3>4, Recording
    <3> QED BY <3>2, <3>5
  <2>4. \A h \in DOMAIN block_records' :
          block_records'[h].height <= active_chain_length + 1
    BY <2>1, <2>3, Heights DEF LengthToBe
  <2>5. HeightsWithinLength'
    BY <2>1, <2>4, Heights DEF HeightsWithinLength, LengthToBe
  <2>6. ChainTypeOK'
    BY <1>0, <2>1, <2>2, <2>3, Counts DEF ChainTypeOK
  <2> QED BY <2>1, <2>3, <2>5, <2>6
<1>7. CASE ExtendDies
  <2>1. status' = "dead" /\ UNCHANGED chainVars
    BY <1>7 DEF ExtendDies
  <2> QED BY <1>2, <2>1
<1>8. CASE TakeOver
  <2>1. handler = "taking over" /\ handler' = "idle" /\ status = "idle"
        /\ active_chain_length' = active_chain_length + 1
        /\ active_chain_last_block' = block /\ takeovers' = takeovers + 1
        /\ UNCHANGED <<block_records, block>>
    BY <1>8 DEF TakeOver
  <2>2. HeightsWithinLength'
    BY <2>1, Heights DEF HeightsWithinLength, LengthToBe
  <2>3. ChainTypeOK' /\ RecordsOwn'
    BY <1>0, <2>1, Counts DEF ChainTypeOK, RecordsOwn
  <2> QED BY <2>1, <2>2, <2>3
<1>9. ASSUME NEW b \in Block, handle_block(b)
      PROVE  Goal
  <2>1. handler = "idle" /\ status = "idle"
    BY <1>9 DEF handle_block, HandleInvalid, HandleOnTip, HandleFork, OvertakeDies,
                Overtake, Overtakes, OffTip, Delivered
  <2>2. ASSUME UNCHANGED <<active_chain_last_block, active_chain_length, takeovers>>,
               \E known \in SUBSET {BlockHash[a] : a \in Block} :
                 block_records' \in [known -> BlockRecord],
               block' \in Block, handler' \in {"idle", "extending", "taking over"},
               RecordsOwn', HeightsWithinLength'
        PROVE  Goal
    BY <1>0, <2>2 DEF ChainTypeOK
  <2>3. CASE HandleInvalid(b)
    <3>1. UNCHANGED chainVars
      BY <2>3 DEF HandleInvalid
    <3> QED BY <1>2, <2>1, <3>1
  <2>4. CASE HandleOnTip(b)
    <3>1. handler' = "extending" /\ block' = b
          /\ UNCHANGED <<active_chain_last_block, active_chain_length, block_records,
                         takeovers>>
      BY <2>4 DEF HandleOnTip, tipVars
    <3>2. HeightsWithinLength' /\ RecordsOwn'
      BY <1>0, <2>1, <3>1 DEF HeightsWithinLength, LengthToBe, RecordsOwn
    <3> QED BY <1>0, <2>2, <3>1, <3>2 DEF ChainTypeOK
  <2>5. CASE HandleFork(b)
    <3>1. block_records' = ForkRecords(b) /\ ForkHeight(b) <= active_chain_length
          /\ UNCHANGED <<active_chain_last_block, active_chain_length, handler, block,
                         takeovers>>
      BY <2>5 DEF HandleFork, OffTip, tipVars
    <3>2. LengthToBe = active_chain_length /\ LengthToBe' = active_chain_length
          /\ handler' # "taking over"
      BY <2>1, <3>1 DEF LengthToBe
    <3>3. ASSUME NEW h \in DOMAIN block_records'
          PROVE  block_records'[h].height <= active_chain_length
      <4>1. CASE h = BlockHash[b]
        BY <1>0, <3>1, <4>1, ForkRecording
      <4>2. CASE h # BlockHash[b]
        <5>1. h \in DOMAIN block_records
              /\ block_records'[h].height = block_records[h].height
          BY <1>0, <3>1, <4>2, OtherRecords
        <5>2. block_records[h].height <= LengthToBe
          <6>1. ChainInv /\ status # "dead"
            BY <2>1
          <6> QED BY <5>1, <6>1, Heights
        <5> QED BY <3>2, <5>1, <5>2
      <4> QED BY <4>1, <4>2
    <3>4. HeightsWithinLength'
      BY <3>2, <3>3 DEF HeightsWithinLength
    <3> QED BY <1>0, <2>1, <2>2, <3>1, <3>4, ForkRecording DEF ChainTypeOK
  <2>6. CASE OvertakeDies(b)
    <3>1. block_records' = ForkRecords(b) /\ status' = "dead"
          /\ UNCHANGED <<active_chain_last_block, active_chain_length, handler, block,
                         takeovers>>
      BY <2>6 DEF OvertakeDies, Overtakes, OffTip, tipVars
    <3>2. HeightsWithinLength'
      BY <3>1 DEF HeightsWithinLength, LengthToBe
    <3> QED BY <1>0, <2>1, <2>2, <3>1, <3>2, ForkRecording DEF ChainTypeOK
  <2>7. CASE Overtake(b)
    <3>1. block_records' = ForkRecords(b) /\ ForkHeight(b) > active_chain_length
          /\ handler' = "taking over" /\ block' = b
          /\ UNCHANGED <<active_chain_last_block, active_chain_length, takeovers>>
      BY <2>7 DEF Overtake, Overtakes, OffTip, tipVars
    <3>2. ForkHeight(b) = active_chain_length + 1
      <4>1. PICK height \in Nat : height = HeightIn(block_records, BlockPrev[b])
        BY <2>1, Heights
      <4>2. PICK length \in Nat : length = active_chain_length
        BY <2>1, Heights
      <4>3. height <= length
        BY <2>1, <4>1, <4>2, Heights DEF LengthToBe
      <4>4. height + 1 > length
        BY <3>1, <4>1, <4>2 DEF ForkHeight
      <4>5. height = length
        BY <4>3, <4>4
      <4> QED BY <4>1, <4>2, <4>5 DEF ForkHeight
    <3>3. LengthToBe = active_chain_length /\ LengthToBe' = active_chain_length + 1
      BY <2>1, <3>1 DEF LengthToBe
    <3>4. ASSUME NEW h \in DOMAIN block_records'
          PROVE  block_records'[h].height <= active_chain_length + 1
      <4>1. active_chain_length \in Nat
        BY <2>1, Heights
      <4>2. CASE h = BlockHash[b]
        <5>1. block_records'[h].height = active_chain_length + 1
          BY <1>0, <3>1, <3>2, <4>2, ForkRecording
        <5> QED BY <4>1, <5>1
      <4>3. CASE h # BlockHash[b]
        <5>1. h \in DOMAIN block_records
              /\ block_records'[h].height = block_records[h].height
          BY <1>0, <3>1, <4>3, OtherRecords
        <5>2. block_records[h].height \in Nat
              /\ block_records[h].height <= LengthToBe
          <6>1. ChainInv /\ status # "dead"
            BY <2>1
          <6> QED BY <5>1, <6>1, Heights
        <5> QED BY <3>3, <4>1, <5>1, <5>2
      <4> QED BY <4>2, <4>3
    <3>5. HeightIn(block_records', BlockHash[b]) = active_chain_length + 1
      BY <1>0, <3>1, <3>2, ForkRecording
    <3>6. HeightsWithinLength'
      BY <3>1, <3>3, <3>4, <3>5 DEF HeightsWithinLength
    <3> QED BY <1>0, <2>2, <3>1, <3>6, ForkRecording
  <2> QED BY <1>9, <2>3, <2>4, <2>5, <2>6, <2>7 DEF handle_block
<1>10. ASSUME NEW t \in Transaction, handle_transaction(t)
       PROVE  Goal
  <2>1. UNCHANGED chainVars /\ status = "idle"
    BY <1>10 DEF handle_transaction, validate_and_store_transaction
  <2> QED BY <1>2, <2>1
<1>11. CASE UNCHANGED vars
  BY <1>2, <1>11 DEF vars, coinVars, loopVars
<1> QED
  BY <1>3, <1>4, <1>5, <1>6, <1>7, <1>8, <1>9, <1>10, <1>11 DEF ChainNext, Continue

-----------------------------------------------------------------------------

\* ChainInv, the inductive invariant of the chain, holds under any deliveries:
\* every step of handle_block, of its walk and of the constructor keeps it.
THEOREM ChainInvariant == ChainSpec => []ChainInv
<1>1. ChainInit => ChainInv
  BY ChainInit_Inv
<1>2. ChainInv /\ [ChainNext]_vars => ChainInv'
  BY ChainStep_Inv
<1> QED BY <1>1, <1>2, PTL DEF ChainSpec

\* Type correctness of the chain and of its block records.
THEOREM ChainTypes == ChainSpec => []ChainTypeOK
<1>1. ChainInv => ChainTypeOK
  BY DEF ChainInv
<1> QED BY <1>1, ChainInvariant, PTL

\* Whatever blocks are delivered, in whatever order and however their hashes
\* collide, no record is higher than the active chain is long, so handle_block
\* compares two chains whose lengths differ by one at most.
THEOREM HeightsBounded == ChainSpec => []HeightsWithinLength
<1>1. ChainInv => HeightsWithinLength
  BY DEF ChainInv
<1> QED BY <1>1, ChainInvariant, PTL

\* The coin database keeps its bounds and makes no coin up under the chain, the
\* takeovers of forks included.
THEOREM ChainCoinSafety ==
  ChainSpec => [](CacheWithinCapacity /\ NoCoinFromNothing /\ MempoolWithinCapacity)
<1>1. ChainInv => CacheWithinCapacity /\ NoCoinFromNothing /\ MempoolWithinCapacity
  BY DEF ChainInv, CoinInv
<1> QED BY <1>1, ChainInvariant, PTL

-----------------------------------------------------------------------------
(* Heights. *)

HeightInv ==
  /\ HeightsBelowParents
  /\ status # "dead" /\ handler # "constructing" =>
       HeightIn(block_records, get_last_block_hash) >= active_chain_length
  /\ handler = "extending" => BlockPrev[block] = get_last_block_hash

\* A process that has died takes no step.
LEMMA DeadStaysDead ==
  ASSUME [ChainNext]_vars, status' # "dead"
  PROVE  status # "dead"
<1>1. CASE Continue
  BY <1>1 DEF Continue, Walk, SpendInput, SpendFromCache, SpendFromDatabase, SpendUnknown,
              SpendMissing, AddOutput, NextTransaction, Return, AtInput, AtOutput,
              AtTransaction, Construct, Constructed, Extend, ExtendDies, TakeOver,
              store_block
<1>2. ASSUME NEW b \in Block, handle_block(b)
      PROVE  status # "dead"
  BY <1>2 DEF handle_block, HandleInvalid, HandleOnTip, HandleFork, OvertakeDies,
              Overtake, Overtakes, OffTip, Delivered
<1>3. ASSUME NEW t \in Transaction, handle_transaction(t)
      PROVE  status # "dead"
  BY <1>3 DEF handle_transaction, validate_and_store_transaction
<1>4. CASE UNCHANGED vars
  BY <1>4 DEF vars, coinVars, loopVars
<1> QED BY <1>1, <1>2, <1>3, <1>4 DEF ChainNext

\* The heights the steps compute with, as numbers.
LEMMA HeightNumbers ==
  ASSUME ChainInv
  PROVE  /\ \A h : HeightIn(block_records, h) \in Nat
         /\ \A h \in DOMAIN block_records :
              HeightIn(block_records, h) = block_records[h].height
         /\ \A h : h \notin DOMAIN block_records => HeightIn(block_records, h) = 0
         /\ active_chain_length \in Nat \ {0}
<1>1. \A h : HeightIn(block_records, h) \in Nat
  BY RecordsType DEF ChainInv
<1>2. active_chain_length \in Nat \ {0}
  BY DEF ChainInv, ChainTypeOK
<1> QED BY <1>1, <1>2 DEF HeightIn

LEMMA HeightNumbersNext == ChainInv' => \A h : HeightIn(block_records', h) \in Nat
<1> SUFFICES ASSUME ChainInv'
             PROVE  \A h : HeightIn(block_records', h) \in Nat
  OBVIOUS
<1>1. PICK known \in SUBSET {BlockHash[b] : b \in Block} :
        block_records' \in [known -> BlockRecord]
  BY DEF ChainInv, ChainTypeOK
<1> QED BY <1>1 DEF HeightIn, BlockRecord

\* A record that does not lower its block's height, and puts it at most one
\* above its parent, keeps every block at most one above its parent.
LEMMA RaisingRecord ==
  ASSUME ChainInv, HeightsBelowParents, status # "dead",
         NEW b \in Block, NEW height \in Nat, NEW undo \in Nat,
         block_records' = WithRecord(b, RecordOf(b, height, undo)),
         HeightIn(block_records, BlockHash[b]) <= height,
         height <= HeightIn(block_records, BlockPrev[b]) + 1
  PROVE  /\ HeightsBelowParents'
         /\ \A h : HeightIn(block_records', h) >= HeightIn(block_records, h)
         /\ HeightIn(block_records', BlockHash[b]) = height
<1>1. ChainTypeOK /\ RecordsOwn
  BY DEF ChainInv
<1>2. /\ DOMAIN block_records' = DOMAIN block_records \cup {BlockHash[b]}
      /\ \A h : HeightIn(block_records', h) =
           IF h = BlockHash[b] THEN height ELSE HeightIn(block_records, h)
  BY <1>1, Recording
<1>3. ASSUME NEW h
      PROVE  HeightIn(block_records', h) >= HeightIn(block_records, h)
  <2>1. HeightIn(block_records, h) \in Nat
    BY HeightNumbers
  <2>2. CASE h = BlockHash[b]
    BY <1>2, <2>1, <2>2
  <2>3. CASE h # BlockHash[b]
    BY <1>2, <2>1, <2>3
  <2> QED BY <2>2, <2>3
<1>4. HeightIn(block_records', BlockHash[b]) = height
  BY <1>2
<1>5. \A h : HeightIn(block_records', h) \in Nat
  BY <1>2, HeightNumbers
<1>6. ASSUME NEW h \in DOMAIN block_records'
      PROVE  block_records'[h].height <= HeightIn(block_records', block_records'[h].prev) + 1
  <2>1. block_records'[h].height = HeightIn(block_records', h)
    BY DEF HeightIn
  <2>2. CASE h = BlockHash[b]
    <3>1. block_records'[h].prev = BlockPrev[b]
      BY <2>2 DEF WithRecord, RecordOf
    <3>2. PICK old \in Nat : old = HeightIn(block_records, BlockPrev[b])
      BY HeightNumbers
    <3>3. PICK new \in Nat : new = HeightIn(block_records', BlockPrev[b])
      BY <1>5
    <3>4. height <= old + 1 /\ new >= old
      BY <1>3, <3>2, <3>3
    <3>5. height <= new + 1
      BY <3>2, <3>3, <3>4
    <3> QED BY <1>4, <2>1, <2>2, <3>1, <3>3, <3>5
  <2>3. CASE h # BlockHash[b]
    <3>1. h \in DOMAIN block_records /\ block_records'[h] = block_records[h]
      BY <1>2, <2>3 DEF WithRecord
    <3>2. PICK old \in Nat : old = HeightIn(block_records, block_records[h].prev)
      BY HeightNumbers
    <3>3. PICK new \in Nat : new = HeightIn(block_records', block_records[h].prev)
      BY <1>5
    <3>4. PICK own \in Nat : own = block_records[h].height
      BY <3>1, HeightNumbers
    <3>5. own <= old + 1
      BY <3>1, <3>2, <3>4 DEF HeightsBelowParents
    <3>6. new >= old
      BY <1>3, <3>2, <3>3
    <3>7. own <= new + 1
      BY <3>2, <3>3, <3>4, <3>5, <3>6
    <3> QED BY <3>1, <3>3, <3>4, <3>7
  <2> QED BY <2>2, <2>3
<1> QED BY <1>3, <1>4, <1>6 DEF HeightsBelowParents

\* Recording a block off the tip, for the first time or again: where blocks
\* that share a hash share a parent, its new height is not below its old one.
LEMMA ForkRecordRaises ==
  ASSUME CollisionFree, ChainInv, HeightsBelowParents, status # "dead",
         NEW b \in Block, block_records' = ForkRecords(b)
  PROVE  /\ HeightsBelowParents'
         /\ \A h : HeightIn(block_records', h) >= HeightIn(block_records, h)
<1>1. ForkHeight(b) \in Nat /\ block_records' = WithRecord(b, RecordOf(b, ForkHeight(b), 0))
  BY HeightNumbers DEF ForkHeight, ForkRecords
<1>2. ForkHeight(b) = HeightIn(block_records, BlockPrev[b]) + 1
  BY DEF ForkHeight
<1>3. HeightIn(block_records, BlockHash[b]) <= ForkHeight(b)
  <2>1. CASE BlockHash[b] \in DOMAIN block_records
    <3> DEFINE old == block_records[BlockHash[b]]
    <3>1. old.block \in Block /\ BlockHash[old.block] = BlockHash[b]
          /\ old.prev = BlockPrev[old.block]
      BY <2>1, RecordsType DEF ChainInv, RecordsOwn, BlockRecord
    <3>2. old.prev = BlockPrev[b]
      BY <3>1 DEF CollisionFree
    <3>3. old.height <= HeightIn(block_records, old.prev) + 1
      BY <2>1 DEF HeightsBelowParents
    <3> QED BY <1>2, <2>1, <3>2, <3>3, HeightNumbers
  <2>2. CASE BlockHash[b] \notin DOMAIN block_records
    BY <1>1, <2>2, HeightNumbers
  <2> QED BY <2>1, <2>2
<1>4. ForkHeight(b) <= HeightIn(block_records, BlockPrev[b]) + 1
  BY <1>1, <1>2
<1> QED BY <1>1, <1>3, <1>4, RaisingRecord

\* Recording a block on the tip.
LEMMA TipRecordRaises ==
  ASSUME ChainInv, HeightInv, Extend
  PROVE  /\ HeightsBelowParents'
         /\ \A h : HeightIn(block_records', h) >= HeightIn(block_records, h)
         /\ HeightIn(block_records', BlockHash[block]) = active_chain_length + 1
<1>1. /\ handler = "extending" /\ status = "idle" /\ block \in Block
      /\ block_records' = WithRecord(block,
           RecordOf(block, active_chain_length + 1, Len(BlockTxs[block])))
  BY DEF Extend, ChainInv, ChainTypeOK
<1>2. PICK length \in Nat : length = active_chain_length
  BY HeightNumbers
<1>3. PICK height \in Nat : height = length + 1
  BY <1>2
<1>4. PICK undo \in Nat : undo = Len(BlockTxs[block])
  BY <1>1, Counts
<1>5. block_records' = WithRecord(block, RecordOf(block, height, undo))
  BY <1>1, <1>2, <1>3, <1>4
<1>6. HeightIn(block_records, BlockHash[block]) <= height
  <2>1. LengthToBe = length
    BY <1>1, <1>2 DEF LengthToBe
  <2>2. CASE BlockHash[block] \in DOMAIN block_records
    <3>1. PICK old \in Nat : old = HeightIn(block_records, BlockHash[block])
      BY HeightNumbers
    <3>2. old <= length
      BY <1>1, <2>1, <2>2, <3>1, Heights, HeightNumbers
    <3> QED BY <1>2, <1>3, <3>1, <3>2
  <2>3. CASE BlockHash[block] \notin DOMAIN block_records
    BY <1>3, <2>3, HeightNumbers
  <2> QED BY <2>2, <2>3
<1>7. height <= HeightIn(block_records, BlockPrev[block]) + 1
  <2>1. PICK tip \in Nat : tip = HeightIn(block_records, BlockPrev[block])
    BY HeightNumbers
  <2>2. tip >= length
    BY <1>1, <1>2, <2>1 DEF HeightInv
  <2> QED BY <1>2, <1>3, <2>1, <2>2
<1>8. HeightsBelowParents
  BY DEF HeightInv
<1> QED BY <1>1, <1>2, <1>3, <1>4, <1>5, <1>6, <1>7, <1>8, RaisingRecord

\* The genesis block, recorded first.
LEMMA GenesisRecordRaises ==
  ASSUME ChainInv, HeightInv, Construct
  PROVE  /\ HeightsBelowParents'
         /\ \A h : HeightIn(block_records', h) >= HeightIn(block_records, h)
         /\ HeightIn(block_records', BlockHash[Genesis]) = 1
<1>1. /\ handler = "constructing" /\ status = "idle" /\ Genesis \in Block
      /\ block_records' =
           WithRecord(Genesis, RecordOf(Genesis, 1, Len(BlockTxs[Genesis])))
  BY BlockAssumption DEF Construct, store_block
<1>2. PICK height \in Nat : height = 1
  OBVIOUS
<1>3. PICK undo \in Nat : undo = Len(BlockTxs[Genesis])
  BY <1>1, Counts
<1>4. block_records' = WithRecord(Genesis, RecordOf(Genesis, height, undo))
  BY <1>1, <1>2, <1>3
<1>5. DOMAIN block_records = {}
  BY <1>1 DEF ChainInv
<1>6. HeightIn(block_records, BlockHash[Genesis]) <= height
  BY <1>2, <1>5 DEF HeightIn
<1>7. height <= HeightIn(block_records, BlockPrev[Genesis]) + 1
  BY <1>2, HeightNumbers
<1>8. HeightsBelowParents
  BY DEF HeightInv
<1> QED BY <1>1, <1>2, <1>3, <1>4, <1>6, <1>7, <1>8, RaisingRecord

\* No step lowers a recorded height or breaks the relation to the parent.
LEMMA StepRaises ==
  ASSUME CollisionFree, ChainInv, HeightInv, [ChainNext]_vars
  PROVE  /\ HeightsBelowParents'
         /\ status # "dead" =>
              \A h : HeightIn(block_records', h) >= HeightIn(block_records, h)
         /\ status = "dead" => UNCHANGED block_records
<1> DEFINE Goal ==
  /\ HeightsBelowParents'
  /\ status # "dead" => \A h : HeightIn(block_records', h) >= HeightIn(block_records, h)
  /\ status = "dead" => UNCHANGED block_records
<1>1. HeightsBelowParents
  BY DEF HeightInv
<1>2. ASSUME UNCHANGED block_records
      PROVE  Goal
  <2>1. \A h : HeightIn(block_records', h) = HeightIn(block_records, h)
    BY <1>2
  <2>2. \A h : HeightIn(block_records', h) >= HeightIn(block_records, h)
    BY <2>1, HeightNumbers
  <2>3. HeightsBelowParents'
    BY <1>1, <1>2, <2>1, DeadStaysDead DEF HeightsBelowParents
  <2> QED BY <1>2, <2>2, <2>3
<1>3. CASE Construct
  BY <1>3, GenesisRecordRaises DEF Construct, store_block
<1>4. CASE Extend
  BY <1>4, TipRecordRaises DEF Extend
<1>5. CASE (Walk /\ UNCHANGED chainVars) \/ Constructed \/ ExtendDies \/ TakeOver
           \/ UNCHANGED vars
  BY <1>2, <1>5 DEF chainVars, Constructed, ExtendDies, TakeOver, vars
<1>6. ASSUME NEW b \in Block, handle_block(b)
      PROVE  Goal
  <2>1. status # "dead"
    BY <1>6 DEF handle_block, HandleInvalid, HandleOnTip, HandleFork, OvertakeDies,
                Overtake, Overtakes, OffTip, Delivered
  <2>2. UNCHANGED block_records \/ block_records' = ForkRecords(b)
    BY <1>6 DEF handle_block, HandleInvalid, HandleOnTip, HandleFork, OvertakeDies,
                Overtake, Overtakes, OffTip, chainVars
  <2> QED BY <1>1, <1>2, <2>1, <2>2, ForkRecordRaises
<1>7. ASSUME NEW t \in Transaction, handle_transaction(t)
      PROVE  Goal
  BY <1>2, <1>7 DEF handle_transaction, chainVars
<1> QED BY <1>3, <1>4, <1>5, <1>6, <1>7 DEF ChainNext, Continue

\* The step at which a fork takes over finds its last block one above the tip.
LEMMA TakenOver ==
  ASSUME ChainInv, TakeOver
  PROVE  /\ HeightIn(block_records', BlockHash[block]) = active_chain_length + 1
         /\ active_chain_last_block' = block
         /\ active_chain_length' = active_chain_length + 1
         /\ handler' = "idle"
<1>1. handler = "taking over" /\ status = "idle" /\ UNCHANGED block_records
      /\ active_chain_last_block' = block /\ handler' = "idle"
      /\ active_chain_length' = active_chain_length + 1
  BY DEF TakeOver
<1>2. HeightIn(block_records, BlockHash[block]) = active_chain_length + 1
  BY <1>1 DEF ChainInv, HeightsWithinLength, LengthToBe
<1> QED BY <1>1, <1>2

LEMMA HeightStep ==
  ASSUME CollisionFree, ChainInv, HeightInv, [ChainNext]_vars
  PROVE  HeightInv'
<1> DEFINE AsHigh ==
      status # "dead" /\ handler # "constructing" =>
        HeightIn(block_records, get_last_block_hash) >= active_chain_length
<1> DEFINE OnItsParent ==
      handler = "extending" => BlockPrev[block] = get_last_block_hash
<1>1. AsHigh /\ OnItsParent
  BY DEF HeightInv
<1>2. ASSUME UNCHANGED <<active_chain_last_block, active_chain_length>>,
             handler # "constructing"
      PROVE  AsHigh'
  <2>1. CASE status = "dead"
    BY <2>1, DeadStaysDead
  <2>2. CASE status # "dead"
    <3>1. PICK length \in Nat : length = active_chain_length
      BY HeightNumbers
    <3>2. PICK old \in Nat : old = HeightIn(block_records, get_last_block_hash)
      BY HeightNumbers
    <3>3. HeightIn(block_records', get_last_block_hash) >= old
      BY <2>2, <3>2, StepRaises
    <3>4. HeightIn(block_records', get_last_block_hash) \in Nat
      BY ChainStep_Inv, HeightNumbersNext
    <3>5. old >= length
      BY <1>1, <1>2, <2>2, <3>1, <3>2
    <3>6. HeightIn(block_records', get_last_block_hash) >= length
      BY <3>1, <3>2, <3>3, <3>4, <3>5
    <3> QED BY <1>2, <3>1, <3>6 DEF get_last_block_hash
  <2> QED BY <2>1, <2>2
<1>3. ASSUME UNCHANGED <<active_chain_last_block, handler, block>>
      PROVE  OnItsParent'
  BY <1>1, <1>3 DEF get_last_block_hash
<1> SUFFICES AsHigh' /\ OnItsParent'
  BY StepRaises DEF HeightInv
<1>4. CASE Construct
  <2>1. HeightIn(block_records', BlockHash[Genesis]) = 1
    BY <1>4, GenesisRecordRaises
  <2>2. active_chain_last_block' = Genesis /\ active_chain_length' = 1
        /\ handler' = "genesis"
    BY <1>4 DEF Construct, ChainInv, tipVars
  <2> QED BY <2>1, <2>2 DEF get_last_block_hash
<1>5. CASE Constructed
  BY <1>2, <1>5 DEF Constructed, tipVars
<1>6. CASE Extend
  <2>1. HeightIn(block_records', BlockHash[block]) = active_chain_length + 1
    BY <1>6, TipRecordRaises
  <2>2. active_chain_last_block' = block /\ handler' = "idle"
        /\ active_chain_length' = active_chain_length + 1
    BY <1>6 DEF Extend
  <2>3. active_chain_length + 1 \in Nat
    BY HeightNumbers
  <2> QED BY <2>1, <2>2, <2>3 DEF get_last_block_hash
<1>7. CASE TakeOver
  <2>1. active_chain_length + 1 \in Nat
    BY HeightNumbers
  <2> QED BY <1>7, <2>1, TakenOver DEF get_last_block_hash
<1>8. CASE (Walk /\ UNCHANGED chainVars) \/ ExtendDies \/ UNCHANGED vars
  <2>1. UNCHANGED <<active_chain_last_block, active_chain_length, handler, block,
                    block_records>>
    BY <1>8 DEF ExtendDies, vars, chainVars, tipVars
  <2>2. AsHigh'
    BY <1>1, <1>2, <2>1, DeadStaysDead DEF get_last_block_hash
  <2> QED BY <1>3, <2>1, <2>2
<1>9. ASSUME NEW b \in Block, handle_block(b)
      PROVE  AsHigh' /\ OnItsParent'
  <2>1. handler = "idle" /\ UNCHANGED <<active_chain_last_block, active_chain_length>>
    BY <1>9 DEF handle_block, HandleInvalid, HandleOnTip, HandleFork, OvertakeDies,
                Overtake, Overtakes, OffTip, Delivered, chainVars, tipVars
  <2>2. \/ handler' = "extending" /\ block' = b /\ OnTip(b)
        \/ handler' # "extending"
    BY <1>9, <2>1 DEF handle_block, HandleInvalid, HandleOnTip, HandleFork, OvertakeDies,
                Overtake, Overtakes, OffTip, Delivered, chainVars, tipVars
  <2>3. OnItsParent'
    BY <2>1, <2>2 DEF OnTip, get_last_block_hash
  <2> QED BY <1>2, <2>1, <2>3
<1>10. ASSUME NEW t \in Transaction, handle_transaction(t)
       PROVE  AsHigh' /\ OnItsParent'
  <2>1. handler = "idle" /\ UNCHANGED chainVars
    BY <1>10 DEF handle_transaction
  <2> QED BY <1>2, <1>3, <2>1 DEF chainVars, tipVars
<1> QED BY <1>4, <1>5, <1>6, <1>7, <1>8, <1>9, <1>10 DEF ChainNext, Continue

-----------------------------------------------------------------------------

LEMMA HeightStart ==
  ASSUME ChainInit
  PROVE  HeightInv
<1>1. DOMAIN block_records = {} /\ handler = "constructing"
  BY DEF ChainInit
<1> QED BY <1>1 DEF HeightInv, HeightsBelowParents

\* The tip moves to a block of the next height only.
LEMMA TipStep ==
  ASSUME ChainInv, HeightInv, [ChainNext]_vars,
         active_chain_last_block' # active_chain_last_block
  PROVE  /\ active_chain_length' = active_chain_length + 1
         /\ HeightIn(block_records', BlockHash[active_chain_last_block'])
              = active_chain_length'
<1>1. CASE Extend
  BY <1>1, TipRecordRaises DEF Extend
<1>2. CASE TakeOver
  BY <1>2, TakenOver
<1>3. ASSUME NEW b \in Block, handle_block(b)
      PROVE  FALSE
  BY <1>3 DEF handle_block, HandleInvalid, HandleOnTip, HandleFork, OvertakeDies,
              Overtake, chainVars, tipVars
<1>4. ~ (Walk /\ UNCHANGED chainVars) /\ ~Construct /\ ~Constructed /\ ~ExtendDies
      /\ ~UNCHANGED vars
  BY DEF Construct, Constructed, ExtendDies, vars, chainVars, tipVars
<1>5. \A t \in Transaction : ~handle_transaction(t)
  BY DEF handle_transaction, chainVars, tipVars
<1> QED BY <1>1, <1>2, <1>3, <1>4, <1>5 DEF ChainNext, Continue

LEMMA Squeezed ==
  ASSUME NEW n \in Nat, NEW m \in Nat, m >= n, n # 0
  PROVE  m # 0 /\ (m <= n => m = n)
OBVIOUS

LEMMA TipAtLength ==
  ASSUME ChainInv, HeightInv
  PROVE  TipHeight
<1> SUFFICES ASSUME status # "dead", handler # "constructing", handler # "taking over"
             PROVE  /\ get_last_block_hash \in DOMAIN block_records
                    /\ block_records[get_last_block_hash].height = active_chain_length
  BY DEF TipHeight
<1> DEFINE length == active_chain_length
           tip == HeightIn(block_records, get_last_block_hash)
<1>1. length \in Nat \ {0} /\ tip \in Nat
  BY HeightNumbers
<1>2. tip >= length
  BY DEF HeightInv
<1>3. LengthToBe = length
  BY DEF LengthToBe
<1>4. get_last_block_hash \in DOMAIN block_records => tip <= length
  BY <1>3, Heights, HeightNumbers
<1>5. get_last_block_hash \notin DOMAIN block_records => tip = 0
  BY HeightNumbers
<1>6. get_last_block_hash \in DOMAIN block_records
        => tip = block_records[get_last_block_hash].height
  BY HeightNumbers
<1> HIDE DEF length, tip
<1>7. tip # 0 /\ (tip <= length => tip = length)
  <2>1. length \in Nat /\ length # 0
    BY <1>1
  <2> QED BY <1>1, <1>2, <2>1, Squeezed
<1> QED BY <1>4, <1>5, <1>6, <1>7 DEF length

\* Where blocks that share a hash share a parent, HeightInv holds under any
\* deliveries: the tip's height is pinned from above by the chain's length and
\* from below by the records, which never sink.
THEOREM HeightInvariant ==
  ASSUME CollisionFree
  PROVE  ChainSpec => []HeightInv
<1>1. ChainInit => HeightInv
  BY HeightStart
<1>2. ChainInv /\ HeightInv /\ [ChainNext]_vars => HeightInv'
  BY HeightStep
<1> QED BY <1>1, <1>2, ChainInvariant, PTL DEF ChainSpec

\* Where blocks that share a hash share a parent, no block is recorded higher
\* than one above its parent, in whatever order the two arrive.
THEOREM BlocksBelowParents ==
  ASSUME CollisionFree
  PROVE  ChainSpec => []HeightsBelowParents
<1>1. HeightInv => HeightsBelowParents
  BY DEF HeightInv
<1> QED BY <1>1, HeightInvariant, PTL

\* Under the same hypothesis the length counter and the record of the tip agree
\* whenever no block is being stored, after any number of forks and repeats.
THEOREM TipAtChainLength ==
  ASSUME CollisionFree
  PROVE  ChainSpec => []TipHeight
<1>1. ChainInv /\ HeightInv => TipHeight
  BY TipAtLength
<1> QED BY <1>1, ChainInvariant, HeightInvariant, PTL

\* Under the same hypothesis a repeated delivery never lowers a height.
THEOREM HeightsOnlyGrow ==
  ASSUME CollisionFree
  PROVE  ChainSpec => HeightsNeverDrop
<1>1. ChainInv /\ HeightInv /\ [ChainNext]_vars
        => [\A h \in DOMAIN block_records :
              HeightIn(block_records', h) >= block_records[h].height]_vars
  <2> SUFFICES ASSUME ChainInv, HeightInv, [ChainNext]_vars,
                      NEW h \in DOMAIN block_records
               PROVE  HeightIn(block_records', h) >= block_records[h].height
    OBVIOUS
  <2>1. CASE status # "dead"
    BY <2>1, StepRaises, HeightNumbers
  <2>2. CASE status = "dead"
    <3>1. HeightIn(block_records', h) = block_records[h].height
          /\ block_records[h].height \in Nat
      BY <2>2, StepRaises, HeightNumbers
    <3> QED BY <3>1
  <2> QED BY <2>1, <2>2
<1> QED BY <1>1, ChainInvariant, HeightInvariant, PTL DEF ChainSpec, HeightsNeverDrop

\* Under the same hypothesis the tip moves only to a block one higher.
THEOREM TipMovesUp ==
  ASSUME CollisionFree
  PROVE  ChainSpec => TipAdvances
<1>1. ChainInv /\ HeightInv /\ [ChainNext]_vars
        => [active_chain_last_block' # active_chain_last_block =>
             /\ active_chain_length' = active_chain_length + 1
             /\ HeightIn(block_records', BlockHash[active_chain_last_block'])
                  = active_chain_length']_vars
  BY TipStep
<1> QED BY <1>1, ChainInvariant, HeightInvariant, PTL DEF ChainSpec, TipAdvances


\* Induction over data rests on this: a set of numbers has a least element.
LEMMA LeastNumber ==
  ASSUME NEW S \in SUBSET Nat, S # {}
  PROVE  \E m \in S : \A k \in S : m <= k
<1>1. PICK m \in S : \A k \in S : ~(<<k, m>> \in OpToRel(<, Nat))
  BY NatLessThanWellFounded, WFMin, Zenon
<1>2. \A k \in S : ~(k < m)
  BY <1>1 DEF OpToRel
<1> QED BY <1>2

\* What the first number has, and each hands to the next, every number has.
LEMMA Upwards ==
  ASSUME NEW S, NEW n \in Nat, 1 \in S, \A i \in 1 .. n - 1 : i \in S => i + 1 \in S
  PROVE  \A i \in 1 .. n : i \in S
<1> SUFFICES ASSUME NEW x \in 1 .. n, x \notin S PROVE FALSE
  OBVIOUS
<1> DEFINE T == {i \in 1 .. n : i \notin S}
<1>1. T \in SUBSET Nat /\ T # {}
  OBVIOUS
<1> HIDE DEF T
<1>2. PICK m \in T : \A k \in T : m <= k
  BY <1>1, LeastNumber
<1>3. m \in 1 .. n /\ m \notin S
  BY <1>2 DEF T
<1>4. m # 1
  BY <1>3
<1>5. m - 1 \in 1 .. n - 1
  BY <1>3, <1>4
<1>6. m - 1 \notin T
  BY <1>2, <1>3
<1>7. m - 1 \in S
  BY <1>5, <1>6 DEF T
<1>8. (m - 1) + 1 \in S
  BY <1>5, <1>7
<1> QED BY <1>3, <1>8

\* The same from the last number down.
LEMMA Downwards ==
  ASSUME NEW S, NEW n \in Nat, n \in S, \A i \in 1 .. n - 1 : i + 1 \in S => i \in S
  PROVE  \A i \in 1 .. n : i \in S
<1> DEFINE T == {k \in 1 .. n : n + 1 - k \in S}
<1> SUFFICES ASSUME n \in Nat \ {0} PROVE \A i \in 1 .. n : i \in S
  OBVIOUS
<1>1. 1 \in T
  OBVIOUS
<1>2. ASSUME NEW k \in 1 .. n - 1, k \in T PROVE k + 1 \in T
  <2>1. n - k \in 1 .. n - 1 /\ (n - k) + 1 = n + 1 - k
    OBVIOUS
  <2>2. n - k \in S
    BY <1>2, <2>1
  <2> QED BY <2>2
<1> HIDE DEF T
<1>3. \A k \in 1 .. n : k \in T
  BY <1>1, <1>2, Upwards
<1> SUFFICES ASSUME NEW i \in 1 .. n PROVE i \in S
  OBVIOUS
<1>4. n + 1 - i \in T
  BY <1>3
<1>5. n + 1 - (n + 1 - i) \in S
  BY <1>4 DEF T
<1> QED BY <1>5

(* Paths. *)

\* The recursive function in PathTo exists, whatever the records are.
Back(records, h, n, f) ==
  f = [k \in 0 .. n - 1 |-> IF k = 0 THEN h ELSE PrevIn(records, f[k - 1])]

\* Its graph grows element by element, as far as the path is long.
LEMMA BackExists ==
  ASSUME NEW records, NEW h, NEW n \in Nat \ {0}
  PROVE  \E f : Back(records, h, n, f)
<1> DEFINE S == {k \in 1 .. n : \E f : Back(records, h, k, f)}
<1>1. 1 \in S
  <2> DEFINE f == [k \in 0 .. 0 |-> h]
  <2>1. Back(records, h, 1, f)
    BY DEF Back
  <2> QED BY <2>1
<1>2. ASSUME NEW k \in 1 .. n - 1, k \in S PROVE k + 1 \in S
  <2>1. PICK f : Back(records, h, k, f)
    BY <1>2
  <2> DEFINE g == [j \in 0 .. (k + 1) - 1 |->
                    IF j < k THEN f[j] ELSE PrevIn(records, f[k - 1])]
  <2>2. \A j \in 0 .. k - 1 : f[j] = IF j = 0 THEN h ELSE PrevIn(records, f[j - 1])
    BY <2>1 DEF Back
  <2>3. ASSUME NEW j \in 0 .. (k + 1) - 1
        PROVE  g[j] = IF j = 0 THEN h ELSE PrevIn(records, g[j - 1])
    <3>1. CASE j = 0
      BY <2>2, <3>1
    <3>2. CASE j # 0 /\ j < k
      <4>1. j - 1 \in 0 .. (k + 1) - 1 /\ j - 1 < k /\ j \in 0 .. k - 1
        BY <3>2
      <4>2. g[j] = f[j] /\ g[j - 1] = f[j - 1]
        BY <3>2, <4>1
      <4> QED BY <2>2, <3>2, <4>1, <4>2
    <3>3. CASE j = k
      <4>1. j - 1 \in 0 .. (k + 1) - 1 /\ j - 1 < k /\ j # 0 /\ ~(j < k)
        BY <3>3
      <4>2. g[j] = PrevIn(records, f[k - 1]) /\ g[j - 1] = f[j - 1]
        BY <4>1
      <4> QED BY <3>3, <4>1, <4>2
    <3> QED BY <3>1, <3>2, <3>3
  <2>4. g = [j \in 0 .. (k + 1) - 1 |-> IF j = 0 THEN h ELSE PrevIn(records, g[j - 1])]
    <3> HIDE DEF g
    <3>1. DOMAIN g = 0 .. (k + 1) - 1 /\ g = [j \in DOMAIN g |-> g[j]]
      BY DEF g
    <3> QED BY <2>3, <3>1
  <2>5. Back(records, h, k + 1, g)
    BY <2>4 DEF Back
  <2>6. k + 1 \in 1 .. n
    OBVIOUS
  <2> QED BY <2>5, <2>6
<1> HIDE DEF S
<1>3. n \in S
  BY <1>1, <1>2, Upwards
<1> QED BY <1>3 DEF S

\* What PathTo is: the last element is where it starts, and every other one is
\* the recorded parent of the next.
LEMMA PathSteps ==
  ASSUME NEW records, NEW h, NEW n \in Nat \ {0}
  PROVE  /\ DOMAIN PathTo(records, h, n) = 1 .. n
         /\ PathTo(records, h, n)[n] = h
         /\ \A i \in 1 .. n - 1 :
              PathTo(records, h, n)[i] = PrevIn(records, PathTo(records, h, n)[i + 1])
<1> DEFINE back == CHOOSE f : f = [k \in 0 .. n - 1 |->
                      IF k = 0 THEN h ELSE PrevIn(records, f[k - 1])]
<1>1. back = [k \in 0 .. n - 1 |-> IF k = 0 THEN h ELSE PrevIn(records, back[k - 1])]
  <2>1. \E f : Back(records, h, n, f)
    BY BackExists
  <2>2. \E f : f = [k \in 0 .. n - 1 |-> IF k = 0 THEN h ELSE PrevIn(records, f[k - 1])]
    BY <2>1 DEF Back
  <2> QED BY <2>2, Zenon
<1>2. PathTo(records, h, n) = [i \in 1 .. n |-> back[n - i]]
  BY DEF PathTo
<1> HIDE DEF back
<1>3. \A k \in 0 .. n - 1 : back[k] = IF k = 0 THEN h ELSE PrevIn(records, back[k - 1])
  BY <1>1
<1>4. back[n - n] = h
  BY <1>3
<1>5. ASSUME NEW i \in 1 .. n - 1
      PROVE  back[n - i] = PrevIn(records, back[n - (i + 1)])
  <2>1. n - i \in 0 .. n - 1 /\ n - i # 0 /\ (n - i) - 1 = n - (i + 1)
    OBVIOUS
  <2> QED BY <1>3, <2>1
<1>6. \A i \in 1 .. n - 1 : i + 1 \in 1 .. n /\ i \in 1 .. n
  OBVIOUS
<1>7. n \in 1 .. n
  OBVIOUS
<1> QED BY <1>2, <1>4, <1>5, <1>6, <1>7

\* Nothing else is such a path.
LEMMA PathUnique ==
  ASSUME NEW records, NEW h, NEW n \in Nat \ {0}, NEW p,
         DOMAIN p = 1 .. n, p[n] = h,
         \A i \in 1 .. n - 1 : p[i] = PrevIn(records, p[i + 1])
  PROVE  \A i \in 1 .. n : PathTo(records, h, n)[i] = p[i]
<1> DEFINE q == PathTo(records, h, n)
           S == {i \in 1 .. n : q[i] = p[i]}
<1>1. q[n] = h /\ \A i \in 1 .. n - 1 : q[i] = PrevIn(records, q[i + 1])
  BY PathSteps
<1> HIDE DEF q
<1>2. n \in S
  BY <1>1
<1>3. \A i \in 1 .. n - 1 : i + 1 \in S => i \in S
  BY <1>1
<1> HIDE DEF S
<1>4. \A i \in 1 .. n : i \in S
  BY <1>2, <1>3, Downwards
<1> QED BY <1>4 DEF S, q

\* p leads from the genesis block to h, whose height is n, by one at a time.
Rooted(records, p, h, n) ==
  /\ n \in Nat \ {0} /\ DOMAIN p = 1 .. n
  /\ p[1] = BlockHash[Genesis] /\ p[n] = h
  /\ \A i \in 1 .. n : p[i] \in DOMAIN records /\ records[p[i]].height = i
  /\ \A i \in 1 .. n - 1 : p[i] = records[p[i + 1]].prev

\* After a takeover some block above the genesis block lists no transactions.
Unlisted(records, p, n) == \E i \in 2 .. n : records[p[i]].undo = 0

RootInv ==
  /\ handler # "constructing" =>
       \E p : /\ Rooted(block_records, p, get_last_block_hash, active_chain_length)
              /\ takeovers = 1 => Unlisted(block_records, p, active_chain_length)
  /\ handler = "taking over" =>
       /\ \E p : Rooted(block_records, p, BlockHash[block], active_chain_length + 1)
       /\ block_records[BlockHash[block]].undo = 0
       /\ takeovers = 0
  /\ takeovers \in {0, 1}
  /\ handler = "constructing" => takeovers = 0

\* The genesis block's parent is no block: nothing is recorded under its hash.
LEMMA NoHashUnrecorded == ASSUME ChainInv PROVE NoHash \notin DOMAIN block_records
<1>1. DOMAIN block_records \subseteq {BlockHash[b] : b \in Block}
  BY RecordsType DEF ChainInv
<1> QED BY <1>1, BlockAssumption

\* A record's parent is that of every block with its hash.
LEMMA RecordedParent ==
  ASSUME CollisionFree, ChainInv, NEW b \in Block, BlockHash[b] \in DOMAIN block_records
  PROVE  block_records[BlockHash[b]].prev = BlockPrev[b]
<1> DEFINE old == block_records[BlockHash[b]]
<1>1. old.block \in Block /\ BlockHash[old.block] = BlockHash[b]
      /\ old.prev = BlockPrev[old.block]
  BY RecordsType DEF ChainInv, RecordsOwn, BlockRecord
<1> QED BY <1>1 DEF CollisionFree

\* A path to the genesis block is the one the code walks.
LEMMA RootedIsPath ==
  ASSUME NEW records, NEW p, NEW h, NEW n, Rooted(records, p, h, n)
  PROVE  /\ n \in Nat \ {0}
         /\ \A i \in 1 .. n : PathTo(records, h, n)[i] = p[i]
<1>1. n \in Nat \ {0} /\ DOMAIN p = 1 .. n /\ p[n] = h
  BY DEF Rooted
<1>2. ASSUME NEW i \in 1 .. n - 1
      PROVE  p[i] = PrevIn(records, p[i + 1])
  <2>1. i + 1 \in 1 .. n
    BY <1>1
  <2>2. p[i + 1] \in DOMAIN records /\ p[i] = records[p[i + 1]].prev
    BY <2>1 DEF Rooted
  <2> QED BY <2>2 DEF PrevIn
<1> QED BY <1>1, <1>2, PathUnique

\* Where a block with the hash of a path's element is recorded off the tip, its
\* height and its parent stay what they are.
LEMMA ForkOnPath ==
  ASSUME CollisionFree, ChainInv, NEW p, NEW h, NEW n, Rooted(block_records, p, h, n),
         NEW b \in Block, NEW i \in 1 .. n, BlockHash[b] = p[i]
  PROVE  /\ ForkHeight(b) = i
         /\ BlockPrev[b] = block_records[p[i]].prev
<1>1. n \in Nat \ {0} /\ p[i] \in DOMAIN block_records
  BY DEF Rooted
<1>2. block_records[p[i]].prev = BlockPrev[b]
  BY <1>1, RecordedParent
<1>3. CASE i = 1
  <2>1. BlockHash[b] = BlockHash[Genesis]
    BY <1>3 DEF Rooted
  <2>2. BlockPrev[b] = NoHash
    BY <2>1, BlockAssumption DEF CollisionFree
  <2> QED BY <1>2, <1>3, <2>2, NoHashUnrecorded, HeightNumbers DEF ForkHeight
<1>4. CASE i # 1
  <2>1. i - 1 \in 1 .. n - 1 /\ i - 1 \in 1 .. n /\ (i - 1) + 1 = i
    BY <1>1, <1>4
  <2>2. p[i - 1] = BlockPrev[b]
    BY <1>2, <2>1 DEF Rooted
  <2>3. HeightIn(block_records, p[i - 1]) = i - 1
    BY <2>1, HeightNumbers DEF Rooted
  <2> QED BY <1>2, <2>1, <2>2, <2>3 DEF ForkHeight
<1> QED BY <1>3, <1>4

\* Recording a fork leaves the active chain's path, and its unlisted block, alone.
LEMMA ForkKeepsPath ==
  ASSUME CollisionFree, ChainInv, NEW p, NEW h, NEW n, Rooted(block_records, p, h, n),
         NEW b \in Block, block_records' = ForkRecords(b)
  PROVE  /\ Rooted(block_records', p, h, n)
         /\ Unlisted(block_records, p, n) => Unlisted(block_records', p, n)
<1>1. /\ n \in Nat \ {0} /\ DOMAIN p = 1 .. n
      /\ p[1] = BlockHash[Genesis] /\ p[n] = h
  BY DEF Rooted
<1>2. /\ DOMAIN block_records' = DOMAIN block_records \cup {BlockHash[b]}
      /\ \A k \in DOMAIN block_records' :
           block_records'[k] = IF k = BlockHash[b] THEN RecordOf(b, ForkHeight(b), 0)
                               ELSE block_records[k]
  BY DEF ForkRecords, WithRecord
<1>3. ASSUME NEW i \in 1 .. n
      PROVE  /\ p[i] \in DOMAIN block_records'
             /\ block_records'[p[i]].height = i
             /\ block_records'[p[i]].prev = block_records[p[i]].prev
             /\ block_records[p[i]].undo = 0 => block_records'[p[i]].undo = 0
  <2>1. p[i] \in DOMAIN block_records /\ block_records[p[i]].height = i
    BY DEF Rooted
  <2>2. CASE p[i] = BlockHash[b]
    <3>1. ForkHeight(b) = i /\ BlockPrev[b] = block_records[p[i]].prev
      BY <2>2, ForkOnPath
    <3> QED BY <1>2, <2>1, <2>2, <3>1 DEF RecordOf
  <2>3. CASE p[i] # BlockHash[b]
    BY <1>2, <2>1, <2>3
  <2> QED BY <2>2, <2>3
<1>4. \A i \in 1 .. n - 1 : p[i] = block_records'[p[i + 1]].prev
  <2> TAKE i \in 1 .. n - 1
  <2>1. i + 1 \in 1 .. n
    BY <1>1
  <2>2. p[i] = block_records[p[i + 1]].prev
    BY DEF Rooted
  <2> QED BY <1>3, <2>1, <2>2
<1>5. \A i \in 2 .. n : i \in 1 .. n
  BY <1>1
<1>6. Unlisted(block_records, p, n) => \E i \in 2 .. n : block_records'[p[i]].undo = 0
  BY <1>3, <1>5 DEF Unlisted
<1> QED BY <1>1, <1>3, <1>4, <1>6 DEF Rooted, Unlisted

\* The fork that overtakes starts at the active chain's genesis block: otherwise
\* the common ancestor would be the genesis block's parent, which is no block,
\* and reading it ends the process.
LEMMA ForkMeetsGenesis ==
  ASSUME CollisionFree, ChainInv, HeightInv, NEW p,
         Rooted(block_records, p, get_last_block_hash, active_chain_length),
         NEW b \in Block, Overtake(b)
  PROVE  PathTo(block_records', BlockHash[b], ForkHeight(b))[1] = BlockHash[Genesis]
<1> DEFINE length == active_chain_length
           active == PathTo(block_records', get_last_block_hash, length)
           forked == PathTo(block_records', BlockHash[b], ForkHeight(b))
           Parts(i) == /\ active[i] # forked[i]
                       /\ \A j \in 1 .. i - 1 : active[j] = forked[j]
           parting == CHOOSE i \in DOMAIN active : Parts(i)
<1>1. /\ block_records' = ForkRecords(b) /\ status = "idle" /\ handler = "idle"
      /\ ForkHeight(b) > length /\ BlockPrev[b] # get_last_block_hash
      /\ CommonAncestor(b) \in DOMAIN block_records'
  BY DEF Overtake, Overtakes, OffTip, OnTip, Delivered
<1>2. CommonAncestor(b) = PrevIn(block_records', active[parting])
  BY <1>1 DEF CommonAncestor
<1>3. length \in Nat \ {0} /\ ForkHeight(b) \in Nat /\ ForkHeight(b) = length + 1
  <2>1. length \in Nat \ {0} /\ HeightIn(block_records, BlockPrev[b]) \in Nat
    BY HeightNumbers
  <2>2. HeightIn(block_records, BlockPrev[b]) <= length
    <3>1. LengthToBe = length
      BY <1>1 DEF LengthToBe
    <3>2. CASE BlockPrev[b] \in DOMAIN block_records
      BY <1>1, <3>1, <3>2, HeightNumbers DEF ChainInv, HeightsWithinLength
    <3>3. CASE BlockPrev[b] \notin DOMAIN block_records
      BY <2>1, <3>3, HeightNumbers
    <3> QED BY <3>2, <3>3
  <2> QED BY <1>1, <2>1, <2>2 DEF ForkHeight
<1>4. /\ Rooted(block_records', p, get_last_block_hash, length)
  BY <1>1, ForkKeepsPath
<1>5. DOMAIN active = 1 .. length /\ \A i \in 1 .. length : active[i] = p[i]
  <2>1. DOMAIN active = 1 .. length
    BY <1>3, PathSteps
  <2> QED BY <1>4, <2>1, RootedIsPath
<1>6. forked[length] = BlockPrev[b]
  <2>1. length \in 1 .. ForkHeight(b) - 1 /\ ForkHeight(b) \in Nat \ {0}
        /\ length + 1 = ForkHeight(b)
    BY <1>3
  <2>2. /\ forked[ForkHeight(b)] = BlockHash[b]
        /\ forked[length] = PrevIn(block_records', forked[length + 1])
    BY <2>1, PathSteps
  <2>3. PrevIn(block_records', BlockHash[b]) = BlockPrev[b]
    BY <1>1 DEF PrevIn, ForkRecords, WithRecord, RecordOf
  <2> QED BY <2>1, <2>2, <2>3
<1>7. p[length] = get_last_block_hash /\ p[1] = BlockHash[Genesis]
  BY DEF Rooted
<1> HIDE DEF length, active, forked
<1>8. \E i \in DOMAIN active : Parts(i)
  <2> DEFINE Apart == {i \in 1 .. length : active[i] # forked[i]}
  <2>1. Apart \in SUBSET Nat /\ Apart # {}
    <3>1. length \in 1 .. length
      BY <1>3
    <3> QED BY <3>1, <1>1, <1>5, <1>6, <1>7
  <2> HIDE DEF Apart
  <2>2. PICK i \in Apart : \A k \in Apart : i <= k
    BY <2>1, LeastNumber
  <2>3. i \in 1 .. length /\ active[i] # forked[i]
    BY <2>2 DEF Apart
  <2>4. ASSUME NEW j \in 1 .. i - 1
        PROVE  active[j] = forked[j]
    <3>1. j \in 1 .. length /\ ~(i <= j)
      BY <1>3, <2>3
    <3> QED BY <2>2, <3>1 DEF Apart
  <2> QED BY <1>5, <2>3, <2>4
<1>9. parting \in 1 .. length /\ Parts(parting)
  BY <1>5, <1>8
<1> HIDE DEF parting
<1>10. CASE parting = 1
  <2>1. active[1] = BlockHash[Genesis]
    BY <1>5, <1>7, <1>9, <1>10
  <2>2. BlockHash[Genesis] \in DOMAIN block_records'
    BY <1>3, <1>4, <1>7 DEF Rooted
  <2>3. PrevIn(block_records', BlockHash[Genesis]) = NoHash
    <3>1. CASE BlockHash[b] = BlockHash[Genesis]
      <4>1. BlockPrev[b] = NoHash
        BY <3>1, BlockAssumption DEF CollisionFree
      <4> QED BY <1>1, <3>1, <4>1 DEF PrevIn, ForkRecords, WithRecord, RecordOf
    <3>2. CASE BlockHash[b] # BlockHash[Genesis]
      <4>1. BlockHash[Genesis] \in DOMAIN block_records
            /\ block_records'[BlockHash[Genesis]] = block_records[BlockHash[Genesis]]
        BY <1>1, <2>2, <3>2 DEF ForkRecords, WithRecord
      <4>2. block_records[BlockHash[Genesis]].prev = NoHash
        BY <4>1, RecordedParent, BlockAssumption
      <4> QED BY <2>2, <4>1, <4>2 DEF PrevIn
    <3> QED BY <3>1, <3>2
  <2>4. NoHash \in DOMAIN block_records'
    BY <1>1, <1>2, <1>10, <2>1, <2>3
  <2>5. DOMAIN block_records' = DOMAIN block_records \cup {BlockHash[b]}
    BY <1>1 DEF ForkRecords, WithRecord
  <2> QED BY <2>4, <2>5, NoHashUnrecorded, BlockAssumption
<1>11. CASE parting # 1
  <2>1. 1 \in 1 .. parting - 1 /\ 1 \in 1 .. length
    BY <1>3, <1>9, <1>11
  <2>2. forked[1] = active[1]
    BY <1>9, <2>1
  <2> QED BY <1>5, <1>7, <2>1, <2>2 DEF forked
<1> QED BY <1>10, <1>11

\* Between a block as high as its path is long and the genesis block, which is
\* of height 1, every block is exactly one above its parent.
LEMMA FullHeight ==
  ASSUME CollisionFree, ChainInv', HeightsBelowParents', status' # "dead",
         NEW h, NEW n \in Nat \ {0}, NEW p, p = PathTo(block_records', h, n),
         HeightIn(block_records', h) = n, p[1] = BlockHash[Genesis],
         HeightIn(block_records', p[1]) = 1
  PROVE  Rooted(block_records', p, h, n)
<1> DEFINE height(x) == HeightIn(block_records', x)
           AtLeast == {i \in 1 .. n : height(p[i]) >= i}
           AtMost == {i \in 1 .. n : height(p[i]) <= i}
<1>1. /\ DOMAIN p = 1 .. n /\ p[n] = h
      /\ \A i \in 1 .. n - 1 : p[i] = PrevIn(block_records', p[i + 1])
  BY PathSteps
<1>2. \A x : height(x) \in Nat
  BY HeightNumbersNext
<1>3. \A x : height(x) # 0 =>
        /\ x \in DOMAIN block_records' /\ block_records'[x].height = height(x)
        /\ PrevIn(block_records', x) = block_records'[x].prev
        /\ height(x) <= height(PrevIn(block_records', x)) + 1
  BY DEF HeightIn, PrevIn, HeightsBelowParents
<1> HIDE DEF height
<1>4. n \in AtLeast
  BY <1>1 DEF height
<1>5. ASSUME NEW i \in 1 .. n - 1, i + 1 \in AtLeast
      PROVE  i \in AtLeast
  <2>1. height(p[i + 1]) # 0 /\ height(p[i + 1]) >= i + 1
    BY <1>2, <1>5
  <2>2. height(p[i + 1]) <= height(p[i]) + 1
    BY <1>1, <1>3, <2>1
  <2>3. height(p[i]) >= i
    <3>1. PICK x \in Nat : x = height(p[i + 1])
      BY <1>2
    <3>2. PICK y \in Nat : y = height(p[i])
      BY <1>2
    <3> QED BY <2>1, <2>2, <3>1, <3>2
  <2> QED BY <2>3
<1> HIDE DEF AtLeast
<1>6. \A i \in 1 .. n : i \in AtLeast
  BY <1>4, <1>5, Downwards
<1>7. \A i \in 1 .. n : height(p[i]) >= i /\ height(p[i]) # 0
  BY <1>2, <1>6 DEF AtLeast
<1>8. 1 \in AtMost
  BY DEF height
<1>9. ASSUME NEW i \in 1 .. n - 1, i \in AtMost
      PROVE  i + 1 \in AtMost
  <2>1. i + 1 \in 1 .. n
    OBVIOUS
  <2>2. height(p[i + 1]) <= height(p[i]) + 1
    BY <1>1, <1>3, <1>7, <2>1
  <2>3. PICK x \in Nat : x = height(p[i + 1])
    BY <1>2
  <2>4. PICK y \in Nat : y = height(p[i])
    BY <1>2
  <2>5. y <= i
    BY <1>9, <2>4
  <2>6. height(p[i + 1]) <= i + 1
    BY <2>2, <2>3, <2>4, <2>5
  <2> QED BY <2>1, <2>6
<1> HIDE DEF AtMost
<1>10. \A i \in 1 .. n : i \in AtMost
  BY <1>8, <1>9, Upwards
<1>11. \A i \in 1 .. n : height(p[i]) = i
  <2> TAKE i \in 1 .. n
  <2>1. PICK x \in Nat : x = height(p[i])
    BY <1>2
  <2>2. x >= i /\ x <= i
    BY <1>7, <1>10, <2>1 DEF AtMost
  <2> QED BY <2>1, <2>2
<1>12. \A i \in 1 .. n : p[i] \in DOMAIN block_records' /\ block_records'[p[i]].height = i
  BY <1>3, <1>7, <1>11
<1>13. \A i \in 1 .. n - 1 : p[i] = block_records'[p[i + 1]].prev
  <2> TAKE i \in 1 .. n - 1
  <2>1. i + 1 \in 1 .. n
    OBVIOUS
  <2> QED BY <1>1, <1>3, <1>7, <2>1
<1> QED BY <1>1, <1>12, <1>13 DEF Rooted

\* The fork that takes over leads to the genesis block.
LEMMA OvertakeRoots ==
  ASSUME CollisionFree, ChainInv, HeightInv, RootInv, NEW b \in Block, Overtake(b)
  PROVE  RootInv'
<1> DEFINE length == active_chain_length
           fork == PathTo(block_records', BlockHash[b], length + 1)
<1>1. /\ block_records' = ForkRecords(b) /\ status = "idle" /\ handler = "idle"
      /\ handler' = "taking over" /\ block' = b /\ status' # "dead"
      /\ UNCHANGED <<active_chain_last_block, active_chain_length, takeovers>>
      /\ ~UndoIsFatal(UndoBlocks(b))
  BY DEF Overtake, Overtakes, OffTip, OnTip, Delivered, store_block, tipVars
<1>2. PICK p : /\ Rooted(block_records, p, get_last_block_hash, length)
               /\ takeovers = 1 => Unlisted(block_records, p, length)
  BY <1>1 DEF RootInv
<1>3. /\ Rooted(block_records', p, get_last_block_hash, length)
      /\ Unlisted(block_records, p, length) => Unlisted(block_records', p, length)
  BY <1>1, <1>2, ForkKeepsPath
<1>4. takeovers = 0
  <2> SUFFICES ASSUME Unlisted(block_records', p, length) PROVE FALSE
    BY <1>2, <1>3 DEF RootInv
  <2>1. PICK i \in 2 .. length : block_records'[p[i]].undo = 0
    BY DEF Unlisted
  <2> DEFINE k == length + 1 - i
             undo(x) == IF x \in DOMAIN block_records' THEN block_records'[x].undo ELSE 0
  <2>2. length \in Nat \ {0} /\ k \in 1 .. length - 1 /\ length + 1 - k = i
        /\ i \in 1 .. length
    BY <2>1, HeightNumbers
  <2>3. UndoBlocks(b) = [j \in 1 .. length - 1 |->
          undo(PathTo(block_records', get_last_block_hash, length)[length + 1 - j])]
    BY <1>1 DEF UndoBlocks
  <2>4. PathTo(block_records', get_last_block_hash, length)[i] = p[i]
    BY <1>3, <2>2, RootedIsPath
  <2>5. UndoBlocks(b)[k] = undo(p[i])
    BY <2>2, <2>3, <2>4
  <2>6. undo(p[i]) = 0
    BY <2>1
  <2>7. Len(UndoBlocks(b)) = length - 1
    BY <2>2, <2>3
  <2> QED BY <1>1, <2>2, <2>5, <2>6, <2>7 DEF UndoIsFatal
<1>5. ChainInv' /\ HeightsBelowParents'
  <2>1. [ChainNext]_vars
    BY DEF ChainNext, handle_block
  <2> QED BY <2>1, ChainStep_Inv, StepRaises
<1>6. ForkHeight(b) = length + 1 /\ HeightIn(block_records', BlockHash[b]) = length + 1
      /\ length + 1 \in Nat \ {0}
  <2>1. HeightIn(block_records', BlockHash[b]) = length + 1
    <3>1. LengthToBe' = length + 1
      BY <1>1 DEF LengthToBe
    <3> QED BY <1>1, <1>5, <3>1 DEF ChainInv, HeightsWithinLength
  <2>2. HeightIn(block_records', BlockHash[b]) = ForkHeight(b)
    BY <1>1 DEF HeightIn, ForkRecords, WithRecord, RecordOf
  <2> QED BY <2>1, <2>2, HeightNumbers
<1>7. fork[1] = BlockHash[Genesis]
  BY <1>2, <1>6, ForkMeetsGenesis
<1>8. HeightIn(block_records', fork[1]) = 1
  <2>1. p[1] = fork[1] /\ 1 \in 1 .. length
    BY <1>3, <1>7, HeightNumbers DEF Rooted
  <2> QED BY <1>3, <2>1 DEF Rooted, HeightIn
<1>9. Rooted(block_records', fork, BlockHash[b], length + 1)
  BY <1>1, <1>5, <1>6, <1>7, <1>8, FullHeight
<1>10. block_records'[BlockHash[b]].undo = 0
  BY <1>1 DEF ForkRecords, WithRecord, RecordOf
<1>11. get_last_block_hash' = get_last_block_hash
  BY <1>1 DEF get_last_block_hash
<1> HIDE DEF fork
<1>12. /\ handler' = "taking over" /\ takeovers' = 0
       /\ block' = b /\ active_chain_length' = length
  BY <1>1, <1>4
<1> HIDE DEF length
<1>13. /\ Rooted(block_records', p, get_last_block_hash', active_chain_length')
       /\ takeovers' = 1 => Unlisted(block_records', p, active_chain_length')
  <2>1. Rooted(block_records', p, get_last_block_hash', active_chain_length')
        = Rooted(block_records', p, get_last_block_hash, length)
    BY <1>11, <1>12, Zenon
  <2>2. takeovers' # 1
    <3>1. 0 # 1
      OBVIOUS
    <3> QED BY <1>12, <3>1, Zenon
  <2> QED BY <1>3, <2>1, <2>2, Zenon
<1>14. Rooted(block_records', fork, BlockHash[block'], active_chain_length' + 1)
       /\ block_records'[BlockHash[block']].undo = 0
  BY <1>9, <1>10, <1>12
<1> QED BY <1>12, <1>13, <1>14 DEF RootInv

\* A block that extends the chain is not on it yet.
LEMMA ExtendPath ==
  ASSUME CollisionFree, ChainInv, HeightInv, Extend,
         NEW p, Rooted(block_records, p, get_last_block_hash, active_chain_length)
  PROVE  \E q : /\ Rooted(block_records', q, BlockHash[block], active_chain_length + 1)
                /\ \A i \in 1 .. active_chain_length :
                     q[i] = p[i] /\ block_records'[p[i]] = block_records[p[i]]
                /\ q[active_chain_length + 1] = BlockHash[block]
                /\ block_records'[BlockHash[block]].block = block
<1> DEFINE length == active_chain_length
           new == BlockHash[block]
<1>1. block \in Block /\ BlockPrev[block] = get_last_block_hash
  BY DEF Extend, ChainInv, ChainTypeOK, HeightInv
<1>2. /\ DOMAIN block_records' = DOMAIN block_records \cup {new}
      /\ block_records'[new].height = length + 1
      /\ block_records'[new].prev = get_last_block_hash
      /\ block_records'[new].block = block
      /\ \A h \in DOMAIN block_records : h # new => block_records'[h] = block_records[h]
  BY <1>1 DEF Extend, WithRecord, RecordOf
<1>4. /\ length \in Nat \ {0} /\ DOMAIN p = 1 .. length
      /\ p[1] = BlockHash[Genesis] /\ p[length] = get_last_block_hash
      /\ \A i \in 1 .. length :
           p[i] \in DOMAIN block_records /\ block_records[p[i]].height = i
      /\ \A i \in 1 .. length - 1 : p[i] = block_records[p[i + 1]].prev
  BY DEF Rooted
<1>5. ASSUME NEW i \in 1 .. length
      PROVE  p[i] # new
  <2> SUFFICES ASSUME p[i] = new PROVE FALSE
    OBVIOUS
  <2>1. ForkHeight(block) = i
    BY <1>1, ForkOnPath
  <2>2. HeightIn(block_records, get_last_block_hash) = length
    <3>1. length \in 1 .. length
      BY <1>4
    <3> QED BY <1>4, <3>1, HeightNumbers
  <2> QED BY <1>1, <1>4, <2>1, <2>2 DEF ForkHeight
<1>6. \A i \in 1 .. length :
        p[i] \in DOMAIN block_records' /\ block_records'[p[i]] = block_records[p[i]]
  BY <1>2, <1>4, <1>5
<1> DEFINE q == [i \in 1 .. length + 1 |-> IF i = length + 1 THEN new ELSE p[i]]
<1>7. /\ DOMAIN q = 1 .. length + 1 /\ q[length + 1] = new
      /\ \A i \in 1 .. length : q[i] = p[i]
  BY <1>4
<1> HIDE DEF q, new
<1>8. q[1] = BlockHash[Genesis]
  BY <1>4, <1>7
<1>9. ASSUME NEW i \in 1 .. length + 1
      PROVE  q[i] \in DOMAIN block_records' /\ block_records'[q[i]].height = i
  <2>1. CASE i = length + 1
    BY <1>2, <1>7, <2>1
  <2>2. CASE i # length + 1
    <3>1. i \in 1 .. length
      BY <1>4, <2>2
    <3> QED BY <1>4, <1>6, <1>7, <3>1
  <2> QED BY <2>1, <2>2
<1>10. ASSUME NEW i \in 1 .. length
       PROVE  q[i] = block_records'[q[i + 1]].prev
  <2>1. CASE i = length
    BY <1>2, <1>4, <1>7, <2>1
  <2>2. CASE i # length
    <3>1. i \in 1 .. length - 1 /\ i + 1 \in 1 .. length
      BY <1>4, <2>2
    <3> QED BY <1>4, <1>6, <1>7, <3>1
  <2> QED BY <2>1, <2>2
<1>11. Rooted(block_records', q, new, length + 1)
  <2>1. length + 1 \in Nat \ {0} /\ (length + 1) - 1 = length
    BY <1>4
  <2> QED BY <1>7, <1>8, <1>9, <1>10, <2>1 DEF Rooted
<1> QED BY <1>2, <1>6, <1>7, <1>11, Zenon DEF new

LEMMA ExtendRoots ==
  ASSUME CollisionFree, ChainInv, HeightInv, RootInv, Extend
  PROVE  RootInv'
<1> DEFINE length == active_chain_length
<1>1. /\ handler = "extending" /\ handler' = "idle" /\ takeovers' = takeovers
      /\ active_chain_length' = length + 1 /\ active_chain_last_block' = block
      /\ length \in Nat \ {0}
  BY DEF Extend, ChainInv, ChainTypeOK
<1>2. PICK p : /\ Rooted(block_records, p, get_last_block_hash, length)
               /\ takeovers = 1 => Unlisted(block_records, p, length)
  BY <1>1 DEF RootInv
<1>3. PICK q : /\ Rooted(block_records', q, BlockHash[block], length + 1)
               /\ \A i \in 1 .. length :
                    q[i] = p[i] /\ block_records'[p[i]] = block_records[p[i]]
  BY <1>2, ExtendPath
<1>4. Unlisted(block_records, p, length) => Unlisted(block_records', q, length + 1)
  <2> SUFFICES ASSUME NEW i \in 2 .. length, block_records[p[i]].undo = 0
               PROVE  Unlisted(block_records', q, length + 1)
    BY DEF Unlisted
  <2>1. i \in 1 .. length /\ i \in 2 .. length + 1
    BY <1>1
  <2>2. block_records'[q[i]].undo = 0
    BY <1>3, <2>1
  <2> QED BY <2>1, <2>2 DEF Unlisted
<1>5. get_last_block_hash' = BlockHash[block]
  BY <1>1 DEF get_last_block_hash
<1> QED BY <1>1, <1>2, <1>3, <1>4, <1>5 DEF RootInv

\* The takeover makes the fork the active chain; its last block is unlisted.
LEMMA TakeOverRoots ==
  ASSUME ChainInv, RootInv, TakeOver
  PROVE  RootInv'
<1> DEFINE length == active_chain_length
<1>1. /\ handler = "taking over" /\ handler' = "idle"
      /\ active_chain_length' = length + 1 /\ active_chain_last_block' = block
      /\ takeovers' = takeovers + 1 /\ block_records' = block_records
  BY DEF TakeOver
<1>2. takeovers = 0 /\ block_records[BlockHash[block]].undo = 0
  BY <1>1 DEF RootInv
<1>3. PICK p : Rooted(block_records, p, BlockHash[block], length + 1)
  BY <1>1 DEF RootInv
<1>4. Unlisted(block_records, p, length + 1)
  <2>1. length + 1 \in 2 .. length + 1
    BY HeightNumbers
  <2>2. p[length + 1] = BlockHash[block]
    BY <1>3 DEF Rooted
  <2> QED BY <1>2, <2>1, <2>2 DEF Unlisted
<1>5. get_last_block_hash' = BlockHash[block]
  BY <1>1 DEF get_last_block_hash
<1>6. takeovers' = 1
  <2>1. takeovers' = 0 + 1
    BY <1>1, <1>2, Zenon
  <2> QED BY <2>1
<1>7. /\ Rooted(block_records', p, get_last_block_hash', active_chain_length')
      /\ Unlisted(block_records', p, active_chain_length')
  BY <1>1, <1>3, <1>4, <1>5
<1>8. handler' = "idle"
  BY <1>1
<1> HIDE DEF length
<1> QED BY <1>6, <1>7, <1>8 DEF RootInv

\* The constructor's chain is the genesis block alone.
LEMMA ConstructRoots ==
  ASSUME ChainInv, RootInv, Construct
  PROVE  RootInv'
<1> DEFINE p == [i \in 1 .. 1 |-> BlockHash[Genesis]]
<1>1. /\ handler = "constructing" /\ handler' = "genesis"
      /\ active_chain_length' = 1 /\ active_chain_last_block' = Genesis
      /\ takeovers' = 0
      /\ BlockHash[Genesis] \in DOMAIN block_records'
      /\ block_records'[BlockHash[Genesis]].height = 1
  BY DEF Construct, ChainInv, RootInv, tipVars, WithRecord, RecordOf
<1>2. Rooted(block_records', p, BlockHash[Genesis], 1)
  BY <1>1 DEF Rooted
<1>3. get_last_block_hash' = BlockHash[Genesis]
  BY <1>1 DEF get_last_block_hash
<1> HIDE DEF p
<1> QED BY <1>1, <1>2, <1>3 DEF RootInv

\* Every other step leaves the path alone.
LEMMA RootStep ==
  ASSUME CollisionFree, ChainInv, HeightInv, RootInv, [ChainNext]_vars
  PROVE  RootInv'
<1>1. ASSUME UNCHANGED <<active_chain_last_block, active_chain_length, block, takeovers,
                         block_records>>,
             UNCHANGED handler \/ (handler = "genesis" /\ handler' = "idle")
                 \/ (handler = "idle" /\ handler' = "extending")
      PROVE  RootInv'
  <2>1. get_last_block_hash' = get_last_block_hash
    BY <1>1 DEF get_last_block_hash
  <2> QED BY <1>1, <2>1 DEF RootInv
<1>2. CASE (Walk /\ UNCHANGED chainVars) \/ Constructed \/ ExtendDies \/ UNCHANGED vars
  BY <1>1, <1>2 DEF Constructed, ExtendDies, vars, chainVars, tipVars
<1>3. ASSUME NEW b \in Block, handle_block(b), ~Overtake(b)
      PROVE  RootInv'
  <2>1. /\ handler = "idle" /\ handler' \in {"idle", "extending"}
        /\ UNCHANGED <<active_chain_last_block, active_chain_length, takeovers>>
        /\ UNCHANGED block_records \/ block_records' = ForkRecords(b)
    BY <1>3 DEF handle_block, HandleInvalid, HandleOnTip, HandleFork, OvertakeDies,
                Overtakes, OffTip, Delivered, chainVars, tipVars
  <2>2. get_last_block_hash' = get_last_block_hash
    BY <2>1 DEF get_last_block_hash
  <2>3. PICK p : /\ Rooted(block_records, p, get_last_block_hash, active_chain_length)
                 /\ takeovers = 1 => Unlisted(block_records, p, active_chain_length)
    BY <2>1 DEF RootInv
  <2>4. /\ Rooted(block_records', p, get_last_block_hash, active_chain_length)
        /\ takeovers = 1 => Unlisted(block_records', p, active_chain_length)
    <3>1. CASE UNCHANGED block_records
      BY <2>3, <3>1
    <3>2. CASE block_records' = ForkRecords(b)
      BY <2>3, <3>2, ForkKeepsPath
    <3> QED BY <2>1, <3>1, <3>2
  <2> QED BY <2>1, <2>2, <2>4 DEF RootInv
<1>4. ASSUME NEW t \in Transaction, handle_transaction(t)
      PROVE  RootInv'
  BY <1>1, <1>4 DEF handle_transaction, chainVars, tipVars
<1> QED BY <1>2, <1>3, <1>4, OvertakeRoots, ExtendRoots, TakeOverRoots, ConstructRoots
        DEF ChainNext, Continue

\* Before the constructor returns nothing is promised.
LEMMA RootStart == ASSUME ChainInit PROVE RootInv
BY DEF ChainInit, RootInv

\* In every reachable state there is such a path, and no second takeover.
LEMMA RootInvariant == ASSUME CollisionFree PROVE ChainSpec => []RootInv
<1>1. ChainInit => RootInv
  BY RootStart
<1>2. ChainInv /\ HeightInv /\ RootInv /\ [ChainNext]_vars => RootInv'
  BY RootStep
<1> QED BY <1>1, <1>2, ChainInvariant, HeightInvariant, PTL DEF ChainSpec

\* Chain::get_active_chain_hashes walks back from the tip to the genesis block,
\* through blocks whose recorded heights are their positions: a fork is never
\* left hanging in the air, whatever order its blocks came in.
THEOREM ChainRooted == ASSUME CollisionFree PROVE ChainSpec => []ActiveChainRooted
<1>1. ASSUME RootInv PROVE ActiveChainRooted
  <2> SUFFICES ASSUME handler # "constructing"
               PROVE  /\ get_active_chain_hashes[1] = BlockHash[Genesis]
                      /\ \A i \in 1 .. active_chain_length :
                           HeightIn(block_records, get_active_chain_hashes[i]) = i
    BY DEF ActiveChainRooted
  <2>1. PICK p : Rooted(block_records, p, get_last_block_hash, active_chain_length)
    BY <1>1 DEF RootInv
  <2>2. active_chain_length \in Nat \ {0}
        /\ \A i \in 1 .. active_chain_length : get_active_chain_hashes[i] = p[i]
    BY <2>1, RootedIsPath DEF get_active_chain_hashes
  <2>3. \A i \in 1 .. active_chain_length : HeightIn(block_records, p[i]) = i
    BY <2>1 DEF Rooted, HeightIn
  <2>4. 1 \in 1 .. active_chain_length /\ p[1] = BlockHash[Genesis]
    BY <2>1, <2>2 DEF Rooted
  <2> QED BY <2>2, <2>3, <2>4
<1>2. RootInv => ActiveChainRooted
  BY <1>1
<1> QED BY <1>2, RootInvariant, PTL

\* Chain::handle_block lets a fork take over once: it records the new tip without
\* an undo block, and the next fork that overtakes reads that one through a null
\* pointer in its walk to the common ancestor.
THEOREM OneTakeover == ASSUME CollisionFree PROVE ChainSpec => []AtMostOneTakeover
<1>1. RootInv => takeovers \in {0, 1}
  BY DEF RootInv
<1>2. takeovers \in {0, 1} => AtMostOneTakeover
  BY DEF AtMostOneTakeover
<1> QED BY <1>1, <1>2, RootInvariant, PTL

-----------------------------------------------------------------------------
(* What the modules above this one use. *)

\* What the invariants of the chain say together.
PathInv == ChainInv /\ HeightInv /\ RootInv

LEMMA NoCollisions == BlocksDistinct => CollisionFree
BY DEF BlocksDistinct, CollisionFree

LEMMA PathStep ==
  ASSUME BlocksDistinct, PathInv, [ChainNext]_vars
  PROVE  PathInv'
<1>1. ChainInv' /\ HeightInv'
  BY NoCollisions, ChainStep_Inv, HeightStep DEF PathInv
<1>2. RootInv'
  BY NoCollisions, RootStep DEF PathInv
<1> QED BY <1>1, <1>2 DEF PathInv

\* A record's block is one with the hash it is filed under.
LEMMA PathBlocks ==
  ASSUME ChainInv, NEW p, NEW h, NEW n, Rooted(block_records, p, h, n), NEW i \in 1 .. n
  PROVE  block_records[p[i]].block \in Block /\ BlockHash[block_records[p[i]].block] = p[i]
<1>1. p[i] \in DOMAIN block_records
  BY DEF Rooted
<1> QED BY <1>1, RecordsType DEF ChainInv, RecordsOwn, BlockRecord

-----------------------------------------------------------------------------
(***************************************************************************)
(* The coin database follows the active chain until a fork takes over: for *)
(* every chain whose blocks are sound and whose hashes are distinct.       *)
(*                                                                         *)
(* While blocks are stored the database's own invariant, OnceInv, holds.   *)
(* Beside it, every coin that a transaction of the chain makes has been    *)
(* added or has yet to be in the walk under way, and no other coin; the    *)
(* same of spending.  Between walks nothing is pending, and the copies     *)
(* that are left are the coins made and not spent.                         *)
(***************************************************************************)
\* t makes the coin c.
Makes(t, c) == c[1] = TxHash[t] /\ c[2] < TxOutputs[t]

\* The transactions of the active chain, and of the block that is joining it.
Listed(b) == {BlockTxs[b][k] : k \in 1 .. Len(BlockTxs[b])}
Joined ==
  IF handler = "extending" THEN ActiveTransactions \cup Listed(block)
  ELSE ActiveTransactions

\* The coins that the walk has still to add and to spend.
ToAdd(c) ==
  /\ status = "storing"
  /\ \E k \in 1 .. Len(transactions) : Makes(transactions[k], c) /\ PendingOutput(k, c[2])
ToSpend(c) ==
  /\ status = "storing"
  /\ \E p \in InputPositions(transactions) :
       PendingInput(p) /\ InputAt(transactions, p) = c

\* Every coin has been added, or will be before store_block returns, if and only
\* if a transaction of the chain makes it; the same of spending.
Accounted ==
  \A c \in Locator :
    /\ created[c] > 0 \/ ToAdd(c) <=> \E t \in Joined : Makes(t, c)
    /\ spent[c] > 0 \/ ToSpend(c) <=> \E t \in Joined : Names(t, c)

MempoolApart == \A t \in Joined : TxInputs[t] # <<>> => TxHash[t] \notin mempool_cache

Follows ==
  /\ OnceInv
  /\ handler = "constructing" =>
       status = "idle" /\ \A c \in Locator : created[c] = 0 /\ spent[c] = 0
  /\ handler # "constructing" => Accounted /\ MempoolApart

LedgerInv == takeovers = 0 /\ handler # "taking over" /\ status # "dead" => Follows

-----------------------------------------------------------------------------
(* The blocks of the active chain. *)

LEMMA ActivePath ==
  ASSUME NEW p, Rooted(block_records, p, get_last_block_hash, active_chain_length)
  PROVE  ActiveBlocks = {block_records[p[i]].block : i \in 1 .. active_chain_length}
<1>1. \A i \in 1 .. active_chain_length : get_active_chain_hashes[i] = p[i]
  BY RootedIsPath DEF get_active_chain_hashes
<1> QED BY <1>1 DEF ActiveBlocks

LEMMA ActiveBlocksType ==
  ASSUME PathInv, handler # "constructing"
  PROVE  ActiveBlocks \subseteq Block /\ ActiveTransactions \subseteq Transaction
<1>1. PICK p : Rooted(block_records, p, get_last_block_hash, active_chain_length)
  BY DEF PathInv, RootInv
<1>2. ActiveBlocks \subseteq Block
  BY <1>1, ActivePath, PathBlocks DEF PathInv
<1>3. \A b \in Block : \A k \in 1 .. Len(BlockTxs[b]) : BlockTxs[b][k] \in Transaction
  BY BlockAssumption
<1> QED BY <1>2, <1>3 DEF ActiveTransactions

\* Recording a fork leaves the blocks of the active chain alone.
LEMMA ForkKeepsBlocks ==
  ASSUME BlocksDistinct, PathInv, ChainInv', handler # "constructing",
         NEW b \in Block, block_records' = ForkRecords(b), UNCHANGED tipVars
  PROVE  ActiveBlocks' = ActiveBlocks
<1>1. PICK p : Rooted(block_records, p, get_last_block_hash, active_chain_length)
  BY DEF PathInv, RootInv
<1>2. Rooted(block_records', p, get_last_block_hash, active_chain_length)
  BY <1>1, NoCollisions, ForkKeepsPath DEF PathInv
<1>3. get_last_block_hash' = get_last_block_hash /\ active_chain_length' = active_chain_length
  BY DEF get_last_block_hash, tipVars
<1>4. ActiveBlocks' = {block_records'[p[i]].block : i \in 1 .. active_chain_length}
  <2>1. \A i \in 1 .. active_chain_length : get_active_chain_hashes'[i] = p[i]
    <3>1. get_active_chain_hashes' =
            PathTo(block_records', get_last_block_hash, active_chain_length)
      BY <1>3 DEF get_active_chain_hashes
    <3> QED BY <1>2, <3>1, RootedIsPath
  <2> QED BY <1>3, <2>1 DEF ActiveBlocks
<1>5. ASSUME NEW i \in 1 .. active_chain_length
      PROVE  block_records'[p[i]].block = block_records[p[i]].block
  <2>1. /\ block_records[p[i]].block \in Block
        /\ BlockHash[block_records[p[i]].block] = p[i] /\ p[i] \in DOMAIN block_records
    <3>1. p[i] \in DOMAIN block_records
      BY <1>1 DEF Rooted
    <3> QED BY <1>1, <3>1, PathBlocks DEF PathInv
  <2>2. block_records'[p[i]] = IF p[i] = BlockHash[b] THEN RecordOf(b, ForkHeight(b), 0)
                               ELSE block_records[p[i]]
    BY <2>1 DEF ForkRecords, WithRecord
  <2> QED BY <2>1, <2>2 DEF BlocksDistinct, RecordOf
<1> QED BY <1>1, <1>4, <1>5, ActivePath

\* Extending the chain adds the block.
LEMMA ExtendAddsBlock ==
  ASSUME BlocksDistinct, PathInv, Extend
  PROVE  ActiveBlocks' = ActiveBlocks \cup {block}
<1> DEFINE length == active_chain_length
<1>1. PICK p : Rooted(block_records, p, get_last_block_hash, length)
  BY DEF PathInv, RootInv, Extend
<1>2. PICK q : /\ Rooted(block_records', q, BlockHash[block], length + 1)
               /\ \A i \in 1 .. length :
                    q[i] = p[i] /\ block_records'[p[i]] = block_records[p[i]]
               /\ q[length + 1] = BlockHash[block]
               /\ block_records'[BlockHash[block]].block = block
  BY <1>1, NoCollisions, ExtendPath DEF PathInv
<1>3. get_last_block_hash' = BlockHash[block] /\ active_chain_length' = length + 1
  BY DEF get_last_block_hash, Extend
<1>4. ActiveBlocks' = {block_records'[q[i]].block : i \in 1 .. length + 1}
  <2>1. \A i \in 1 .. length + 1 : get_active_chain_hashes'[i] = q[i]
    <3>1. get_active_chain_hashes' = PathTo(block_records', BlockHash[block], length + 1)
      BY <1>3 DEF get_active_chain_hashes
    <3> QED BY <1>2, <3>1, RootedIsPath
  <2> QED BY <1>3, <2>1 DEF ActiveBlocks
<1>5. length \in Nat \ {0}
  BY <1>1 DEF Rooted
<1> HIDE DEF length
<1>6. 1 .. length + 1 = (1 .. length) \cup {length + 1}
  BY <1>5
<1>7. \A i \in 1 .. length : block_records'[q[i]].block = block_records[p[i]].block
  BY <1>2
<1>8. ActiveBlocks = {block_records[p[i]].block : i \in 1 .. length}
  BY <1>1, ActivePath DEF length
<1> QED BY <1>2, <1>4, <1>6, <1>7, <1>8

\* The constructor's chain is the genesis block.
LEMMA ConstructBlocks ==
  ASSUME PathInv, Construct, RootInv', ChainInv'
  PROVE  ActiveBlocks' = {Genesis}
<1>1. /\ handler' = "genesis" /\ active_chain_length' = 1 /\ active_chain_last_block' = Genesis
      /\ block_records'[BlockHash[Genesis]].block = Genesis
  BY DEF Construct, PathInv, ChainInv, tipVars, WithRecord, RecordOf
<1>2. PICK p : Rooted(block_records', p, BlockHash[Genesis], 1)
  BY <1>1 DEF RootInv, get_last_block_hash
<1>3. get_active_chain_hashes' = PathTo(block_records', BlockHash[Genesis], 1)
  BY <1>1 DEF get_active_chain_hashes, get_last_block_hash
<1>4. \A i \in 1 .. 1 : PathTo(block_records', BlockHash[Genesis], 1)[i] = p[i]
  BY <1>2, RootedIsPath
<1>5. p[1] = BlockHash[Genesis]
  BY <1>2 DEF Rooted
<1>6. get_active_chain_hashes'[1] = BlockHash[Genesis]
  BY <1>3, <1>4, <1>5
<1> QED BY <1>1, <1>6 DEF ActiveBlocks

\* A block whose parent is the tip is not on the chain yet.
LEMMA OnTipIsNew ==
  ASSUME BlocksDistinct, PathInv, handler = "idle", NEW b \in Block, OnTip(b)
  PROVE  b \notin ActiveBlocks
<1> SUFFICES ASSUME b \in ActiveBlocks PROVE FALSE
  OBVIOUS
<1>1. PICK p : Rooted(block_records, p, get_last_block_hash, active_chain_length)
  BY DEF PathInv, RootInv
<1>2. PICK i \in 1 .. active_chain_length : b = block_records[p[i]].block
  BY <1>1, ActivePath
<1>3. ForkHeight(b) = i
  BY <1>1, <1>2, PathBlocks, NoCollisions, ForkOnPath DEF PathInv
<1>4. active_chain_length \in Nat \ {0} /\ active_chain_length \in 1 .. active_chain_length
  BY <1>1 DEF Rooted
<1>5. HeightIn(block_records, get_last_block_hash) = active_chain_length
  BY <1>1, <1>4, HeightNumbers DEF Rooted, PathInv
<1> QED BY <1>3, <1>4, <1>5 DEF ForkHeight, OnTip

-----------------------------------------------------------------------------
(* Walks. *)

Adds(txs, c) == \E k \in 1 .. Len(txs) : Makes(txs[k], c)
Spends(txs, c) == \E k \in 1 .. Len(txs) : Names(txs[k], c)

\* When the walk begins all of the list is pending.
LEMMA AllPending ==
  ASSUME NEW txs \in Seq(Transaction), status' = "storing", transactions' = txs,
         cursor' = Start, NEW c \in Locator
  PROVE  (ToAdd(c)' <=> Adds(txs, c)) /\ (ToSpend(c)' <=> Spends(txs, c))
<1>1. cursor'.tx = 1 /\ cursor'.in = 1 /\ cursor'.count = 0
  BY DEF Start
<1>2. c[2] \in Nat
  BY DEF Locator, Index
<1>3. \A k \in 1 .. Len(txs) : PendingOutput(k, c[2])'
  BY <1>1, <1>2 DEF PendingOutput
<1>4. ToAdd(c)' <=> Adds(txs, c)
  BY <1>3 DEF ToAdd, Adds, Makes
<1>5. \A p \in InputPositions(txs) : PendingInput(p)'
  BY <1>1, PositionType DEF PendingInput
<1>6. ToSpend(c)' <=> \E p \in InputPositions(txs) : InputAt(txs, p) = c
  BY <1>5 DEF ToSpend, InputPositions, InputAt
<1>7. ASSUME NEW p \in InputPositions(txs), InputAt(txs, p) = c
      PROVE  Spends(txs, c)
  BY <1>7, PositionType DEF InputAt, Spends, Names
<1>8. ASSUME NEW k \in 1 .. Len(txs), NEW i \in 1 .. Len(TxInputs[txs[k]]),
             TxInputs[txs[k]][i] = c
      PROVE  \E p \in InputPositions(txs) : InputAt(txs, p) = c
  <2>1. <<k, i>> \in InputPositions(txs)
    BY DEF InputPositions
  <2> QED BY <1>8, <2>1 DEF InputAt
<1>9. (\E p \in InputPositions(txs) : InputAt(txs, p) = c) <=> Spends(txs, c)
  BY <1>7, <1>8 DEF Spends, Names
<1> QED BY <1>4, <1>6, <1>9

LEMMA NothingPending ==
  ASSUME status # "storing", NEW c
  PROVE  ~ToAdd(c) /\ ~ToSpend(c)
BY DEF ToAdd, ToSpend

\* Spending: the input's coin is not to be spent any more but spent.
LEMMA SpendAccounts ==
  ASSUME OnceInv, SpendInput, NEW c \in Locator
  PROVE  /\ created'[c] > 0 \/ ToAdd(c)' <=> created[c] > 0 \/ ToAdd(c)
         /\ spent'[c] > 0 \/ ToSpend(c)' <=> spent[c] > 0 \/ ToSpend(c)
<1> DEFINE here == <<cursor.tx, cursor.in>>
           coin == ThisInput
<1>1. /\ AtInput /\ SpentInput /\ UNCHANGED status /\ status = "storing" /\ CoinTypeOK
  BY SpendTakesOne DEF AtInput, AtTransaction, OnceInv, CoinInv
<1>2. /\ spent' = [spent EXCEPT ![coin] = @ + 1]
      /\ created' = created /\ transactions' = transactions
      /\ cursor' = [cursor EXCEPT !.in = @ + 1]
  BY <1>1 DEF SpentInput
<1>3. /\ cursor'.tx = cursor.tx /\ cursor'.in = cursor.in + 1 /\ cursor'.count = cursor.count
      /\ cursor.tx \in Nat /\ cursor.in \in Nat
      /\ spent \in [Locator -> Nat] /\ transactions \in Seq(Transaction)
  BY <1>1, <1>2 DEF CoinTypeOK
<1>4. ToAdd(c)' <=> ToAdd(c)
  BY <1>1, <1>2, <1>3 DEF ToAdd, PendingOutput
<1>5. /\ here \in InputPositions(transactions) /\ PendingInput(here)
      /\ InputAt(transactions, here) = coin /\ coin \in Locator
  BY <1>1, InputHere, InputStepType
<1>6. ASSUME NEW p \in InputPositions(transactions)
      PROVE  PendingInput(p)' <=> PendingInput(p) /\ p # here
  <2>1. p = <<p[1], p[2]>> /\ p[1] \in Nat /\ p[2] \in Nat
    BY <1>3, PositionType
  <2> QED BY <1>3, <2>1 DEF PendingInput
<1>7. CASE c = coin
  <2>1. spent'[c] = spent[c] + 1 /\ spent[c] \in Nat
    BY <1>2, <1>3, <1>7
  <2>2. ToSpend(c)
    BY <1>1, <1>5, <1>7 DEF ToSpend
  <2> QED BY <1>2, <1>4, <2>1, <2>2
<1>8. CASE c # coin
  <2>1. spent'[c] = spent[c]
    BY <1>2, <1>3, <1>5, <1>8
  <2>2. ToSpend(c)' <=> /\ status = "storing"
                        /\ \E p \in InputPositions(transactions) :
                             PendingInput(p)' /\ InputAt(transactions, p) = c
    BY <1>1, <1>2 DEF ToSpend, InputPositions, InputAt
  <2>3. ToSpend(c)' <=> ToSpend(c)
    BY <1>5, <1>6, <1>8, <2>2 DEF ToSpend
  <2> QED BY <1>2, <1>4, <2>1, <2>3
<1> QED BY <1>7, <1>8

\* Adding: the output is not to be added any more but added.
LEMMA AddAccounts ==
  ASSUME OnceInv, AddOutput, NEW c \in Locator
  PROVE  /\ created'[c] > 0 \/ ToAdd(c)' <=> created[c] > 0 \/ ToAdd(c)
         /\ spent'[c] > 0 \/ ToSpend(c)' <=> spent[c] > 0 \/ ToSpend(c)
<1> DEFINE coin == ThisOutput
<1>1. /\ AtOutput /\ status = "storing" /\ CoinTypeOK
  BY DEF AddOutput, AtOutput, AtTransaction, OnceInv, CoinInv
<1>2. /\ created' = [created EXCEPT ![coin] = @ + 1]
      /\ spent' = spent /\ transactions' = transactions /\ status' = status
      /\ cursor' = [cursor EXCEPT !.count = @ + 1]
  BY DEF AddOutput
<1>3. /\ cursor'.tx = cursor.tx /\ cursor'.in = cursor.in /\ cursor'.count = cursor.count + 1
      /\ cursor.tx \in Nat /\ cursor.count \in Nat
      /\ created \in [Locator -> Nat] /\ transactions \in Seq(Transaction)
  BY <1>1, <1>2 DEF CoinTypeOK
<1>4. /\ cursor.tx \in 1 .. Len(transactions)
      /\ coin = <<TxHash[transactions[cursor.tx]], cursor.count>> /\ coin \in Locator
      /\ cursor.count < TxOutputs[transactions[cursor.tx]]
  BY <1>1, OutputHere DEF AtOutput, Current
<1>5. ToSpend(c)' <=> ToSpend(c)
  BY <1>1, <1>2, <1>3 DEF ToSpend, PendingInput, InputPositions, InputAt
<1>6. c[2] \in Nat /\ c = <<c[1], c[2]>>
  BY DEF Locator, Index
<1> HIDE DEF coin
<1>7. CASE c = coin
  <2>1. created'[c] = created[c] + 1 /\ created[c] \in Nat
    BY <1>2, <1>3, <1>7
  <2>2. Makes(transactions[cursor.tx], c) /\ PendingOutput(cursor.tx, c[2])
    BY <1>3, <1>4, <1>7 DEF Makes, PendingOutput
  <2>3. ToAdd(c)
    BY <1>1, <1>4, <2>2 DEF ToAdd
  <2> QED BY <1>2, <1>5, <2>1, <2>3
<1>8. CASE c # coin
  <2>1. created'[c] = created[c]
    BY <1>2, <1>3, <1>4, <1>8
  <2>2. ASSUME NEW k \in 1 .. Len(transactions), Makes(transactions[k], c)
        PROVE  PendingOutput(k, c[2])' <=> PendingOutput(k, c[2])
    <3>1. ~(k = cursor.tx /\ c[2] = cursor.count)
      BY <1>4, <1>6, <1>8, <2>2 DEF Makes
    <3> QED BY <1>3, <1>6, <3>1 DEF PendingOutput
  <2>3. ToAdd(c)' <=> /\ status = "storing"
                      /\ \E k \in 1 .. Len(transactions) :
                           Makes(transactions[k], c) /\ PendingOutput(k, c[2])'
    BY <1>2 DEF ToAdd, Makes
  <2>4. ToAdd(c)' <=> ToAdd(c)
    BY <2>2, <2>3 DEF ToAdd
  <2> QED BY <1>2, <1>5, <2>1, <2>4
<1> QED BY <1>7, <1>8

\* Going on to the next transaction leaves nothing of this one behind.
LEMMA NextAccounts ==
  ASSUME OnceInv, NextTransaction, NEW c \in Locator
  PROVE  /\ created'[c] > 0 \/ ToAdd(c)' <=> created[c] > 0 \/ ToAdd(c)
         /\ spent'[c] > 0 \/ ToSpend(c)' <=> spent[c] > 0 \/ ToSpend(c)
<1>1. /\ UNCHANGED <<created, spent, status, transactions>>
      /\ cursor' = [Start EXCEPT !.tx = cursor.tx + 1] /\ CoinTypeOK
      /\ cursor.in > Len(TxInputs[Current]) /\ cursor.count >= TxOutputs[Current]
      /\ AtTransaction
  BY DEF NextTransaction, historyVars, OnceInv, CoinInv
<1>2. /\ cursor'.tx = cursor.tx + 1 /\ cursor'.in = 1 /\ cursor'.count = 0
      /\ cursor.tx \in Nat /\ cursor.in \in Nat /\ cursor.count \in Nat
      /\ transactions \in Seq(Transaction)
  BY <1>1 DEF CoinTypeOK, Start
<1>3. c[2] \in Nat
  BY DEF Locator, Index
<1>4. cursor.tx \in 1 .. Len(transactions) /\ Current = transactions[cursor.tx]
      /\ Current \in Transaction
  BY <1>1, <1>2 DEF AtTransaction, Current, CoinTypeOK
<1>5. TxOutputs[Current] \in Nat /\ Len(TxInputs[Current]) \in Nat
  BY <1>4, TransactionAssumption
<1>6. ASSUME NEW k \in 1 .. Len(transactions), Makes(transactions[k], c)
      PROVE  PendingOutput(k, c[2])' <=> PendingOutput(k, c[2])
  <2>1. ~(k = cursor.tx /\ c[2] >= cursor.count)
    BY <1>1, <1>2, <1>3, <1>4, <1>5, <1>6 DEF Makes
  <2> QED BY <1>2, <1>3, <2>1 DEF PendingOutput
<1>7. ToAdd(c)' <=> /\ status = "storing"
                    /\ \E k \in 1 .. Len(transactions) :
                         Makes(transactions[k], c) /\ PendingOutput(k, c[2])'
  BY <1>1 DEF ToAdd, Makes
<1>8. ASSUME NEW p \in InputPositions(transactions)
      PROVE  PendingInput(p)' <=> PendingInput(p)
  <2>1. p[1] \in Nat /\ p[2] \in Nat /\ p[2] >= 1 /\ p[2] <= Len(TxInputs[transactions[p[1]]])
    BY <1>2, PositionType
  <2>2. ~(p[1] = cursor.tx /\ p[2] >= cursor.in)
    BY <1>1, <1>2, <1>4, <1>5, <2>1
  <2> QED BY <1>2, <2>1, <2>2 DEF PendingInput
<1>9. ToSpend(c)' <=> /\ status = "storing"
                      /\ \E p \in InputPositions(transactions) :
                           PendingInput(p)' /\ InputAt(transactions, p) = c
  BY <1>1 DEF ToSpend, InputPositions, InputAt
<1>10. ToAdd(c)' <=> ToAdd(c)
  BY <1>6, <1>7 DEF ToAdd
<1>11. ToSpend(c)' <=> ToSpend(c)
  BY <1>8, <1>9 DEF ToSpend
<1> QED BY <1>1, <1>10, <1>11

\* The walk returns when nothing is pending.
LEMMA ReturnAccounts ==
  ASSUME OnceInv, Return, NEW c \in Locator
  PROVE  /\ created'[c] > 0 \/ ToAdd(c)' <=> created[c] > 0 \/ ToAdd(c)
         /\ spent'[c] > 0 \/ ToSpend(c)' <=> spent[c] > 0 \/ ToSpend(c)
<1>1. /\ UNCHANGED <<created, spent>> /\ status' = "idle" /\ cursor.tx > Len(transactions)
      /\ cursor.tx \in Nat /\ transactions \in Seq(Transaction)
  BY DEF Return, historyVars, OnceInv, CoinInv, CoinTypeOK
<1>2. ~ToAdd(c)' /\ ~ToSpend(c)'
  BY <1>1 DEF ToAdd, ToSpend
<1>3. \A k \in 1 .. Len(transactions) : ~PendingOutput(k, c[2])
  BY <1>1 DEF PendingOutput
<1>4. \A p \in InputPositions(transactions) : ~PendingInput(p)
  <2> TAKE p \in InputPositions(transactions)
  <2>1. p[1] \in Nat /\ p[1] <= Len(transactions) /\ Len(transactions) \in Nat
    BY <1>1, PositionType
  <2> QED BY <1>1, <2>1 DEF PendingInput
<1> QED BY <1>1, <1>2, <1>3, <1>4 DEF ToAdd, ToSpend

LEMMA WalkAccounts ==
  ASSUME OnceInv, Walk, NEW c \in Locator
  PROVE  /\ created'[c] > 0 \/ ToAdd(c)' <=> created[c] > 0 \/ ToAdd(c)
         /\ spent'[c] > 0 \/ ToSpend(c)' <=> spent[c] > 0 \/ ToSpend(c)
BY SpendAccounts, AddAccounts, NextAccounts, ReturnAccounts DEF Walk

-----------------------------------------------------------------------------
(* Careful callers. *)

LEMMA JoinedType ==
  ASSUME PathInv, handler # "constructing"
  PROVE  Joined \subseteq Transaction
<1>1. block \in Block
  BY DEF PathInv, ChainInv, ChainTypeOK
<1>2. Listed(block) \subseteq Transaction
  BY <1>1, BlockAssumption DEF Listed
<1> QED BY <1>2, ActiveBlocksType DEF Joined

\* Between walks a coin that a transaction of the chain names is gone.
LEMMA NamedIsGone ==
  ASSUME OnceInv, Accounted, status # "storing", NEW t \in Joined, NEW c \in Locator,
         Names(t, c)
  PROVE  ~Available(c)
<1>1. spent[c] > 0
  BY NothingPending DEF Accounted
<1>2. /\ Copies(c) = created[c] - spent[c] /\ created[c] <= 1
      /\ created[c] \in Nat /\ spent[c] \in Nat
  BY DEF OnceInv, CreatedOnce, CoinInv, CoinTypeOK
<1> QED BY <1>1, <1>2, AvailableIsThere DEF OnceInv, CoinInv

\* A transaction with inputs that validates has not joined the chain.
LEMMA ValidHasNotJoined ==
  ASSUME OnceInv, Accounted, status # "storing", NEW txs \in Seq(Transaction),
         validate_block(txs), NEW k \in 1 .. Len(txs), TxInputs[txs[k]] # <<>>
  PROVE  txs[k] \notin Joined
<1> DEFINE t == txs[k]
           c == TxInputs[t][1]
<1>1. t \in Transaction /\ TxInputs[t] \in Seq(Locator)
  BY TransactionAssumption
<1>2. 1 \in 1 .. Len(TxInputs[t]) /\ c \in Locator
  BY <1>1
<1>3. <<k, 1>> \in InputPositions(txs) /\ InputAt(txs, <<k, 1>>) = c
  BY <1>2 DEF InputPositions, InputAt
<1>4. Available(c)
  BY <1>3 DEF validate_block
<1>5. Names(t, c)
  BY <1>2 DEF Names
<1> HIDE DEF c, t
<1>6. t \notin Joined
  BY <1>2, <1>4, <1>5, NamedIsGone
<1> QED BY <1>6 DEF t

\* A sound block's transactions are different and so are their hashes.
LEMMA SoundDistinct ==
  ASSUME HashesDistinct, SoundBlocks, NEW b \in Block,
         NEW k \in 1 .. Len(BlockTxs[b]), NEW l \in 1 .. Len(BlockTxs[b]),
         TxHash[BlockTxs[b][k]] = TxHash[BlockTxs[b][l]]
  PROVE  k = l
<1> DEFINE txs == BlockTxs[b]
<1>1. txs \in Seq(Transaction) /\ txs[k] \in Transaction /\ txs[l] \in Transaction
  BY BlockAssumption
<1>2. txs[k] = txs[l]
  BY <1>1 DEF HashesDistinct
<1>3. CASE TxInputs[txs[k]] = <<>>
  <2>1. DOMAIN txs = 1 .. Len(txs)
    BY <1>1
  <2> QED BY <1>2, <1>3, <2>1 DEF SoundBlocks
<1>4. CASE TxInputs[txs[k]] # <<>>
  <2>1. TxInputs[txs[k]] \in Seq(Locator)
    BY <1>1, TransactionAssumption
  <2>2. 1 \in 1 .. Len(TxInputs[txs[k]]) /\ 1 \in 1 .. Len(TxInputs[txs[l]])
    BY <1>2, <1>4, <2>1
  <2>3. <<k, 1>> \in InputPositions(txs) /\ <<l, 1>> \in InputPositions(txs)
    BY <2>2 DEF InputPositions
  <2>4. InputAt(txs, <<k, 1>>) = InputAt(txs, <<l, 1>>)
    BY <1>2 DEF InputAt
  <2>5. <<k, 1>> = <<l, 1>>
    BY <2>3, <2>4 DEF SoundBlocks, DistinctInputs
  <2> QED BY <2>5
<1> QED BY <1>3, <1>4

LEMMA SoundFits ==
  ASSUME SoundBlocks, NEW b \in Block, NEW k \in 1 .. Len(BlockTxs[b])
  PROVE  TxOutputs[BlockTxs[b][k]] <= IndexRange
<1>1. DOMAIN BlockTxs[b] = 1 .. Len(BlockTxs[b])
  BY BlockAssumption
<1> QED BY <1>1 DEF SoundBlocks

\* handle_block is careful: the block it stores on the tip makes new coins only.
LEMMA TipBlockIsCareful ==
  ASSUME HashesDistinct, SoundBlocks, PathInv, OnceInv, Accounted, AtRest,
         NEW b \in Block, OnTip(b), validate_block(BlockTxs[b])
  PROVE  Careful(BlockTxs[b])
<1> DEFINE txs == BlockTxs[b]
<1>1. txs \in Seq(Transaction) /\ DistinctInputs(txs)
  BY BlockAssumption DEF SoundBlocks
<1>2. handler = "idle" /\ status = "idle" /\ Joined = ActiveTransactions
  BY DEF AtRest, Joined
<1>3. ASSUME NEW k \in 1 .. Len(txs)
      PROVE  txs[k] \notin Joined
  <2>1. CASE TxInputs[txs[k]] # <<>>
    BY <1>1, <1>2, <2>1, ValidHasNotJoined
  <2>2. CASE TxInputs[txs[k]] = <<>>
    <3> SUFFICES ASSUME txs[k] \in Joined PROVE FALSE
      OBVIOUS
    <3>1. PICK a \in ActiveBlocks : txs[k] \in {BlockTxs[a][l] : l \in 1 .. Len(BlockTxs[a])}
      BY <1>2 DEF ActiveTransactions
    <3>2. PICK l \in 1 .. Len(BlockTxs[a]) : BlockTxs[a][l] = txs[k]
      BY <3>1
    <3>3. a \in Block
      BY <1>2, ActiveBlocksType
    <3>4. l \in DOMAIN BlockTxs[a] /\ k \in DOMAIN txs
      BY <1>1, <3>3, BlockAssumption
    <3>5. b = a
      BY <2>2, <3>2, <3>3, <3>4 DEF SoundBlocks
    <3> QED BY <1>2, <3>1, <3>5, OnTipIsNew DEF HashesDistinct
  <2> QED BY <2>1, <2>2
<1>4. ASSUME NEW k \in 1 .. Len(txs), NEW i \in Index
      PROVE  created[<<TxHash[txs[k]], i>>] = 0
  <2> DEFINE c == <<TxHash[txs[k]], i>>
  <2>1. txs[k] \in Transaction /\ c \in Locator
    BY <1>1, TransactionAssumption DEF Locator
  <2>2. ASSUME created[c] > 0 PROVE FALSE
    <3>1. PICK u \in Joined : Makes(u, c)
      BY <2>1, <2>2 DEF Accounted
    <3>2. u \in Transaction /\ TxHash[u] = TxHash[txs[k]]
      BY <1>2, <3>1, JoinedType DEF Makes
    <3>3. u = txs[k]
      BY <2>1, <3>2 DEF HashesDistinct
    <3> QED BY <1>3, <3>1, <3>3
  <2>3. created[c] \in Nat
    BY <2>1 DEF OnceInv, CoinInv, CoinTypeOK
  <2> HIDE DEF c
  <2>4. created[c] = 0
    BY <2>2, <2>3
  <2> QED BY <2>4 DEF c
<1>5. FreshOutputs(txs)
  BY <1>4, SoundDistinct, SoundFits DEF FreshOutputs
<1> QED BY <1>1, <1>5 DEF Careful

\* So is the constructor.
LEMMA GenesisIsCareful ==
  ASSUME HashesDistinct, SoundBlocks, \A c \in Locator : created[c] = 0
  PROVE  Careful(BlockTxs[Genesis]) /\ validate_block(BlockTxs[Genesis])
<1> DEFINE txs == BlockTxs[Genesis]
<1>1. Genesis \in Block /\ txs \in Seq(Transaction)
  BY BlockAssumption
<1>2. ASSUME NEW k \in 1 .. Len(txs), NEW i \in Index
      PROVE  created[<<TxHash[txs[k]], i>>] = 0
  BY <1>1, TransactionAssumption DEF Locator
<1>3. FreshOutputs(txs)
  BY <1>1, <1>2, SoundDistinct, SoundFits DEF FreshOutputs
<1>4. InputPositions(txs) = {}
  BY GenesisAssumption DEF InputPositions
<1> QED BY <1>1, <1>3, <1>4 DEF Careful, SoundBlocks, validate_block

-----------------------------------------------------------------------------
(* The steps. *)

\* A list that joins the transactions known as joined, and is to be stored now.
LEMMA StoringJoins ==
  ASSUME status # "storing", NEW txs \in Seq(Transaction), store_block(txs), Still,
         NEW J, Joined' = J \cup {txs[k] : k \in 1 .. Len(txs)},
         \A c \in Locator : created[c] > 0 <=> \E t \in J : Makes(t, c),
         \A c \in Locator : spent[c] > 0 <=> \E t \in J : Names(t, c),
         \A t \in J : TxInputs[t] # <<>> => TxHash[t] \notin mempool_cache
  PROVE  Accounted' /\ MempoolApart'
<1>1. /\ status' = "storing" /\ transactions' = txs /\ cursor' = Start
      /\ mempool_cache' = mempool_cache \ {TxHash[txs[k]] : k \in 1 .. Len(txs)}
      /\ UNCHANGED <<created, spent>>
  BY DEF store_block, remove_transactions_from_mempool, Still
<1>2. ASSUME NEW c \in Locator
      PROVE  /\ created'[c] > 0 \/ ToAdd(c)' <=> \E t \in Joined' : Makes(t, c)
             /\ spent'[c] > 0 \/ ToSpend(c)' <=> \E t \in Joined' : Names(t, c)
  <2>1. (ToAdd(c)' <=> Adds(txs, c)) /\ (ToSpend(c)' <=> Spends(txs, c))
    BY <1>1, AllPending
  <2>2. (\E t \in Joined' : Makes(t, c)) <=> (\E t \in J : Makes(t, c)) \/ Adds(txs, c)
    BY DEF Adds
  <2>3. (\E t \in Joined' : Names(t, c)) <=> (\E t \in J : Names(t, c)) \/ Spends(txs, c)
    BY DEF Spends
  <2>4. (created[c] > 0 <=> \E t \in J : Makes(t, c)) /\ (spent[c] > 0 <=> \E t \in J : Names(t, c))
    OBVIOUS
  <2> QED BY <1>1, <2>1, <2>2, <2>3, <2>4
<1>3. Accounted'
  BY <1>2 DEF Accounted, Makes, Names
<1>4. MempoolApart'
  BY <1>1 DEF MempoolApart
<1> QED BY <1>3, <1>4

LEMMA WalkFollows ==
  ASSUME Follows, Walk, UNCHANGED chainVars
  PROVE  Follows'
<1>1. handler # "constructing" /\ UNCHANGED mempool_cache
  BY DEF Follows, Walk, SpendInput, SpendFromCache, SpendFromDatabase, SpendUnknown,
         SpendMissing, SpentInput, AddOutput, NextTransaction, Return, AtInput, AtOutput,
         AtTransaction, mempoolVars
<1>2. OnceInv' /\ handler' = handler /\ Joined' = Joined
  BY WalkOnce DEF Follows, chainVars, tipVars, Joined, ActiveTransactions, ActiveBlocks,
                  get_active_chain_hashes, get_last_block_hash
<1>3. ASSUME NEW c \in Locator
      PROVE  /\ created'[c] > 0 \/ ToAdd(c)' <=> \E t \in Joined' : Makes(t, c)
             /\ spent'[c] > 0 \/ ToSpend(c)' <=> \E t \in Joined' : Names(t, c)
  BY <1>1, <1>2, WalkAccounts DEF Follows, Accounted
<1>4. Accounted'
  BY <1>3 DEF Accounted, Makes, Names
<1> QED BY <1>1, <1>2, <1>4 DEF Follows, MempoolApart

\* Steps that leave the coins and what has joined alone.
LEMMA QuietFollows ==
  ASSUME Follows, OnceInv', handler # "constructing", handler' # "constructing",
         status # "storing", status' # "storing", Still, Joined' = Joined, MempoolApart'
  PROVE  Follows'
<1>1. ASSUME NEW c \in Locator
      PROVE  /\ created'[c] > 0 \/ ToAdd(c)' <=> \E t \in Joined' : Makes(t, c)
             /\ spent'[c] > 0 \/ ToSpend(c)' <=> \E t \in Joined' : Names(t, c)
  <2>1. ~ToAdd(c) /\ ~ToSpend(c) /\ ~ToAdd(c)' /\ ~ToSpend(c)'
    BY DEF ToAdd, ToSpend
  <2> QED BY <2>1 DEF Follows, Accounted, Still
<1>2. Accounted'
  BY <1>1 DEF Accounted, Makes, Names
<1> QED BY <1>2 DEF Follows

LEMMA ConstructFollows ==
  ASSUME HashesDistinct, SoundBlocks, PathInv, PathInv', Follows, Construct
  PROVE  Follows'
<1> DEFINE txs == BlockTxs[Genesis]
<1>1. /\ handler = "constructing" /\ handler' = "genesis" /\ store_block(txs)
      /\ UNCHANGED database /\ txs \in Seq(Transaction)
  BY BlockAssumption DEF Construct
<1>2. OnceInv /\ \A c \in Locator : created[c] = 0 /\ spent[c] = 0
  BY <1>1 DEF Follows
<1>3. Still
  BY <1>1 DEF store_block, historyVars, Still, Copies, InDatabase
<1>4. OnceInv'
  BY <1>1, <1>2, <1>3, GenesisIsCareful, StoreOnce DEF PathInv, ChainInv
<1> DEFINE none == {}
<1>5. Joined' = none \cup {txs[k] : k \in 1 .. Len(txs)}
  <2>1. ActiveBlocks' = {Genesis}
    BY ConstructBlocks DEF PathInv
  <2> QED BY <1>1, <2>1 DEF Joined, ActiveTransactions
<1>6. /\ \A c \in Locator : created[c] > 0 <=> \E t \in none : Makes(t, c)
      /\ \A c \in Locator : spent[c] > 0 <=> \E t \in none : Names(t, c)
      /\ \A t \in none : TxInputs[t] # <<>> => TxHash[t] \notin mempool_cache
  BY <1>2
<1>7. status # "storing"
  BY <1>1 DEF store_block
<1> HIDE DEF none, txs
<1>8. Accounted' /\ MempoolApart'
  BY <1>1, <1>3, <1>5, <1>6, <1>7, StoringJoins
<1> QED BY <1>1, <1>4, <1>8 DEF Follows

LEMMA OnTipFollows ==
  ASSUME HashesDistinct, SoundBlocks, PathInv, PathInv', Follows,
         NEW b \in Block, HandleOnTip(b)
  PROVE  Follows'
<1> DEFINE txs == BlockTxs[b]
<1>1. /\ AtRest /\ handler' = "extending" /\ block' = b
      /\ store_block(txs) /\ Validation(txs) /\ validate_block(txs) /\ OnTip(b)
      /\ UNCHANGED <<active_chain_last_block, active_chain_length, block_records>>
      /\ txs \in Seq(Transaction)
  BY BlockAssumption DEF HandleOnTip, Delivered, AtRest, tipVars
<1>2. /\ handler = "idle" /\ status = "idle" /\ OnceInv /\ Accounted /\ MempoolApart
      /\ Joined = ActiveTransactions
  BY <1>1 DEF AtRest, Follows, Joined
<1>3. Still
  BY <1>1, <1>2, ValidatedStill DEF store_block
<1>4. OnceInv'
  BY <1>1, <1>2, <1>3, TipBlockIsCareful, StoreOnce DEF PathInv, ChainInv
<1>5. Joined' = Joined \cup {txs[k] : k \in 1 .. Len(txs)}
  BY <1>1, <1>2 DEF Joined, Listed, ActiveTransactions, ActiveBlocks, get_active_chain_hashes,
                    get_last_block_hash
<1>6. \A c \in Locator : ~ToAdd(c) /\ ~ToSpend(c)
  BY <1>2 DEF ToAdd, ToSpend
<1>7. /\ \A c \in Locator : created[c] > 0 <=> \E t \in Joined : Makes(t, c)
      /\ \A c \in Locator : spent[c] > 0 <=> \E t \in Joined : Names(t, c)
  BY <1>2, <1>6 DEF Accounted
<1>8. Accounted' /\ MempoolApart'
  BY <1>1, <1>2, <1>3, <1>5, <1>7, StoringJoins DEF MempoolApart
<1> QED BY <1>1, <1>4, <1>8 DEF Follows

\* A block that is not stored leaves the ledger and the active chain alone.
LEMMA RecordedFollows ==
  ASSUME HashesDistinct, PathInv, PathInv', Follows,
         NEW b \in Block, HandleInvalid(b) \/ HandleFork(b)
  PROVE  Follows'
<1>1. /\ handler = "idle" /\ handler' = "idle" /\ status = "idle" /\ status' = "idle"
      /\ Validation(BlockTxs[b]) /\ BlockTxs[b] \in Seq(Transaction)
      /\ UNCHANGED <<tipVars, main_cache, historyVars, mempool_cache>>
      /\ UNCHANGED block_records \/ block_records' = ForkRecords(b)
  BY BlockAssumption DEF HandleInvalid, HandleFork, OffTip, Delivered, loopVars, chainVars,
                         mempoolVars
<1>2. OnceInv' /\ Still
  BY <1>1, ValidatedStill, QuietOnce DEF Follows, PathInv, ChainInv
<1>3. ActiveBlocks' = ActiveBlocks
  <2>1. CASE UNCHANGED block_records
    BY <1>1, <2>1 DEF ActiveBlocks, get_active_chain_hashes, get_last_block_hash, tipVars
  <2>2. CASE block_records' = ForkRecords(b)
    BY <1>1, <2>2, ForkKeepsBlocks DEF PathInv, HashesDistinct
  <2> QED BY <1>1, <2>1, <2>2
<1>4. Joined' = Joined
  BY <1>1, <1>3 DEF Joined, ActiveTransactions
<1>5. MempoolApart'
  BY <1>1, <1>4 DEF Follows, MempoolApart
<1> QED BY <1>1, <1>2, <1>4, <1>5, QuietFollows

LEMMA ExtendFollows ==
  ASSUME HashesDistinct, PathInv, Follows, Extend
  PROVE  Follows'
<1>1. /\ handler = "extending" /\ handler' = "idle" /\ status = "idle" /\ UNCHANGED coinVars
      /\ UNCHANGED <<status, mempool_cache>>
  BY DEF Extend, coinVars, mempoolVars, loopVars
<1>2. OnceInv' /\ Still
  BY <1>1, StutterOnce DEF Follows
<1>3. Joined' = Joined
  <2>1. ActiveBlocks' = ActiveBlocks \cup {block}
    BY ExtendAddsBlock DEF HashesDistinct
  <2> QED BY <1>1, <2>1 DEF Joined, Listed, ActiveTransactions
<1>4. MempoolApart'
  BY <1>1, <1>3 DEF Follows, MempoolApart
<1> QED BY <1>1, <1>2, <1>3, <1>4, QuietFollows

LEMMA ConstructedFollows ==
  ASSUME Follows, Constructed
  PROVE  Follows'
<1>1. /\ handler = "genesis" /\ handler' = "idle" /\ status = "idle" /\ UNCHANGED coinVars
      /\ UNCHANGED <<status, mempool_cache, active_chain_last_block, active_chain_length,
                     block_records>>
  BY DEF Constructed, coinVars, mempoolVars, loopVars, tipVars
<1>2. OnceInv' /\ Still
  BY <1>1, StutterOnce DEF Follows
<1>3. Joined' = Joined
  BY <1>1 DEF Joined, ActiveTransactions, ActiveBlocks, get_active_chain_hashes,
              get_last_block_hash
<1>4. MempoolApart'
  BY <1>1, <1>3 DEF Follows, MempoolApart
<1> QED BY <1>1, <1>2, <1>3, <1>4, QuietFollows

\* A transaction that has joined the chain and arrives again names a coin that is
\* gone, and is not taken.
LEMMA TransactionFollows ==
  ASSUME HashesDistinct, PathInv, PathInv', Follows,
         NEW t \in Transaction, handle_transaction(t)
  PROVE  Follows'
<1>1. /\ handler = "idle" /\ handler' = "idle" /\ status = "idle" /\ status' = "idle"
      /\ Validation(<<t>>) /\ <<t>> \in Seq(Transaction)
      /\ UNCHANGED <<chainVars, main_cache, historyVars>>
  BY DEF handle_transaction, validate_and_store_transaction, loopVars, chainVars
<1>2. OnceInv' /\ Still
  BY <1>1, ValidatedStill, QuietOnce DEF Follows, PathInv, ChainInv
<1>3. Joined' = Joined
  BY <1>1 DEF Joined, ActiveTransactions, ActiveBlocks, get_active_chain_hashes,
              get_last_block_hash, chainVars, tipVars
<1>4. mempool_cache' = mempool_cache
      \/ (validate_block(<<t>>) /\ mempool_cache' = mempool_cache \cup {TxHash[t]})
  <2>1. UNCHANGED mempoolVars => mempool_cache' = mempool_cache
    BY DEF mempoolVars
  <2>2. CASE validate_block(<<t>>)
    <3>1. store_transaction_in_mempool(t)
      BY <2>2 DEF handle_transaction, validate_and_store_transaction
    <3>2. UNCHANGED mempoolVars \/ mempool_cache' = mempool_cache \cup {TxHash[t]}
      BY <3>1 DEF store_transaction_in_mempool
    <3> QED BY <2>1, <2>2, <3>2
  <2>3. CASE ~validate_block(<<t>>)
    <3>1. UNCHANGED mempoolVars
      BY <2>3 DEF handle_transaction, validate_and_store_transaction
    <3> QED BY <2>1, <3>1
  <2> QED BY <2>2, <2>3
<1>5. ASSUME NEW u \in Joined, TxInputs[u] # <<>>
      PROVE  TxHash[u] \notin mempool_cache'
  <2>1. TxHash[u] \notin mempool_cache
    BY <1>1, <1>5 DEF Follows, MempoolApart
  <2>2. ASSUME validate_block(<<t>>) PROVE TxHash[u] # TxHash[t]
    <3> SUFFICES ASSUME TxHash[u] = TxHash[t] PROVE FALSE
      OBVIOUS
    <3>1. u \in Transaction /\ OnceInv /\ Accounted /\ status # "storing"
      BY <1>1, JoinedType DEF Follows
    <3>2. u = t
      BY <3>1 DEF HashesDistinct
    <3>3. 1 \in 1 .. Len(<<t>>) /\ <<t>>[1] = t
      OBVIOUS
    <3>4. \A k \in 1 .. Len(<<t>>) : TxInputs[<<t>>[k]] # <<>> => <<t>>[k] \notin Joined
      BY <1>1, <2>2, <3>1, ValidHasNotJoined
    <3> QED BY <1>5, <3>2, <3>3, <3>4
  <2> QED BY <1>4, <2>1, <2>2
<1>6. MempoolApart'
  BY <1>3, <1>5 DEF MempoolApart
<1> QED BY <1>1, <1>2, <1>3, <1>6, QuietFollows

LEMMA Successor == \A n \in Nat : n + 1 # 0
OBVIOUS

LEMMA LedgerInvStep ==
  ASSUME HashesDistinct, SoundBlocks, PathInv, LedgerInv, [ChainNext]_vars
  PROVE  LedgerInv'
<1> SUFFICES ASSUME takeovers' = 0, handler' # "taking over", status' # "dead"
             PROVE  Follows'
  BY DEF LedgerInv
<1>1. PathInv' /\ takeovers \in Nat
  BY PathStep DEF PathInv, ChainInv, ChainTypeOK, HashesDistinct
<1>2. ~TakeOver
  <2>1. TakeOver => takeovers' = takeovers + 1
    BY DEF TakeOver
  <2> QED BY <1>1, <2>1, Successor, Zenon
<1>3. UNCHANGED takeovers /\ handler # "taking over"
  <2>1. CASE Continue
    BY <1>2, <2>1 DEF Continue, Construct, Constructed, Extend, ExtendDies, chainVars
  <2>2. ASSUME NEW b \in Block, handle_block(b)
        PROVE  UNCHANGED takeovers /\ handler # "taking over"
    BY <2>2 DEF handle_block, HandleInvalid, HandleOnTip, HandleFork, OvertakeDies, Overtake,
                Overtakes, OffTip, Delivered, chainVars
  <2>3. ASSUME NEW t \in Transaction, handle_transaction(t)
        PROVE  UNCHANGED takeovers /\ handler # "taking over"
    BY <2>3 DEF handle_transaction, chainVars
  <2>4. CASE UNCHANGED vars
    BY <2>4 DEF vars, chainVars
  <2> QED BY <2>1, <2>2, <2>3, <2>4 DEF ChainNext
<1>4. Follows
  BY <1>3, DeadStaysDead DEF LedgerInv
<1>5. CASE Continue
  BY <1>1, <1>2, <1>4, <1>5, WalkFollows, ConstructFollows, ConstructedFollows, ExtendFollows
  DEF Continue, ExtendDies
<1>6. ASSUME NEW b \in Block, handle_block(b)
      PROVE  Follows'
  BY <1>1, <1>4, <1>6, RecordedFollows, OnTipFollows DEF handle_block, OvertakeDies, Overtake
<1>7. ASSUME NEW t \in Transaction, handle_transaction(t)
      PROVE  Follows'
  BY <1>1, <1>4, <1>7, TransactionFollows
<1>8. CASE UNCHANGED vars
  <2>1. /\ UNCHANGED coinVars /\ UNCHANGED <<chainVars, mempool_cache, status, cursor, created,
                                             spent, transactions>>
    BY <1>8 DEF vars, coinVars, mempoolVars, loopVars, historyVars
  <2>2. OnceInv' /\ handler' = handler /\ Joined' = Joined
    BY <1>4, <2>1, StutterOnce
    DEF Follows, chainVars, tipVars, Joined, ActiveTransactions, ActiveBlocks,
        get_active_chain_hashes, get_last_block_hash
  <2>3. \A c \in Locator : (ToAdd(c)' <=> ToAdd(c)) /\ (ToSpend(c)' <=> ToSpend(c))
    BY <2>1 DEF ToAdd, ToSpend, PendingInput, PendingOutput, InputPositions, InputAt, Makes
  <2>4. Accounted => Accounted'
    BY <2>1, <2>2, <2>3 DEF Accounted, Makes, Names
  <2> QED BY <1>4, <2>1, <2>2, <2>4 DEF Follows, MempoolApart
<1> QED BY <1>5, <1>6, <1>7, <1>8 DEF ChainNext

LEMMA LedgerStart ==
  ASSUME ChainInit
  PROVE  LedgerInv
BY StartOnce DEF ChainInit, CoinInit, LedgerInv, Follows

-----------------------------------------------------------------------------
(* The theorems. *)

LEMMA LedgerInvariant ==
  ASSUME HashesDistinct, SoundBlocks
  PROVE  ChainSpec => []LedgerInv
<1>1. ChainInit => LedgerInv
  BY LedgerStart
<1>2. ChainInv /\ HeightInv /\ RootInv /\ LedgerInv /\ [ChainNext]_vars => LedgerInv'
  BY LedgerInvStep DEF PathInv
<1>3. CollisionFree
  BY NoCollisions DEF HashesDistinct
<1> QED BY <1>1, <1>2, <1>3, ChainInvariant, HeightInvariant, RootInvariant, PTL DEF ChainSpec

\* Between calls of handle_block and handle_transaction the coin database accepts as
\* inputs exactly the coins that the active chain's transactions make and do not
\* spend, whatever blocks and transactions arrive in whatever order, as long as no
\* fork takes over: where hashes are distinct and blocks are sound.
THEOREM LedgerFollows ==
  ASSUME HashesDistinct, SoundBlocks
  PROVE  ChainSpec => []LedgerFollowsChainUntilTakeover
<1>1. ASSUME LedgerInv, takeovers = 0, handler = "idle", status = "idle", NEW c \in Locator
      PROVE  Available(c) <=> UnspentOnChain(c)
  <2>1. OnceInv /\ Accounted /\ Joined = ActiveTransactions
    BY <1>1 DEF LedgerInv, Follows, Joined
  <2>2. /\ created[c] > 0 <=> \E t \in ActiveTransactions : Makes(t, c)
        /\ spent[c] > 0 <=> \E t \in ActiveTransactions : Names(t, c)
    BY <1>1, <2>1, NothingPending DEF Accounted
  <2>3. /\ Copies(c) = created[c] - spent[c] /\ created[c] <= 1
        /\ created[c] \in Nat /\ spent[c] \in Nat /\ Copies(c) \in Nat
        /\ Available(c) <=> Copies(c) > 0
    BY <2>1, AvailableIsThere, CopiesType DEF OnceInv, CreatedOnce, CoinInv, CoinTypeOK
  <2>4. Available(c) <=> created[c] > 0 /\ ~(spent[c] > 0)
    BY <2>3
  <2> QED BY <2>2, <2>4 DEF UnspentOnChain, Makes
<1>2. LedgerInv => LedgerFollowsChainUntilTakeover
  BY <1>1 DEF LedgerFollowsChainUntilTakeover, LedgerFollowsChain, AtRest
<1> QED BY <1>2, LedgerInvariant, PTL

\* A transaction of the active chain that spends something is not in the mempool and
\* does not come back when it arrives again, under the same hypotheses: store_block
\* has removed it, and validate_transaction finds its coins gone.
THEOREM MempoolStaysUnconfirmed ==
  ASSUME HashesDistinct, SoundBlocks
  PROVE  ChainSpec => []MempoolUnconfirmed
<1>1. LedgerInv => MempoolUnconfirmed
  BY DEF LedgerInv, Follows, Joined, MempoolApart, MempoolUnconfirmed, AtRest
<1> QED BY <1>1, LedgerInvariant, PTL

=============================================================================
