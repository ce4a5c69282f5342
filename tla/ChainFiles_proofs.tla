-------------------------- MODULE ChainFiles_proofs -------------------------
(***************************************************************************)
(* The chain on top of its writer.  Every step is one of the chain's own,  *)
(* or ends the process without recording anything, so that the chain's     *)
(* invariants hold here too; the writer's invariant holds because every    *)
(* write is one of its steps.  Between them: every record's locations are  *)
(* FileInfos that the writer handed out for its block, and every coin's    *)
(* transaction is in a recorded block or in the one that is joining.       *)
(***************************************************************************)
EXTENDS ChainFiles, Chain_proofs, SequenceTheorems

P == INSTANCE ChainWriter_proofs

\* Hypothesis: no payload is larger than a file.
Fits == \A p \in Payload : Size[p] <= MaxFileSize

\* What was found at this place is the FileInfo of p, which the writer handed out.
Points(found, p) == \E l \in located[p[1]] : found = {l} /\ l.payload = p

\* Every record's locations are those of its block, and of its undo block if any.
Located ==
  /\ DOMAIN locations = DOMAIN block_records
  /\ \A h \in DOMAIN locations :
       /\ Points(locations[h].blocks, <<"blocks", block_records[h].block>>)
       /\ \/ locations[h].undo_blocks = {} /\ block_records[h].undo = 0
          \/ /\ Points(locations[h].undo_blocks, <<"undo_blocks", block_records[h].block>>)
             /\ block_records[h].undo = Len(BlockTxs[block_records[h].block])

\* What the call in progress has been handed is of the block it stores.
Gives(found, p) == found = {} \/ Points(found, p)
Handed ==
  /\ handler = "constructing" => block = Genesis
  /\ \/ written = <<>>
     \/ /\ handler \in {"constructing", "extending"}
        /\ \E found : Gives(found, <<"blocks", block>>) /\
             \/ written = <<found>>
             \/ \E undo : Gives(undo, <<"undo_blocks", block>>) /\ written = <<found, undo>>

\* Every transaction whose coins have been or are being added is in a recorded block,
\* or in the one that is joining the chain.
Lists(b, h) == \E k \in DOMAIN BlockTxs[b] : h = TxHash[BlockTxs[b][k]]
Known(h) ==
  \/ \E r \in DOMAIN block_records : Lists(block_records[r].block, h)
  \/ handler = "extending" /\ Lists(block, h)
Sourced ==
  /\ \A c \in Locator : created[c] > 0 => Known(c[1])
  /\ \A k \in 1 .. Len(transactions) : Known(TxHash[transactions[k]])

Whole == \A k \in W!Kind : cut[k] = {}

\* What holds between the chain, the call in progress and the writer.
Linked == P!WriterInv /\ Whole /\ Located /\ Handed

-----------------------------------------------------------------------------
(* The chain's steps. *)

\* The process ends for want of a file; validation may have touched the database.
Dies ==
  /\ status' = "dead"
  /\ UNCHANGED <<main_cache, main_cache_size, mempoolVars, transactions, cursor,
                 historyVars, chainVars>>
  /\ UNCHANGED database \/ \E b \in Block : Validation(BlockTxs[b])

LEMMA StepsOfTheChain ==
  ASSUME [FilesNext]_<<vars, fileVars>>
  PROVE  [ChainNext]_vars \/ Dies
<1>1. CASE StoreBlockFile \/ StoreUndoFile
  BY <1>1 DEF StoreBlockFile, StoreUndoFile, StoreFile
<1>2. CASE FileMissing
  BY <1>2 DEF FileMissing, Dies, cacheVars
<1>3. CASE Stored \/ StoredDies
  BY <1>3 DEF Stored, StoredDies, ChainNext, Continue
<1>4. CASE (Walk /\ UNCHANGED <<chainVars, fileVars>>) \/ ((Constructed \/ TakeOver) /\ UNCHANGED fileVars)
  BY <1>4 DEF ChainNext, Continue
<1>5. ASSUME NEW b \in Block, FilesOnTip(b) \/ FilesFork(b)
      PROVE  ChainNext
  BY <1>5 DEF FilesOnTip, FilesFork, ChainNext, handle_block
<1>6. ASSUME NEW b \in Block, FilesForkMissing(b)
      PROVE  Dies
  BY <1>6 DEF FilesForkMissing, Delivered, Dies
<1>7. ASSUME NEW t \in Transaction, handle_transaction(t)
      PROVE  ChainNext
  BY <1>7 DEF ChainNext
<1>8. CASE UNCHANGED <<vars, fileVars>>
  BY <1>8
<1> QED BY <1>1, <1>2, <1>3, <1>4, <1>5, <1>6, <1>7, <1>8
        DEF FilesNext, FilesContinue, FilesHandleBlock

LEMMA DyingKeepsChain ==
  ASSUME ChainInv, Dies
  PROVE  ChainInv'
<1>1. /\ status' = "dead" /\ UNCHANGED <<main_cache, main_cache_size, mempool_cache, mempool_size,
                                       transactions, cursor, created, spent>>
      /\ UNCHANGED <<active_chain_last_block, active_chain_length, block_records, handler,
                     block, takeovers>>
  BY DEF Dies, mempoolVars, historyVars, chainVars, tipVars
<1>2. CoinInv
  BY DEF ChainInv
<1>3. CoinInv'
  <2>1. KeepsCoins
    <3>1. CASE UNCHANGED database
      BY <1>2, <3>1, UnchangedKeepsCoins
    <3>2. ASSUME NEW b \in Block, Validation(BlockTxs[b])
          PROVE  KeepsCoins
      BY <1>2, <3>2, BlockAssumption, ValidationKeepsCoins DEF CoinInv, KeepsCoins
    <3> QED BY <3>1, <3>2 DEF Dies
  <2>2. Untouched
    BY <1>1 DEF Untouched, historyVars
  <2> QED BY <1>1, <1>2, <2>1, <2>2, NoCoinMoves DEF CoinInv, CoinTypeOK, MempoolWithinCapacity
<1> QED BY <1>1, <1>3 DEF ChainInv, ChainTypeOK, RecordsOwn, HeightsWithinLength

LEMMA FilesChainStep ==
  ASSUME ChainInv, [FilesNext]_<<vars, fileVars>>
  PROVE  ChainInv'
BY StepsOfTheChain, ChainStep_Inv, DyingKeepsChain

LEMMA FilesPathStep ==
  ASSUME BlocksDistinct, PathInv, [FilesNext]_<<vars, fileVars>>
  PROVE  PathInv'
<1>1. ASSUME Dies
      PROVE  PathInv'
  <2>1. status' = "dead"
        /\ UNCHANGED <<active_chain_last_block, active_chain_length, block_records, handler,
                      block, takeovers>>
    BY <1>1 DEF Dies, chainVars, tipVars
  <2>2. ChainInv'
    BY <1>1, DyingKeepsChain DEF PathInv
  <2>3. HeightInv'
    BY <2>1 DEF PathInv, HeightInv, HeightsBelowParents, get_last_block_hash
  <2>4. RootInv'
    BY <2>1 DEF PathInv, RootInv, get_last_block_hash
  <2> QED BY <2>2, <2>3, <2>4 DEF PathInv
<1> QED BY <1>1, StepsOfTheChain, PathStep

-----------------------------------------------------------------------------
(* Where coins come from. *)

\* Records stay, or are replaced by records of the same block.
LEMMA BlocksStay ==
  ASSUME BlocksDistinct, ChainInv, NEW b \in Block, NEW record, record.block = b,
         block_records' = WithRecord(b, record),
         NEW r \in DOMAIN block_records
  PROVE  r \in DOMAIN block_records' /\ block_records'[r].block = block_records[r].block
<1>1. block_records[r].block \in Block /\ BlockHash[block_records[r].block] = r
  BY RecordsType DEF ChainInv, RecordsOwn, BlockRecord
<1>2. /\ DOMAIN block_records' = DOMAIN block_records \cup {BlockHash[b]}
      /\ block_records'[r] = IF r = BlockHash[b] THEN record ELSE block_records[r]
  BY DEF WithRecord
<1> QED BY <1>1, <1>2 DEF BlocksDistinct

\* What a step does to the records.
LEMMA RecordsStep ==
  ASSUME ChainInv, [ChainNext]_vars
  PROVE  \/ UNCHANGED block_records
         \/ \E b \in Block : \E record : record.block = b /\ block_records' = WithRecord(b, record)
<1>1. \A b, h, u : RecordOf(b, h, u).block = b
  BY DEF RecordOf
<1>2. block \in Block /\ Genesis \in Block
  BY BlockAssumption DEF ChainInv, ChainTypeOK
<1>3. CASE Construct
  BY <1>1, <1>2, <1>3 DEF Construct
<1>4. CASE Extend
  BY <1>1, <1>2, <1>4 DEF Extend
<1>5. ASSUME NEW b \in Block, block_records' = ForkRecords(b), handler = "idle"
      PROVE  \E a \in Block : \E record : record.block = a /\ block_records' = WithRecord(a, record)
  BY <1>1, <1>5 DEF ForkRecords
<1>6. ASSUME NEW b \in Block, handle_block(b)
      PROVE  UNCHANGED block_records \/ (block_records' = ForkRecords(b) /\ handler = "idle")
  BY <1>6 DEF handle_block, HandleInvalid, HandleOnTip, HandleFork, OvertakeDies, Overtake,
              Overtakes, OffTip, Delivered, chainVars
<1>7. CASE \/ Walk /\ UNCHANGED chainVars
           \/ Constructed \/ ExtendDies \/ TakeOver
           \/ \E t \in Transaction : handle_transaction(t)
           \/ UNCHANGED vars
  BY <1>7 DEF Constructed, ExtendDies, TakeOver, handle_transaction, chainVars, vars
<1> QED BY <1>3, <1>4, <1>5, <1>6, <1>7 DEF ChainNext, Continue

LEMMA KnownStays ==
  ASSUME BlocksDistinct, ChainInv, [ChainNext]_vars, NEW h, Known(h)
  PROVE  Known(h)'
<1>1. ASSUME NEW r \in DOMAIN block_records
      PROVE  r \in DOMAIN block_records' /\ block_records'[r].block = block_records[r].block
  BY RecordsStep, BlocksStay
<1>2. CASE \E r \in DOMAIN block_records : Lists(block_records[r].block, h)
  BY <1>1, <1>2 DEF Known, Lists
<1>3. CASE handler = "extending" /\ Lists(block, h)
  <2>1. CASE Extend
    <3>1. BlockHash[block] \in DOMAIN block_records' /\ block_records'[BlockHash[block]].block = block
      BY <2>1 DEF Extend, WithRecord, RecordOf
    <3> QED BY <1>3, <3>1 DEF Known, Lists
  <2>2. CASE UNCHANGED <<handler, block>>
    BY <1>3, <2>2 DEF Known, Lists
  <2>3. UNCHANGED <<handler, block>> \/ Extend
    BY <1>3 DEF ChainNext, Continue, Construct, Constructed, ExtendDies, TakeOver, handle_block,
                HandleInvalid, HandleOnTip, HandleFork, OvertakeDies, Overtake, Overtakes, OffTip,
                Delivered, handle_transaction, chainVars, vars
  <2> QED BY <2>1, <2>2, <2>3
<1> QED BY <1>2, <1>3 DEF Known

\* A coin is added only for a transaction in the walk's list.
LEMMA CreatedStep ==
  ASSUME CoinInv, [ChainNext]_vars, NEW c \in Locator, created'[c] > 0
  PROVE  created[c] > 0 \/ \E k \in 1 .. Len(transactions) : c[1] = TxHash[transactions[k]]
<1>1. CASE AddOutput
  <2>1. /\ AtOutput /\ created' = [created EXCEPT ![ThisOutput] = @ + 1] /\ CoinTypeOK
    BY <1>1 DEF AddOutput, CoinInv
  <2>2. cursor.tx \in 1 .. Len(transactions) /\ ThisOutput[1] = TxHash[transactions[cursor.tx]]
    BY <2>1 DEF AtOutput, AtTransaction, CoinTypeOK, ThisOutput, Current
  <2>3. c # ThisOutput => created'[c] = created[c]
    BY <2>1, OutputStepType DEF CoinTypeOK
  <2> QED BY <2>2, <2>3
<1>2. UNCHANGED created \/ AddOutput
  <2>1. CASE Continue
    BY <2>1 DEF Continue, Walk, SpendInput, SpendFromCache, SpendFromDatabase, SpendUnknown,
                SpendMissing, SpentInput, NextTransaction, Return, Construct, Constructed, Extend,
                ExtendDies, TakeOver, store_block, coinVars, historyVars
  <2>2. ASSUME NEW b \in Block, handle_block(b)
        PROVE  UNCHANGED created
    BY <2>2 DEF handle_block, HandleInvalid, HandleOnTip, HandleFork, OvertakeDies, Overtake,
                store_block, historyVars
  <2>3. ASSUME NEW t \in Transaction, handle_transaction(t)
        PROVE  UNCHANGED created
    BY <2>3 DEF handle_transaction, validate_and_store_transaction, historyVars
  <2>4. CASE UNCHANGED vars
    BY <2>4 DEF vars, coinVars, historyVars
  <2> QED BY <2>1, <2>2, <2>3, <2>4 DEF ChainNext
<1> QED BY <1>1, <1>2

\* The list is that of the walk before, that of a recorded block, or that of the block
\* that is joining the chain.
LEMMA ListStep ==
  ASSUME [ChainNext]_vars
  PROVE  \/ transactions' = transactions \/ transactions' = <<>>
         \/ \E r \in DOMAIN block_records' : transactions' = BlockTxs[block_records'[r].block]
         \/ handler' = "extending" /\ transactions' = BlockTxs[block']
<1>1. CASE Construct
  BY <1>1 DEF Construct, store_block, WithRecord, RecordOf
<1>2. ASSUME NEW b \in Block, HandleOnTip(b)
      PROVE  handler' = "extending" /\ transactions' = BlockTxs[block']
  BY <1>2 DEF HandleOnTip, store_block
<1>3. ASSUME NEW b \in Block, Overtake(b)
      PROVE  \E r \in DOMAIN block_records' : transactions' = BlockTxs[block_records'[r].block]
  BY <1>3 DEF Overtake, Overtakes, OffTip, store_block
<1>4. CASE Walk \/ Constructed \/ Extend \/ ExtendDies \/ TakeOver
  BY <1>4 DEF Walk, SpendInput, SpendFromCache, SpendFromDatabase, SpendUnknown, SpendMissing,
              SpentInput, AddOutput, NextTransaction, Return, Constructed, Extend, ExtendDies,
              TakeOver, coinVars, loopVars
<1>5. ASSUME NEW b \in Block, HandleInvalid(b) \/ HandleFork(b) \/ OvertakeDies(b)
      PROVE  transactions' = transactions
  BY <1>5 DEF HandleInvalid, HandleFork, OvertakeDies, loopVars
<1>6. CASE UNCHANGED vars \/ \E t \in Transaction : handle_transaction(t)
  BY <1>6 DEF handle_transaction, validate_and_store_transaction, vars, coinVars, loopVars
<1> QED BY <1>1, <1>2, <1>3, <1>4, <1>5, <1>6 DEF ChainNext, Continue, handle_block

LEMMA SourcedStep ==
  ASSUME BlocksDistinct, PathInv, PathInv', Sourced, [FilesNext]_<<vars, fileVars>>
  PROVE  Sourced'
<1> DEFINE KnownNext(h) ==
      \/ \E r \in DOMAIN block_records' : Lists(block_records'[r].block, h)
      \/ handler' = "extending" /\ Lists(block', h)
<1>1. CASE [ChainNext]_vars
  <2>1. ASSUME NEW h, Known(h)
        PROVE  KnownNext(h)
    <3>1. Known(h)'
      BY <1>1, <2>1, KnownStays DEF PathInv
    <3> QED BY <3>1 DEF Known, Lists
  <2>2. ASSUME NEW c \in Locator, created'[c] > 0
        PROVE  KnownNext(c[1])
    <3>1. Known(c[1])
      BY <1>1, <2>2, CreatedStep DEF PathInv, ChainInv, Sourced
    <3> QED BY <2>1, <3>1
  <2>3. ASSUME NEW k \in 1 .. Len(transactions')
        PROVE  KnownNext(TxHash[transactions'[k]])
    <3>1. CASE transactions' = transactions
      BY <2>1, <2>3, <3>1 DEF Sourced
    <3>2. CASE transactions' = <<>>
      BY <3>2
    <3>3. ASSUME NEW b \in Block, transactions' = BlockTxs[b]
          PROVE  Lists(b, TxHash[transactions'[k]])
      <4>1. k \in DOMAIN BlockTxs[b]
        BY <2>3, <3>3, BlockAssumption
      <4> QED BY <3>3, <4>1 DEF Lists
    <3>4. ASSUME NEW r \in DOMAIN block_records', transactions' = BlockTxs[block_records'[r].block]
          PROVE  KnownNext(TxHash[transactions'[k]])
      <4>1. ChainTypeOK'
        BY DEF PathInv, ChainInv
      <4>2. block_records'[r].block \in Block
        BY <4>1 DEF ChainTypeOK, BlockRecord
      <4>3. Lists(block_records'[r].block, TxHash[transactions'[k]])
        BY <3>3, <3>4, <4>2
      <4> QED BY <4>3
    <3>5. CASE handler' = "extending" /\ transactions' = BlockTxs[block']
      <4>1. block' \in Block
        BY DEF PathInv, ChainInv, ChainTypeOK
      <4>2. Lists(block', TxHash[transactions'[k]])
        BY <3>3, <3>5, <4>1
      <4> QED BY <3>5, <4>2
    <3> QED BY <1>1, <3>1, <3>2, <3>4, <3>5, ListStep
  <2> QED BY <2>2, <2>3 DEF Sourced, Known, Lists
<1>2. CASE Dies
  <2>1. UNCHANGED <<created, transactions, block_records, handler, block>>
    BY <1>2 DEF Dies, historyVars, chainVars
  <2> QED BY <2>1 DEF Sourced, Known, Lists
<1> QED BY <1>1, <1>2, StepsOfTheChain

-----------------------------------------------------------------------------
(* The writer's steps. *)

LEMMA WriterHere ==
  /\ P!WriterAssumption
  /\ W!Kind = P!Kind /\ W!Kind = {"blocks", "undo_blocks"}
BY FilesAssumption DEF W!WriterAssumption, P!WriterAssumption, W!Kind, P!Kind

LEMMA FilesWrite ==
  ASSUME P!WriterInv, Whole, Fits, NEW k \in W!Kind, NEW b \in Block,
         W!Write(k, <<k, b>>, Size[<<k, b>>])
  PROVE  /\ P!WriterInv' /\ Whole'
         /\ \A j \in W!Kind : located[j] \subseteq located'[j]
         /\ \/ Returned(k, <<k, b>>) = {}
            \/ \E l \in located'[k] : Returned(k, <<k, b>>) = {l} /\ l.payload = <<k, b>>
<1> DEFINE p == <<k, b>>
<1>1. k \in P!Kind /\ p \in Payload /\ p[1] = k
  BY WriterHere DEF Payload
<1>2. P!Write(k, p, Size[p])
  BY DEF W!Write, P!Write, W!GoOn, P!GoOn, W!Stay, P!Stay, W!WriteAt, P!WriteAt, W!DoesNotFit, P!DoesNotFit, W!NextFile,
         P!NextFile, W!AppendTo, P!AppendTo, W!CannotOpen, P!CannotOpen, W!PutBytes,
         P!PutBytes, W!Bytes, P!Bytes, W!Remaining, P!Remaining
<1> HIDE DEF p
<1>3. /\ P!WriterInv'
      /\ \A j \in P!Kind : cut'[j] = {} /\ located[j] \subseteq located'[j]
      /\ file' # file =>
           [payload |-> p, file |-> file_number'[k],
            start |-> (offset'[k] - Size[p]) % OffsetRange, end |-> offset'[k]] \in located'[k]
  BY <1>1, <1>2, WriterHere, P!WholeWrite DEF Fits, Whole
<1>4. \/ Returned(k, p) = {}
      \/ \E l \in located'[k] : Returned(k, p) = {l} /\ l.payload = p
  BY <1>3 DEF Returned
<1> QED BY <1>3, <1>4, WriterHere DEF Whole, p

LEMMA WriterRests ==
  ASSUME P!WriterInv, Whole, UNCHANGED writerVars
  PROVE  P!WriterInv' /\ Whole' /\ UNCHANGED located
<1>1. P!WriterInv'
  BY WriterHere, P!WriterStutter DEF writerVars, P!writerVars
<1> QED BY <1>1 DEF Whole, writerVars

\* A location that the writer handed out is read as the payload it was handed out for,
\* unless it is in a reused file.
LEMMA FoundThere ==
  ASSUME P!WriterInv, Whole, Fits, NEW k \in W!Kind, NEW p \in Payload, p[1] = k,
         NEW found, Points(found, p), ~Reused(k, found)
  PROVE  \A q : LeadsTo(k, found, q) <=> W!Bytes(p) = W!Bytes(q)
<1>1. PICK l \in located[k] : found = {l} /\ l.payload = p /\ l.file \notin reused[k]
  BY DEF Points, Reused
<1>2. P!read_block(k, l) = P!Bytes(p)
  BY <1>1, WriterHere, P!AllReadsBack DEF Fits, Whole
<1>3. W!read_block(k, l) = W!Bytes(p)
  BY <1>2 DEF P!read_block, W!read_block, P!Bytes, W!Bytes, P!Uninitialised, W!Uninitialised
<1> QED BY <1>1, <1>3 DEF LeadsTo

\* Different payloads have different bytes.
LEMMA BytesDiffer ==
  ASSUME NEW p \in Payload, NEW q \in Payload, W!Bytes(p) = W!Bytes(q)
  PROVE  p = q
<1>1. Size[p] \in Nat /\ Size[p] > 0 /\ Size[q] \in Nat /\ Size[q] > 0
  BY FilesAssumption DEF W!WriterAssumption
<1>2. W!Bytes(p)[1] = <<p, 1>> /\ W!Bytes(q)[1] = <<q, 1>>
  BY <1>1 DEF W!Bytes
<1> QED BY <1>2

-----------------------------------------------------------------------------
(* Records and their locations. *)

\* The same of the FileInfos handed out after a step.
PointsNext(found, p) == \E l \in located'[p[1]] : found = {l} /\ l.payload = p
Grown == \A j \in W!Kind : located[j] \subseteq located'[j]

LEMMA PointsStay ==
  ASSUME Grown, NEW p, p[1] \in W!Kind, NEW found, Points(found, p)
  PROVE  PointsNext(found, p)
BY DEF Grown, Points, PointsNext

LEMMA LocatedStays ==
  ASSUME Located, Grown, UNCHANGED <<locations, block_records>>
  PROVE  Located'
<1> SUFFICES ASSUME NEW h \in DOMAIN locations
             PROVE  /\ PointsNext(locations[h].blocks, <<"blocks", block_records[h].block>>)
                    /\ \/ locations[h].undo_blocks = {} /\ block_records[h].undo = 0
                       \/ /\ PointsNext(locations[h].undo_blocks,
                                        <<"undo_blocks", block_records[h].block>>)
                          /\ block_records[h].undo = Len(BlockTxs[block_records[h].block])
  BY DEF Located, Points, PointsNext
<1>1. <<"blocks", block_records[h].block>>[1] \in W!Kind
      /\ <<"undo_blocks", block_records[h].block>>[1] \in W!Kind
  BY WriterHere
<1> QED BY <1>1, PointsStay DEF Located

LEMMA NowLocated ==
  ASSUME Located, Grown, NEW b \in Block, NEW record, record.block = b,
         block_records' = WithRecord(b, record),
         NEW found, NEW undo, Locate(b, found, undo),
         PointsNext(found, <<"blocks", b>>),
         \/ undo = {} /\ record.undo = 0
         \/ PointsNext(undo, <<"undo_blocks", b>>) /\ record.undo = Len(BlockTxs[b])
  PROVE  Located'
<1>1. /\ DOMAIN block_records' = DOMAIN block_records \cup {BlockHash[b]}
      /\ DOMAIN locations' = DOMAIN locations \cup {BlockHash[b]}
      /\ DOMAIN locations = DOMAIN block_records
  BY DEF WithRecord, Locate, Located
<1>2. ASSUME NEW h \in DOMAIN locations'
      PROVE  /\ PointsNext(locations'[h].blocks, <<"blocks", block_records'[h].block>>)
             /\ \/ locations'[h].undo_blocks = {} /\ block_records'[h].undo = 0
                \/ /\ PointsNext(locations'[h].undo_blocks,
                                 <<"undo_blocks", block_records'[h].block>>)
                   /\ block_records'[h].undo = Len(BlockTxs[block_records'[h].block])
  <2>1. CASE h = BlockHash[b]
    <3>1. block_records'[h] = record /\ locations'[h] = [blocks |-> found, undo_blocks |-> undo]
      BY <1>1, <2>1 DEF WithRecord, Locate
    <3> QED BY <3>1
  <2>2. CASE h # BlockHash[b]
    <3>1. /\ h \in DOMAIN locations
          /\ block_records'[h] = block_records[h] /\ locations'[h] = locations[h]
      BY <1>1, <2>2 DEF WithRecord, Locate
    <3>2. <<"blocks", block_records[h].block>>[1] \in W!Kind
          /\ <<"undo_blocks", block_records[h].block>>[1] \in W!Kind
      BY WriterHere
    <3> QED BY <3>1, <3>2, PointsStay DEF Located
  <2> QED BY <2>1, <2>2
<1> QED BY <1>1, <1>2 DEF Located, Points, PointsNext

LEMMA SecondElement ==
  ASSUME NEW S, NEW s \in Seq(S), NEW g \in S, Len(s) = 1
  PROVE  Append(s, g) = <<s[1], g>>
<1> DEFINE t == Append(s, g)
<1>1. t \in Seq(S) /\ Len(t) = 2
  OBVIOUS
<1>2. t[1] = s[1]
  BY AppendProperties
<1>3. t[2] = g
  BY AppendProperties
<1> HIDE DEF t
<1>4. t = <<s[1], g>>
  BY <1>1, <1>2, <1>3
<1> QED BY <1>4 DEF t

LEMMA Appending ==
  /\ \A f : Append(<<>>, f) = <<f>>
  /\ \A f, g : Append(<<f>>, g) = <<f, g>>
<1>1. ASSUME NEW f
      PROVE  Append(<<>>, f) = <<f>>
  <2>1. <<>> \in Seq({f}) /\ f \in {f}
    OBVIOUS
  <2> QED BY <2>1
<1>2. ASSUME NEW f, NEW g
      PROVE  Append(<<f>>, g) = <<f, g>>
  <2>1. <<f>> \in Seq({f, g}) /\ g \in {f, g} /\ Len(<<f>>) = 1 /\ <<f>>[1] = f
    OBVIOUS
  <2> QED BY <2>1, SecondElement
<1> QED BY <1>1, <1>2

\* A step that leaves the call in progress alone.
LEMMA HandedStays ==
  ASSUME Handed, Grown, UNCHANGED written,
         \/ UNCHANGED <<handler, block>>
         \/ written = <<>> /\ handler' # "constructing"
  PROVE  Handed'
<1>1. CASE written = <<>> /\ handler' # "constructing"
  BY <1>1 DEF Handed
<1>2. CASE UNCHANGED <<handler, block>>
  <2>1. \A p, found : p[1] \in W!Kind /\ (found = {} \/ Points(found, p))
          => found = {} \/ PointsNext(found, p)
    BY PointsStay
  <2>2. /\ <<"blocks", block>>[1] \in W!Kind
        /\ <<"undo_blocks", block>>[1] \in W!Kind
    BY WriterHere
  <2>3. \A found : /\ Gives(found, <<"blocks", block>>)
                     => found = {} \/ PointsNext(found, <<"blocks", block>>)
                   /\ Gives(found, <<"undo_blocks", block>>)
                     => found = {} \/ PointsNext(found, <<"undo_blocks", block>>)
    BY <2>1, <2>2 DEF Gives
  <2>4. CASE written = <<>>
    BY <1>2, <2>4 DEF Handed
  <2>5. ASSUME NEW found, Gives(found, <<"blocks", block>>), written = <<found>>
        PROVE  Handed'
    <3>1. found = {} \/ PointsNext(found, <<"blocks", block>>)
      BY <2>3, <2>5
    <3> QED BY <1>2, <2>5, <3>1 DEF Handed, Gives, Points, PointsNext
  <2>6. ASSUME NEW found, Gives(found, <<"blocks", block>>),
               NEW undo, Gives(undo, <<"undo_blocks", block>>), written = <<found, undo>>
        PROVE  Handed'
    <3>1. /\ found = {} \/ PointsNext(found, <<"blocks", block>>)
          /\ undo = {} \/ PointsNext(undo, <<"undo_blocks", block>>)
      BY <2>3, <2>6
    <3> QED BY <1>2, <2>6, <3>1 DEF Handed, Gives, Points, PointsNext
  <2> QED BY <2>4, <2>5, <2>6 DEF Handed
<1> QED BY <1>1, <1>2

\* What the call in progress holds, by how much it holds.
LEMMA HandedByLength ==
  ASSUME Handed
  PROVE  /\ Len(written) = 0 => written = <<>>
         /\ Len(written) = 1 => \E f : written = <<f>> /\ Gives(f, <<"blocks", block>>)
         /\ Len(written) = 2 => \E f, g : /\ written = <<f, g>>
                                         /\ Gives(f, <<"blocks", block>>)
                                         /\ Gives(g, <<"undo_blocks", block>>)
         /\ handler \notin {"constructing", "extending"} => written = <<>>
<1>1. Len(<<>>) = 0 /\ (\A f : Len(<<f>>) = 1) /\ \A f, g : Len(<<f, g>>) = 2
  OBVIOUS
<1> QED BY <1>1 DEF Handed

LEMMA StoreFileLinks ==
  ASSUME Fits, ChainInv, Linked, StoreBlockFile \/ StoreUndoFile
  PROVE  Linked'
<1>1. /\ handler \in {"constructing", "extending"} /\ block \in Block
      /\ UNCHANGED <<handler, block, block_records, locations>>
  BY DEF StoreBlockFile, StoreUndoFile, StoreFile, StoresBlock, vars, chainVars, ChainInv, ChainTypeOK
<1>2. "blocks" \in W!Kind /\ "undo_blocks" \in W!Kind
  BY WriterHere
<1>3. ASSUME NEW k \in W!Kind, StoreFile(k)
      PROVE  /\ P!WriterInv' /\ Whole' /\ Grown
             /\ \/ Returned(k, <<k, block>>) = {}
                \/ PointsNext(Returned(k, <<k, block>>), <<k, block>>)
  BY <1>1, <1>3, FilesWrite DEF StoreFile, Linked, Grown, PointsNext
<1>4. CASE StoreBlockFile
  <2> DEFINE f == Returned("blocks", <<"blocks", block>>)
  <2>1. StoreFile("blocks") /\ written' = Append(written, f) /\ written = <<>>
    BY <1>4, HandedByLength DEF StoreBlockFile, StoreFile, Linked
  <2>2. P!WriterInv' /\ Whole' /\ Grown /\ (f = {} \/ PointsNext(f, <<"blocks", block>>))
    BY <1>2, <1>3, <2>1
  <2> HIDE DEF f
  <2>3. written' = <<f>>
    BY <2>1, Appending
  <2>4. Handed'
    BY <1>1, <2>2, <2>3 DEF Linked, Handed, Gives, Points, PointsNext
  <2> QED BY <1>1, <2>2, <2>4, LocatedStays DEF Linked
<1>5. CASE StoreUndoFile
  <2> DEFINE g == Returned("undo_blocks", <<"undo_blocks", block>>)
  <2>1. StoreFile("undo_blocks") /\ written' = Append(written, g)
    BY <1>5 DEF StoreUndoFile, StoreFile
  <2>2. PICK f : written = <<f>> /\ Gives(f, <<"blocks", block>>)
    BY <1>5, HandedByLength DEF StoreUndoFile, Linked
  <2>3. P!WriterInv' /\ Whole' /\ Grown /\ (g = {} \/ PointsNext(g, <<"undo_blocks", block>>))
    BY <1>2, <1>3, <2>1
  <2> HIDE DEF g
  <2>4. written' = <<f, g>>
    BY <2>1, <2>2, Appending
  <2>5. f = {} \/ PointsNext(f, <<"blocks", block>>)
    <3>1. <<"blocks", block>>[1] \in W!Kind
      BY <1>2
    <3> QED BY <2>2, <2>3, <3>1, PointsStay DEF Gives
  <2>6. Handed'
    BY <1>1, <2>3, <2>4, <2>5 DEF Linked, Handed, Gives, Points, PointsNext
  <2> QED BY <1>1, <2>3, <2>6, LocatedStays DEF Linked
<1> QED BY <1>4, <1>5

LEMMA StoredLinks ==
  ASSUME ChainInv, Linked, Stored
  PROVE  Linked'
<1>1. PICK f, g : /\ written = <<f, g>>
                  /\ Gives(f, <<"blocks", block>>) /\ Gives(g, <<"undo_blocks", block>>)
  BY HandedByLength DEF Stored, Linked
<1>2. f # {} /\ g # {}
  <2>1. 1 \in DOMAIN written /\ 2 \in DOMAIN written /\ written[1] = f /\ written[2] = g
    BY <1>1
  <2> QED BY <2>1 DEF Stored, SomeMissing
<1>3. P!WriterInv' /\ Whole' /\ UNCHANGED located
  BY WriterRests DEF Stored, Linked
<1>4. /\ PointsNext(f, <<"blocks", block>>) /\ PointsNext(g, <<"undo_blocks", block>>) /\ Grown
  BY <1>1, <1>2, <1>3 DEF Gives, Points, PointsNext, Grown
<1>5. /\ written' = <<>> /\ handler' # "constructing" /\ Locate(block, f, g) /\ block \in Block
  BY <1>1 DEF Stored, Construct, Extend, ChainInv, ChainTypeOK
<1>6. PICK height : block_records' = WithRecord(block, RecordOf(block, height, Len(BlockTxs[block])))
  <2>1. CASE Construct
    <3>1. block = Genesis
      BY <2>1 DEF Construct, Linked, Handed
    <3> QED BY <2>1, <3>1 DEF Construct
  <2>2. CASE Extend
    BY <2>2 DEF Extend
  <2> QED BY <2>1, <2>2 DEF Stored
<1> DEFINE record == RecordOf(block, height, Len(BlockTxs[block]))
<1>7. record.block = block /\ record.undo = Len(BlockTxs[block])
  BY DEF RecordOf
<1> HIDE DEF record
<1>8. Located'
  BY <1>4, <1>5, <1>6, <1>7, NowLocated DEF Linked, record
<1>9. Handed'
  BY <1>5 DEF Handed
<1> QED BY <1>3, <1>8, <1>9 DEF Linked

LEMMA ForkLinks ==
  ASSUME Fits, ChainInv, Linked, NEW b \in Block, FilesFork(b)
  PROVE  Linked'
<1> DEFINE f == Returned("blocks", <<"blocks", b>>)
<1>1. /\ handler = "idle" /\ handler' # "constructing" /\ block_records' = ForkRecords(b)
      /\ W!Write("blocks", <<"blocks", b>>, Size[<<"blocks", b>>])
      /\ f # {} /\ Locate(b, f, {}) /\ UNCHANGED written
  BY DEF FilesFork, HandleFork, OvertakeDies, Overtake, Overtakes, OffTip, Delivered
<1>2. P!WriterInv' /\ Whole' /\ Grown /\ PointsNext(f, <<"blocks", b>>)
  BY <1>1, FilesWrite, WriterHere DEF Linked, Grown, PointsNext
<1> HIDE DEF f
<1>3. written = <<>>
  BY <1>1, HandedByLength DEF Linked
<1> DEFINE record == RecordOf(b, ForkHeight(b), 0)
<1>4. record.block = b /\ record.undo = 0 /\ block_records' = WithRecord(b, record)
  BY <1>1 DEF RecordOf, ForkRecords
<1> HIDE DEF record
<1>5. Located'
  BY <1>1, <1>2, <1>4, NowLocated DEF Linked
<1>6. Handed'
  BY <1>1, <1>2, <1>3, HandedStays DEF Linked
<1> QED BY <1>2, <1>5, <1>6 DEF Linked

\* A step that leaves the files, the records and their locations alone.
LEMMA RestLinks ==
  ASSUME Linked, UNCHANGED fileVars, UNCHANGED block_records,
         \/ UNCHANGED <<handler, block>>
         \/ handler \notin {"constructing", "extending"} /\ handler' # "constructing"
  PROVE  Linked'
<1>1. P!WriterInv' /\ Whole' /\ Grown
  BY WriterRests DEF Linked, fileVars, Grown
<1>2. UNCHANGED <<written, locations>>
  BY DEF fileVars
<1>3. handler \notin {"constructing", "extending"} => written = <<>>
  BY HandedByLength DEF Linked
<1> QED BY <1>1, <1>2, <1>3, LocatedStays, HandedStays DEF Linked

LEMMA LinkedStep ==
  ASSUME Fits, ChainInv, Linked, [FilesNext]_<<vars, fileVars>>
  PROVE  Linked'
<1>1. CASE FileMissing \/ StoredDies
  BY <1>1, RestLinks DEF FileMissing, StoredDies, ExtendDies, chainVars
<1>2. CASE Walk /\ UNCHANGED <<chainVars, fileVars>>
  BY <1>2, RestLinks DEF chainVars
<1>3. CASE (Constructed \/ TakeOver) /\ UNCHANGED fileVars
  BY <1>3, RestLinks DEF Constructed, TakeOver
<1>4. ASSUME NEW b \in Block, FilesOnTip(b)
      PROVE  Linked'
  BY <1>4, RestLinks DEF FilesOnTip, HandleInvalid, HandleOnTip, Delivered, chainVars
<1>5. ASSUME NEW b \in Block, FilesForkMissing(b)
      PROVE  Linked'
  <2>1. /\ UNCHANGED <<handler, block, block_records, locations, written>>
        /\ W!Write("blocks", <<"blocks", b>>, Size[<<"blocks", b>>])
    BY <1>5 DEF FilesForkMissing, chainVars
  <2>2. P!WriterInv' /\ Whole' /\ Grown
    BY <2>1, FilesWrite, WriterHere DEF Linked, Grown
  <2> QED BY <2>1, <2>2, LocatedStays, HandedStays DEF Linked
<1>6. ASSUME NEW t \in Transaction, handle_transaction(t), UNCHANGED fileVars
      PROVE  Linked'
  BY <1>6, RestLinks DEF handle_transaction, chainVars
<1>7. CASE UNCHANGED <<vars, fileVars>>
  BY <1>7, RestLinks DEF vars, chainVars
<1> QED BY <1>1, <1>2, <1>3, <1>4, <1>5, <1>6, <1>7, StoreFileLinks, StoredLinks, ForkLinks
        DEF FilesNext, FilesContinue, FilesHandleBlock

LEMMA FilesStart ==
  ASSUME FilesInit
  PROVE  /\ PathInv /\ Sourced
         /\ Linked
<1>1. PathInv
  BY ChainInit_Inv, HeightStart, RootStart DEF FilesInit, PathInv
<1>2. Sourced
  <2>1. (\A c \in Locator : created[c] = 0) /\ transactions = <<>>
    BY DEF FilesInit, ChainInit, CoinInit
  <2> QED BY <2>1 DEF Sourced
<1>3. P!WriterInv
  <2>1. P!WriterInit
    BY DEF FilesInit, W!WriterInit, P!WriterInit, W!Kind, P!Kind, W!FileNumber, P!FileNumber
  <2> QED BY <2>1, WriterHere, P!WriterStart
<1>4. Whole
  BY DEF FilesInit, W!WriterInit, Whole
<1>5. Located
  BY DEF FilesInit, ChainInit, Located
<1>6. Handed
  BY DEF FilesInit, ChainInit, Handed
<1> QED BY <1>1, <1>2, <1>3, <1>4, <1>5, <1>6 DEF Linked

-----------------------------------------------------------------------------
(* Reading the files. *)

LEMMA RecordsRead ==
  ASSUME Fits, ChainInv, Linked
  PROVE  RecordsLeadToBlocks
<1> SUFFICES ASSUME NEW h \in DOMAIN locations
             PROVE  LET record == block_records[h]
                        found == locations[h]
                    IN  /\ Reused("blocks", found.blocks)
                           \/ LeadsTo("blocks", found.blocks, <<"blocks", record.block>>)
                        /\ \/ found.undo_blocks = {} /\ record.undo = 0
                           \/ /\ Reused("undo_blocks", found.undo_blocks)
                                 \/ LeadsTo("undo_blocks", found.undo_blocks,
                                            <<"undo_blocks", record.block>>)
                              /\ record.undo = Len(BlockTxs[record.block])
  BY DEF RecordsLeadToBlocks, Linked, Located
<1> DEFINE b == block_records[h].block
<1>1. b \in Block
  BY RecordsType DEF ChainInv, BlockRecord, Linked, Located
<1> HIDE DEF b
<1>2. ASSUME NEW k \in W!Kind, NEW found, Points(found, <<k, b>>)
      PROVE  Reused(k, found) \/ LeadsTo(k, found, <<k, b>>)
  <2>1. <<k, b>> \in Payload /\ <<k, b>>[1] = k
    BY <1>1, WriterHere DEF Payload
  <2> QED BY <1>2, <2>1, FoundThere DEF Linked
<1>3. "blocks" \in W!Kind /\ "undo_blocks" \in W!Kind
  BY WriterHere
<1> QED BY <1>2, <1>3 DEF Linked, Located, b

\* Reading a record's block yields that block while no block file is reused.
LEMMA GetBlock ==
  ASSUME Fits, ChainInv, Linked, reused["blocks"] = {}, NEW h \in DOMAIN block_records
  PROVE  get_block(h) = block_records[h].block
<1> DEFINE b == block_records[h].block
           p(a) == <<"blocks", a>>
           reads(a) == LeadsTo("blocks", locations[h].blocks, p(a))
<1>1. b \in Block
  BY RecordsType DEF ChainInv, BlockRecord
<1>2. h \in DOMAIN locations /\ Points(locations[h].blocks, p(b))
  BY DEF Linked, Located
<1> HIDE DEF b
<1>3. \A a \in Block : p(a) \in Payload
  BY DEF Payload
<1>4. \A a : reads(a) <=> W!Bytes(p(b)) = W!Bytes(p(a))
  <2>1. "blocks" \in W!Kind /\ p(b)[1] = "blocks"
    BY WriterHere
  <2>2. ~Reused("blocks", locations[h].blocks)
    BY DEF Reused
  <2> QED BY <1>1, <1>2, <1>3, <2>1, <2>2, FoundThere DEF Linked
<1>5. ASSUME NEW a \in Block
      PROVE  reads(a) <=> a = b
  <2>1. W!Bytes(p(b)) = W!Bytes(p(a)) => p(b) = p(a)
    BY <1>1, <1>3, BytesDiffer
  <2> QED BY <1>4, <2>1
<1> HIDE DEF reads
<1>6. (CHOOSE a \in Block : reads(a)) = b
  BY <1>1, <1>5
<1>7. get_block(h) = CHOOSE a \in Block : reads(a)
  BY <1>1, <1>2, <1>5 DEF get_block, reads
<1> QED BY <1>6, <1>7 DEF b

LEMMA Larger ==
  ASSUME NEW a \in Int, NEW b \in Int
  PROVE  /\ Max({a, b}) = IF a >= b THEN a ELSE b
         /\ Min({a, b}) = IF a <= b THEN a ELSE b
BY DEF Max, Min

\* A record on the active chain's path: its block, height and parent.
LEMMA OnPath ==
  ASSUME ChainInv, NEW p, NEW h, NEW n, Rooted(block_records, p, h, n), NEW i \in 1 .. n
  PROVE  LET b == block_records[p[i]].block IN
         /\ p[i] \in DOMAIN block_records /\ b \in Block /\ BlockHash[b] = p[i]
         /\ HeightIn(block_records, p[i]) = i
         /\ i > 1 => BlockPrev[b] = p[i - 1]
<1>1. p[i] \in DOMAIN block_records /\ block_records[p[i]].height = i
  BY DEF Rooted
<1>2. ASSUME i > 1
      PROVE  p[i - 1] = block_records[p[i]].prev
  <2>1. n \in Nat /\ i - 1 \in 1 .. n - 1 /\ (i - 1) + 1 = i
    BY <1>2 DEF Rooted
  <2> QED BY <2>1 DEF Rooted
<1> QED BY <1>1, <1>2, PathBlocks DEF HeightIn, ChainInv, RecordsOwn

LEMMA ChainsRead ==
  ASSUME BlocksDistinct, Fits, PathInv, Linked
  PROVE  AnswersAreChains
<1> DEFINE n == active_chain_length
           hashes == get_active_chain_hashes
           readable == reused["blocks"] = {}
<1> SUFFICES ASSUME AtRest, readable, NEW start \in 0 .. n + 1, NEW end \in 0 .. n + 1
             PROVE  LET answer == get_active_chain(start, end)
                        lowest == Max({1, start})
                        highest == Min({n, end})
                    IN  /\ Len(answer) = Max({0, highest - lowest + 1})
                        /\ \A i \in DOMAIN answer :
                             /\ answer[i] # NoBlock
                             /\ HeightIn(block_records, BlockHash[answer[i]]) = lowest + i - 1
                             /\ i > 1 => BlockPrev[answer[i]] = BlockHash[answer[i - 1]]
                        /\ answer # <<>> /\ highest = n
                             => answer[Len(answer)] = active_chain_last_block
  BY DEF AnswersAreChains
<1> HIDE DEF readable
<1>1. PICK p : Rooted(block_records, p, get_last_block_hash, n)
  BY DEF PathInv, RootInv, AtRest
<1>2. n \in Nat \ {0} /\ \A i \in 1 .. n : hashes[i] = p[i]
  BY <1>1, RootedIsPath DEF get_active_chain_hashes
<1> DEFINE lowest == Max({1, start})
           highest == Min({n, end})
           size == highest - lowest + 1
           asked == IF end < start THEN <<>> ELSE SubSeq(hashes, lowest, highest)
           answer == [i \in DOMAIN asked |-> get_block(asked[i])]
<1>3. get_active_chain(start, end) = answer
  BY DEF get_active_chain
<1>4. /\ start \in Nat /\ end \in Nat /\ lowest \in Nat /\ highest \in Nat /\ size \in Int
      /\ 1 <= lowest /\ highest <= n /\ (end < start => size <= 0)
  <2>1. n \in Int /\ n >= 1 /\ start \in Nat /\ end \in Nat
    BY <1>2
  <2>2. /\ lowest = IF 1 >= start THEN 1 ELSE start
        /\ highest = IF n <= end THEN n ELSE end
    BY <2>1, Larger
  <2> HIDE DEF lowest, highest
  <2> QED BY <2>1, <2>2
<1> HIDE DEF lowest, highest, hashes, n
<1>5. /\ DOMAIN asked = 1 .. size
      /\ \A i \in 1 .. size : asked[i] = p[lowest + i - 1]
  <2>1. CASE end < start
    <3>1. asked = <<>> /\ 1 .. size = {}
      BY <1>4, <2>1
    <3> QED BY <2>1, <3>1
  <2>2. CASE ~(end < start)
    <3> DEFINE s == SubSeq(hashes, lowest, highest)
               S == {hashes[i] : i \in lowest .. highest}
    <3>1. \A i \in lowest .. highest : hashes[i] \in S
      OBVIOUS
    <3> HIDE DEF S
    <3>2. /\ s \in Seq(S) /\ Len(s) = IF lowest <= highest THEN highest - lowest + 1 ELSE 0
          /\ \A i \in 1 .. highest - lowest + 1 : s[i] = hashes[lowest + i - 1]
      BY <1>4, <3>1, SubSeqProperties
    <3> HIDE DEF s
    <3>3. DOMAIN s = 1 .. size
      BY <1>4, <3>2
    <3>4. ASSUME NEW i \in 1 .. size
          PROVE  s[i] = p[lowest + i - 1]
      <4>1. lowest + i - 1 \in 1 .. n
        BY <1>2, <1>4
      <4> QED BY <1>2, <3>2, <4>1
    <3> QED BY <2>2, <3>3, <3>4 DEF s
  <2> QED BY <2>1, <2>2
<1> HIDE DEF asked
<1>6. ASSUME NEW i \in 1 .. size
      PROVE  /\ lowest + i - 1 \in 1 .. n
             /\ p[lowest + i - 1] \in DOMAIN block_records
             /\ answer[i] = block_records[p[lowest + i - 1]].block
  <2>1. lowest + i - 1 \in 1 .. n
    BY <1>2, <1>4
  <2>2. p[lowest + i - 1] \in DOMAIN block_records
    BY <1>1, <2>1 DEF Rooted
  <2> QED BY <1>5, <2>1, <2>2, GetBlock DEF PathInv, readable
<1>7. DOMAIN answer = 1 .. size
  BY <1>5
<1> HIDE DEF answer
<1>8. ASSUME NEW i \in 1 .. size
      PROVE  /\ answer[i] \in Block /\ BlockHash[answer[i]] = p[lowest + i - 1]
             /\ HeightIn(block_records, BlockHash[answer[i]]) = lowest + i - 1
             /\ i > 1 => BlockPrev[answer[i]] = BlockHash[answer[i - 1]]
  <2> DEFINE j == lowest + i - 1
  <2>1. j \in 1 .. n /\ answer[i] = block_records[p[j]].block
    BY <1>6
  <2> HIDE DEF j
  <2>2. /\ answer[i] \in Block /\ BlockHash[answer[i]] = p[j]
        /\ HeightIn(block_records, p[j]) = j
        /\ j > 1 => BlockPrev[answer[i]] = p[j - 1]
    BY <1>1, <2>1, OnPath DEF PathInv
  <2>3. ASSUME i > 1
        PROVE  BlockPrev[answer[i]] = BlockHash[answer[i - 1]]
    <3>1. i - 1 \in 1 .. size /\ lowest + (i - 1) - 1 = j - 1 /\ j > 1
      BY <1>4, <2>3 DEF j
    <3>2. j - 1 \in 1 .. n /\ answer[i - 1] = block_records[p[j - 1]].block
      BY <1>6, <3>1
    <3>3. BlockHash[answer[i - 1]] = p[j - 1]
      BY <1>1, <3>2, PathBlocks DEF PathInv
    <3> QED BY <2>2, <3>1, <3>3
  <2> QED BY <2>2, <2>3 DEF j
<1>9. Len(answer) = Max({0, size})
  <2> DEFINE m == IF 0 >= size THEN 0 ELSE size
  <2>1. m \in Nat /\ 1 .. size = 1 .. m /\ Max({0, size}) = m
    BY <1>4, Larger
  <2> HIDE DEF m
  <2>2. answer = [i \in 1 .. m |-> get_block(asked[i])]
    BY <1>5, <2>1 DEF answer
  <2>3. Len(answer) = m
    BY <2>1, <2>2
  <2> QED BY <2>1, <2>3
<1>10. ASSUME answer # <<>>, highest = n
       PROVE  answer[Len(answer)] = active_chain_last_block
  <2>1. size > 0
    <3> SUFFICES ASSUME size <= 0 PROVE FALSE
      BY <1>4
    <3>1. DOMAIN asked = {}
      BY <1>4, <1>5
    <3> QED BY <1>10, <3>1 DEF answer
  <2>2. Len(answer) = size /\ size \in 1 .. size
    BY <1>4, <1>9, <2>1, Larger
  <2>3. lowest + size - 1 = n
    BY <1>2, <1>4, <1>10
  <2>4. answer[size] \in Block /\ BlockHash[answer[size]] = p[n]
    BY <1>8, <2>2, <2>3
  <2>5. p[n] = BlockHash[active_chain_last_block] /\ active_chain_last_block \in Block
    BY <1>1 DEF Rooted, get_last_block_hash, PathInv, ChainInv, ChainTypeOK
  <2> QED BY <2>2, <2>4, <2>5 DEF BlocksDistinct
<1>11. \A i \in 1 .. size : answer[i] # NoBlock
  BY <1>8, FilesAssumption
<1> QED BY <1>3, <1>7, <1>8, <1>9, <1>10, <1>11 DEF lowest, highest, n

-----------------------------------------------------------------------------

LEMMA FilesChainInvariant == FilesSpec => []ChainInv
<1>1. FilesInit => ChainInv
  BY FilesStart DEF PathInv
<1>2. ChainInv /\ [FilesNext]_<<vars, fileVars>> => ChainInv'
  BY FilesChainStep
<1> QED BY <1>1, <1>2, PTL DEF FilesSpec

LEMMA FilesPathInvariant == ASSUME BlocksDistinct PROVE FilesSpec => [](PathInv /\ Sourced)
<1> DEFINE I == PathInv /\ Sourced
<1>1. FilesInit => I
  BY FilesStart
<1>2. I /\ [FilesNext]_<<vars, fileVars>> => I'
  BY FilesPathStep, SourcedStep
<1> QED BY <1>1, <1>2, PTL DEF FilesSpec

\* What links the chain's records, the call in progress and the writer is never broken.
THEOREM FilesInvariant ==
  ASSUME Fits
  PROVE  FilesSpec => []Linked
<1>1. FilesInit => Linked
  BY FilesStart
<1>2. ChainInv /\ Linked /\ [FilesNext]_<<vars, fileVars>> => Linked'
  BY LinkedStep
<1> QED BY <1>1, <1>2, FilesChainInvariant, PTL DEF FilesSpec

\* The locations in a BlockRecord, which handle_block and the constructor take from
\* the FileInfos that ChainWriter::store_block returns, yield the record's block, and
\* its undo block or nothing: however often a block is delivered again and its record
\* overwritten, whatever files are filled meanwhile, and wherever one cannot be opened,
\* provided that a wrapped file number did not lead the writer back to that file.
THEOREM RecordsReadBack ==
  ASSUME Fits
  PROVE  FilesSpec => []RecordsLeadToBlocks
<1>1. ChainInv /\ Linked => RecordsLeadToBlocks
  BY RecordsRead
<1> QED BY <1>1, FilesChainInvariant, FilesInvariant, PTL

\* handle_block stores the coins of a block before it writes and records the block;
\* still, between calls every coin that can be spent is from a recorded block,
\* because a file that cannot be opened in between ends the process.
THEOREM CoinsHaveBlocks ==
  ASSUME BlocksDistinct
  PROVE  FilesSpec => []NoCoinWithoutBlock
<1>1. ASSUME PathInv, Sourced
      PROVE  NoCoinWithoutBlock
  <2> SUFFICES ASSUME AtRest, NEW c \in Locator, Available(c)
               PROVE  \E h \in DOMAIN block_records :
                        \E k \in DOMAIN BlockTxs[block_records[h].block] :
                          c[1] = TxHash[BlockTxs[block_records[h].block][k]]
    BY DEF NoCoinWithoutBlock
  <2>1. CoinTypeOK /\ NoCoinFromNothing
    BY <1>1 DEF PathInv, ChainInv, CoinInv
  <2>2. Copies(c) \in Nat /\ created[c] \in Nat
    BY <2>1, CopiesType DEF CoinTypeOK
  <2>3. created[c] > 0
    BY <2>1, <2>2, AvailableIsThere DEF NoCoinFromNothing
  <2>4. Known(c[1]) /\ handler = "idle"
    BY <1>1, <2>3 DEF Sourced, AtRest
  <2> QED BY <2>4 DEF Known, Lists
<1> QED BY <1>1, FilesPathInvariant, PTL

\* Chain::get_active_chain reads a chain from the files, whatever range is asked for:
\* the active blocks in the order of their heights, each the parent of the next, up
\* to the tip when the range reaches that far, and never a null block, as long as no
\* wrapped file number has led the writer back to a block file that held something.
THEOREM ChainsReadBack ==
  ASSUME BlocksDistinct, Fits
  PROVE  FilesSpec => []AnswersAreChains
<1>1. PathInv /\ Linked => AnswersAreChains
  BY ChainsRead
<1> QED BY <1>1, FilesPathInvariant, FilesInvariant, PTL

=============================================================================
