------------------------------ MODULE ChainFiles ----------------------------
(***************************************************************************)
(* The chain on top of its writer.  Chain records which block a location   *)
(* leads to; here handle_block and the constructor write the files, keep   *)
(* the locations they are handed, and meet files that cannot be opened,    *)
(* with the coins of the block already stored.  One process, in a fresh    *)
(* data directory, up to the call in which a wrapped file number first     *)
(* leads the writer back to a file that holds something: from then on      *)
(* locations may yield other bytes than the records stand for.             *)
(***************************************************************************)
EXTENDS Chain, FiniteSetsExt

CONSTANTS Size, MaxFileSize, OffsetRange, FileRange, SizeRange,
          MaxCalls  \* bound: handle_block is not called when more might be written

Payload == {"blocks", "undo_blocks"} \X Block

VARIABLES
  file, file_number, offset, located, cut, reused, calls,  \* of the writer
  written,   \* what the writer has returned in the call in progress: a set
             \* with the FileInfo, or without where it is nullptr
  locations  \* block hash -> the locations in its record, kept the same way

W == INSTANCE ChainWriter

NoBlock == "none"

ASSUME FilesAssumption == W!WriterAssumption /\ NoBlock \notin Block

writerVars == <<file, file_number, offset, located, cut, reused, calls>>
fileVars == <<writerVars, written, locations>>

FilesInit == ChainInit /\ W!WriterInit /\ written = <<>> /\ locations = [h \in {} |-> {}]

\* What the step that writes p hands back.
Returned(k, p) ==
  IF file' = file THEN {}
  ELSE {[payload |-> p, file |-> file_number'[k],
         start |-> (offset'[k] - Size[p]) % OffsetRange, end |-> offset'[k]]}

\* The record of b gets these locations.
Locate(b, block_info, undo_info) ==
  locations' = [h \in DOMAIN locations \cup {BlockHash[b]} |->
    IF h = BlockHash[b] THEN [blocks |-> block_info, undo_blocks |-> undo_info]
    ELSE locations[h]]

-----------------------------------------------------------------------------
(* The writer's store_block: a block file, then an undo file, whether or   *)
(* not the first could be opened.                                          *)

StoresBlock == handler \in {"constructing", "extending"} /\ status = "idle"

StoreFile(k) ==
  /\ StoresBlock
  /\ W!Write(k, <<k, block>>, Size[<<k, block>>])
  /\ written' = Append(written, Returned(k, <<k, block>>))
  /\ UNCHANGED <<vars, locations>>

StoreBlockFile == Len(written) = 0 /\ StoreFile("blocks")
StoreUndoFile ==
  Len(written) = 1 /\ ~ReadsNull(BlockTxs[block]) /\ StoreFile("undo_blocks")

SomeMissing == \E i \in DOMAIN written : written[i] = {}

\* Mutant: the block is given up.
FileMissingReturns ==
  /\ StoresBlock /\ Len(written) = 2 /\ SomeMissing
  /\ handler' = "idle" /\ written' = <<>>
  /\ UNCHANGED <<coinVars, tipVars, block_records, block, takeovers, writerVars, locations>>

\* The missing FileInfo is read to make the record.
FileMissing ==
  /\ StoresBlock /\ Len(written) = 2 /\ SomeMissing
  /\ status' = "dead"
  /\ UNCHANGED <<cacheVars, mempoolVars, transactions, cursor, historyVars,
                 chainVars, fileVars>>

\* Mutant: the record gets the locations the wrong way round.
StoredSwapped ==
  /\ Len(written) = 2 /\ ~SomeMissing
  /\ Construct \/ Extend
  /\ Locate(block, written[2], written[1]) /\ written' = <<>>
  /\ UNCHANGED writerVars

\* Both have been written: the record, and what the chain does with it.
Stored ==
  /\ Len(written) = 2 /\ ~SomeMissing
  /\ Construct \/ Extend
  /\ Locate(block, written[1], written[2]) /\ written' = <<>>
  /\ UNCHANGED writerVars

\* Serializing the undo block comes after writing the block.
StoredDies == Len(written) = 1 /\ ExtendDies /\ UNCHANGED fileVars

-----------------------------------------------------------------------------
(* handle_block. *)

\* On the tip, two files may be written.
FilesOnTip(b) ==
  /\ calls + 2 <= MaxCalls
  /\ HandleInvalid(b) \/ HandleOnTip(b)
  /\ UNCHANGED fileVars

\* Off the tip, the block is written and recorded with no undo location before
\* anything is read.
FilesFork(b) ==
  /\ W!Write("blocks", <<"blocks", b>>, Size[<<"blocks", b>>])
  /\ Returned("blocks", <<"blocks", b>>) # {}
  /\ HandleFork(b) \/ OvertakeDies(b) \/ Overtake(b)
  /\ Locate(b, Returned("blocks", <<"blocks", b>>), {})
  /\ UNCHANGED written

\* The missing FileInfo is read: nothing of the fork is recorded.
FilesForkMissing(b) ==
  /\ Delivered(b) /\ ~OnTip(b)
  /\ W!Write("blocks", <<"blocks", b>>, Size[<<"blocks", b>>])
  /\ Returned("blocks", <<"blocks", b>>) = {}
  /\ status' = "dead"
  /\ UNCHANGED <<main_cache, main_cache_size, mempoolVars, transactions, cursor,
                 historyVars, chainVars, written, locations>>

\* Bound: no block is handled once a file has been reused.
NoneReused == \A k \in W!Kind : reused[k] = {}

FilesHandleBlock(b) ==
  /\ NoneReused
  /\ FilesOnTip(b) \/ FilesFork(b) \/ FilesForkMissing(b)

FilesContinue ==
  \/ StoreBlockFile \/ StoreUndoFile \/ FileMissing \/ Stored \/ StoredDies
  \/ Walk /\ UNCHANGED <<chainVars, fileVars>>
  \/ (Constructed \/ TakeOver) /\ UNCHANGED fileVars

FilesNext ==
  \/ FilesContinue
  \/ \E b \in Block : FilesHandleBlock(b)
  \/ \E t \in Transaction : handle_transaction(t) /\ UNCHANGED fileVars

FilesSpec == FilesInit /\ [][FilesNext]_<<vars, fileVars>>

-----------------------------------------------------------------------------
(* Reading the files. *)

LeadsTo(k, found, p) ==
  \E location \in found : W!read_block(k, location) = W!Bytes(p)

\* Bytes that are no block's, those of an absent record among them, yield none.
get_block(h) ==
  IF \E b \in Block : h \in DOMAIN locations /\ LeadsTo("blocks", locations[h].blocks, <<"blocks", b>>)
  THEN CHOOSE b \in Block : LeadsTo("blocks", locations[h].blocks, <<"blocks", b>>)
  ELSE NoBlock

\* The blocks at the heights from start to end, both brought into the chain.
get_active_chain(start, end) ==
  LET hashes == IF end < start THEN <<>>
                ELSE SubSeq(get_active_chain_hashes,
                            Max({1, start}), Min({active_chain_length, end}))
  IN  [i \in DOMAIN hashes |-> get_block(hashes[i])]

-----------------------------------------------------------------------------
(* Properties. *)

Reused(k, found) == \E location \in found : location.file \in reused[k]

\* What Chain takes for granted of the writer: provided that a wrapped file number did
\* not lead back to the files they are in, and however often blocks were delivered
\* again, files were filled and records overwritten, a record's location yields its
\* block, and its undo location that block's undo block or nothing.
RecordsLeadToBlocks ==
  /\ DOMAIN locations = DOMAIN block_records
  /\ \A h \in DOMAIN locations :
       LET record == block_records[h]
           found == locations[h]
       IN  /\ Reused("blocks", found.blocks)
              \/ LeadsTo("blocks", found.blocks, <<"blocks", record.block>>)
           /\ \/ found.undo_blocks = {} /\ record.undo = 0
              \/ /\ Reused("undo_blocks", found.undo_blocks)
                    \/ LeadsTo("undo_blocks", found.undo_blocks, <<"undo_blocks", record.block>>)
                 /\ record.undo = Len(BlockTxs[record.block])

\* A coin that can be spent comes from a block that can be read back: a file that
\* could not be opened has never left the coins of a block without its record.
NoCoinWithoutBlock ==
  AtRest => \A c \in Locator : Available(c) =>
    \E h \in DOMAIN block_records : \E k \in DOMAIN BlockTxs[block_records[h].block] :
      c[1] = TxHash[BlockTxs[block_records[h].block][k]]

\* Provided that file numbers have not wrapped to a block file that held something,
\* whatever part of the active chain is asked for, what is read from the files is a
\* chain: every block is the parent of the next, the first and the last are at the
\* heights asked for or the nearest there are, and all are active.
AnswersAreChains ==
  AtRest /\ reused["blocks"] = {} => \A start, end \in 0 .. active_chain_length + 1 :
    LET answer == get_active_chain(start, end)
        lowest == Max({1, start})
        highest == Min({active_chain_length, end})
    IN  /\ Len(answer) = Max({0, highest - lowest + 1})
        /\ \A i \in DOMAIN answer :
             /\ answer[i] # NoBlock
             /\ HeightIn(block_records, BlockHash[answer[i]]) = lowest + i - 1
             /\ i > 1 => BlockPrev[answer[i]] = BlockHash[answer[i - 1]]
        /\ answer # <<>> /\ highest = active_chain_length
             => answer[Len(answer)] = active_chain_last_block

=============================================================================
