------------------------------ MODULE Primitives ----------------------------
(***************************************************************************)
(* The objects of the chain (core/src/primitives, and the records) and     *)
(* what their serialize and deserialize functions make of them.  An object *)
(* is a record of its members; a vector is a sequence.                     *)
(*                                                                         *)
(* A member that the code reads past the end of a vector is undefined: the *)
(* functions are applied only where nothing is read past.                  *)
(***************************************************************************)
EXTENDS CryptMessages

CONSTANT Hash(_)  \* CryptCrypto::hash of a sequence of bytes

UInt8(n) == n % 256
UInt16(n) == n % 65536

-----------------------------------------------------------------------------
(* Transactions. *)

ToPTransactionInput(txi) ==
  [PTransactionInput_Clear EXCEPT
    !.reference_transaction_hash = txi.reference_transaction_hash,
    !.signature = txi.signature, !.utxo_index = txi.utxo_index]

ToTransactionInput(ptxi) ==
  [reference_transaction_hash |-> ptxi.reference_transaction_hash,
   utxo_index |-> UInt8(ptxi.utxo_index), signature |-> ptxi.signature]

TransactionInput_serialize(txi) ==
  PTransactionInput_InternalSerialize(ToPTransactionInput(txi))
TransactionInput_deserialize(b) ==
  ToTransactionInput(ParseFromString("PTransactionInput", b))

ToPTransactionOutput(txo) ==
  [PTransactionOutput_Clear EXCEPT !.amount = txo.amount, !.public_key = txo.public_key]

ToTransactionOutput(ptxo) == [amount |-> ptxo.amount, public_key |-> ptxo.public_key]

TransactionOutput_serialize(txo) ==
  PTransactionOutput_InternalSerialize(ToPTransactionOutput(txo))
TransactionOutput_deserialize(b) ==
  ToTransactionOutput(ParseFromString("PTransactionOutput", b))

Each(F(_), list) == [k \in DOMAIN list |-> F(list[k])]

ToPTransaction(tx) ==
  [PTransaction_Clear EXCEPT
    !.version = tx.version, !.lock_time = tx.lock_time,
    !.transaction_inputs = Each(ToPTransactionInput, tx.transaction_inputs),
    !.transaction_outputs = Each(ToPTransactionOutput, tx.transaction_outputs)]

ToTransaction(ptx) ==
  [transaction_inputs |-> Each(ToTransactionInput, ptx.transaction_inputs),
   transaction_outputs |-> Each(ToTransactionOutput, ptx.transaction_outputs),
   version |-> UInt8(ptx.version), lock_time |-> ptx.lock_time]

Transaction_serialize(tx) == PTransaction_InternalSerialize(ToPTransaction(tx))
Transaction_deserialize(b) == ToTransaction(ParseFromString("PTransaction", b))

-----------------------------------------------------------------------------
(* Blocks. *)

ToPBlockHeader(header) ==
  [PBlockHeader_Clear EXCEPT
    !.version = header.version, !.previous_block_hash = header.previous_block_hash,
    !.merkle_root = header.merkle_root, !.difficulty_target = header.difficulty_target,
    !.nonce = header.nonce, !.timestamp = header.timestamp]

ToBlockHeader(pheader) ==
  [version |-> UInt8(pheader.version),
   previous_block_hash |-> pheader.previous_block_hash,
   merkle_root |-> pheader.merkle_root, difficulty_target |-> pheader.difficulty_target,
   nonce |-> pheader.nonce, timestamp |-> pheader.timestamp]

BlockHeader_serialize(header) == PBlockHeader_InternalSerialize(ToPBlockHeader(header))
BlockHeader_deserialize(b) == ToBlockHeader(ParseFromString("PBlockHeader", b))

\* block_header(): the default where none is set.
HeaderOf(p) ==
  ToBlockHeader(IF p.block_header = <<>> THEN PBlockHeader_Clear ELSE p.block_header[1])

ToPBlock(block) ==
  [PBlock_Clear EXCEPT
    !.block_header = <<ToPBlockHeader(block.block_header)>>,
    !.transactions = Each(ToPTransaction, block.transactions)]

Block_serialize(block) == PBlock_InternalSerialize(ToPBlock(block))

\* nullptr for an empty string.
NullBlock == <<>>

Block_deserialize(b) ==
  IF b = <<>> THEN NullBlock
  ELSE LET pblock == ParseFromString("PBlock", b)
       IN  [block_header |-> HeaderOf(pblock),
            transactions |-> Each(ToTransaction, pblock.transactions)]

-----------------------------------------------------------------------------
(* Records. *)

ToPBlockRecord(record) ==
  [PBlockRecord_Clear EXCEPT
    !.block_header = <<ToPBlockHeader(record.block_header)>>,
    !.height = record.height, !.num_transactions = record.num_transactions,
    !.block_file_stored = record.block_file_stored,
    !.block_offset_start = record.block_offset_start,
    !.block_offset_end = record.block_offset_end,
    !.undo_file_stored = record.undo_file_stored,
    !.undo_offset_start = record.undo_offset_start,
    !.undo_offset_end = record.undo_offset_end]

BlockRecord_serialize(record) == PBlockRecord_InternalSerialize(ToPBlockRecord(record))

\* Mutant: both locations get the block's end.
BlockRecord_deserializeEnds(b) ==
  LET p == ParseFromString("PBlockRecord", b) IN
  [block_header |-> HeaderOf(p), num_transactions |-> p.num_transactions,
   height |-> p.height,
   block_file_stored |-> p.block_file_stored,
   block_offset_start |-> UInt16(p.block_offset_start),
   block_offset_end |-> UInt16(p.block_offset_end),
   undo_file_stored |-> p.undo_file_stored,
   undo_offset_start |-> UInt16(p.undo_offset_start),
   undo_offset_end |-> UInt16(p.block_offset_end)]

BlockRecord_deserialize(b) ==
  LET p == ParseFromString("PBlockRecord", b) IN
  [block_header |-> HeaderOf(p), num_transactions |-> p.num_transactions,
   height |-> p.height,
   block_file_stored |-> p.block_file_stored,
   block_offset_start |-> UInt16(p.block_offset_start),
   block_offset_end |-> UInt16(p.block_offset_end),
   undo_file_stored |-> p.undo_file_stored,
   undo_offset_start |-> UInt16(p.undo_offset_start),
   undo_offset_end |-> UInt16(p.undo_offset_end)]

\* Both kinds of coin record: as many amounts and keys as there are indices.
Listed(record) ==
  LET n == Len(record.utxo) IN
  [version |-> record.version, utxo |-> record.utxo,
   amounts |-> SubSeq(record.amounts, 1, n), public_keys |-> SubSeq(record.public_keys, 1, n)]

ReadsPast(record) ==
  Len(record.utxo) > Len(record.amounts) \/ Len(record.utxo) > Len(record.public_keys)

ToPCoinRecord(record) ==
  LET listed == Listed(record) IN
  [PCoinRecord_Clear EXCEPT
    !.version = listed.version, !.utxo = listed.utxo,
    !.amounts = listed.amounts, !.public_keys = listed.public_keys]

ToCoinRecord(p) ==
  [Listed(p) EXCEPT !.version = UInt8(@)]

CoinRecord_serialize(record) == PCoinRecord_InternalSerialize(ToPCoinRecord(record))
CoinRecord_deserialize(b) == ToCoinRecord(ParseFromString("PCoinRecord", b))

-----------------------------------------------------------------------------
(* Undo blocks. *)

\* Mutant: the vectors begin anew with each transaction.
make_undo_block_anew(block) ==
  [transaction_hashes |->
     Each(LAMBDA tx : Hash(Transaction_serialize(tx)), block.transactions),
   undo_coin_records |->
     Each(LAMBDA tx :
       [version |-> tx.version,
        utxo |-> Each(LAMBDA txi : txi.utxo_index, tx.transaction_inputs),
        amounts |-> Each(LAMBDA txo : txo.amount, tx.transaction_outputs),
        public_keys |-> Each(LAMBDA txo : txo.public_key, tx.transaction_outputs)],
       block.transactions)]

\* The vectors are not cleared between the transactions: the record of each
\* lists what it and the transactions before it have.
make_undo_block(block) ==
  LET upto(i) == SubSeq(block.transactions, 1, i)
      inputs(i) == FlattenSeq(Each(LAMBDA tx : tx.transaction_inputs, upto(i)))
      outputs(i) == FlattenSeq(Each(LAMBDA tx : tx.transaction_outputs, upto(i)))
  IN  [transaction_hashes |->
         Each(LAMBDA tx : Hash(Transaction_serialize(tx)), block.transactions),
       undo_coin_records |->
         [i \in DOMAIN block.transactions |->
           [version |-> block.transactions[i].version,
            utxo |-> Each(LAMBDA txi : txi.utxo_index, inputs(i)),
            amounts |-> Each(LAMBDA txo : txo.amount, outputs(i)),
            public_keys |-> Each(LAMBDA txo : txo.public_key, outputs(i))]]]

ToPUndoBlock(undo_block) ==
  [PUndoBlock_Clear EXCEPT
    !.transaction_hashes = undo_block.transaction_hashes,
    !.undo_coin_records = Each(ToPCoinRecord, undo_block.undo_coin_records)]

UndoBlock_serialize(undo_block) == PUndoBlock_InternalSerialize(ToPUndoBlock(undo_block))

UndoBlock_deserialize(b) ==
  LET p == ParseFromString("PUndoBlock", b) IN
  [transaction_hashes |-> p.transaction_hashes,
   undo_coin_records |->
     [i \in DOMAIN p.transaction_hashes |-> ToCoinRecord(p.undo_coin_records[i])]]

=============================================================================
