---------------------------- MODULE CryptMessages ---------------------------
(***************************************************************************)
(* The nine messages of core/src/proto, as generated.  For each: the       *)
(* message when cleared, the cases of its _InternalParse (how the field     *)
(* behind a tag is read), _InternalSerialize and ByteSizeLong.             *)
(*                                                                         *)
(* A message is a record.  A submessage is a sequence: empty while it is   *)
(* not set, or that message alone.                                         *)
(***************************************************************************)
EXTENDS Wire

PBlockHeader_Clear ==
  [version |-> 0, previous_block_hash |-> 0, merkle_root |-> 0,
   difficulty_target |-> 0, nonce |-> 0, timestamp |-> 0]

PTransactionInput_Clear ==
  [reference_transaction_hash |-> 0, utxo_index |-> 0, signature |-> 0]

PTransactionOutput_Clear ==
  [amount |-> 0, public_key |-> 0]

PTransaction_Clear ==
  [version |-> 0, transaction_inputs |-> <<>>, transaction_outputs |-> <<>>,
   lock_time |-> 0]

PBlock_Clear ==
  [block_header |-> <<>>, transactions |-> <<>>, hash |-> 0, calculate_fees |-> 0,
   obtain_merkle_root |-> 0]

PBlockRecord_Clear ==
  [block_header |-> <<>>, height |-> 0, num_transactions |-> 0,
   block_file_stored |-> <<>>, block_offset_start |-> 0, block_offset_end |-> 0,
   undo_file_stored |-> <<>>, undo_offset_start |-> 0, undo_offset_end |-> 0]

PCoinRecord_Clear ==
  [version |-> 0, is_coin_base |-> FALSE, height |-> 0, utxo |-> <<>>,
   amounts |-> <<>>, public_keys |-> <<>>]

PUndoCoinRecord_Clear == PCoinRecord_Clear

PUndoBlock_Clear ==
  [transaction_hashes |-> <<>>, undo_coin_records |-> <<>>]

\* How the field behind a tag is read, and which member it is read into.
NoField == [reader |-> "none"]
UInt32(member) == [reader |-> "varint", member |-> member]
Boolean(member) == [reader |-> "bool", member |-> member]
String(member) == [reader |-> "string", member |-> member]
AnotherUInt32(member) == [reader |-> "another varint", member |-> member]
PackedUInt32(member) == [reader |-> "packed", member |-> member]
Message(type, member) == [reader |-> "message", member |-> member, type |-> type]
Messages(type, member) == [reader |-> "another message", member |-> member, type |-> type]

WriteMessages(field, list, ByteSize(_), Serialize(_)) ==
  FlattenSeq([k \in DOMAIN list |->
    InternalWriteMessage(field, ByteSize(list[k]), Serialize(list[k]))])

SizeOfMessages(list, ByteSize(_)) ==
  SumOfSizes(list, LAMBDA m : LengthDelimitedSize(ByteSize(m)))

-----------------------------------------------------------------------------
PBlockHeader_InternalParse(tag) ==
  CASE tag = 8 -> UInt32("version")
    [] tag = 16 -> UInt32("previous_block_hash")
    [] tag = 24 -> UInt32("merkle_root")
    [] tag = 32 -> UInt32("difficulty_target")
    [] tag = 40 -> UInt32("nonce")
    [] tag = 48 -> UInt32("timestamp")
    [] OTHER -> NoField

PBlockHeader_ByteSizeLong(m) ==
  UInt32FieldSize(m.version) + UInt32FieldSize(m.previous_block_hash) +
  UInt32FieldSize(m.merkle_root) + UInt32FieldSize(m.difficulty_target) +
  UInt32FieldSize(m.nonce) + UInt32FieldSize(m.timestamp)

PBlockHeader_InternalSerialize(m) ==
  WriteUInt32(1, m.version) \o WriteUInt32(2, m.previous_block_hash) \o
  WriteUInt32(3, m.merkle_root) \o WriteUInt32(4, m.difficulty_target) \o
  WriteUInt32(5, m.nonce) \o WriteUInt32(6, m.timestamp)

-----------------------------------------------------------------------------
PTransactionInput_InternalParse(tag) ==
  CASE tag = 8 -> UInt32("reference_transaction_hash")
    [] tag = 16 -> UInt32("utxo_index")
    [] tag = 24 -> UInt32("signature")
    [] OTHER -> NoField

PTransactionInput_ByteSizeLong(m) ==
  UInt32FieldSize(m.reference_transaction_hash) + UInt32FieldSize(m.utxo_index) +
  UInt32FieldSize(m.signature)

PTransactionInput_InternalSerialize(m) ==
  WriteUInt32(1, m.reference_transaction_hash) \o WriteUInt32(2, m.utxo_index) \o
  WriteUInt32(3, m.signature)

-----------------------------------------------------------------------------
PTransactionOutput_InternalParse(tag) ==
  CASE tag = 8 -> UInt32("amount")
    [] tag = 16 -> UInt32("public_key")
    [] OTHER -> NoField

PTransactionOutput_ByteSizeLong(m) ==
  UInt32FieldSize(m.amount) + UInt32FieldSize(m.public_key)

PTransactionOutput_InternalSerialize(m) ==
  WriteUInt32(1, m.amount) \o WriteUInt32(2, m.public_key)

-----------------------------------------------------------------------------
PTransaction_InternalParse(tag) ==
  CASE tag = 8 -> UInt32("version")
    [] tag = 18 -> Messages("PTransactionInput", "transaction_inputs")
    [] tag = 26 -> Messages("PTransactionOutput", "transaction_outputs")
    [] tag = 32 -> UInt32("lock_time")
    [] OTHER -> NoField

\* Mutant: the lock time is not counted.
PTransaction_SizeWithoutLock(m) ==
  SizeOfMessages(m.transaction_inputs, PTransactionInput_ByteSizeLong) +
  SizeOfMessages(m.transaction_outputs, PTransactionOutput_ByteSizeLong) +
  UInt32FieldSize(m.version)

PTransaction_ByteSizeLong(m) ==
  SizeOfMessages(m.transaction_inputs, PTransactionInput_ByteSizeLong) +
  SizeOfMessages(m.transaction_outputs, PTransactionOutput_ByteSizeLong) +
  UInt32FieldSize(m.version) + UInt32FieldSize(m.lock_time)

PTransaction_InternalSerialize(m) ==
  WriteUInt32(1, m.version) \o
  WriteMessages(2, m.transaction_inputs,
    PTransactionInput_ByteSizeLong, PTransactionInput_InternalSerialize) \o
  WriteMessages(3, m.transaction_outputs,
    PTransactionOutput_ByteSizeLong, PTransactionOutput_InternalSerialize) \o
  WriteUInt32(4, m.lock_time)

-----------------------------------------------------------------------------
\* Mutant: a transaction is merged into the first.
PBlock_ParseMerging(tag) ==
  CASE tag = 10 -> Message("PBlockHeader", "block_header")
    [] tag = 18 -> Message("PTransaction", "transactions")
    [] OTHER -> NoField

PBlock_InternalParse(tag) ==
  CASE tag = 10 -> Message("PBlockHeader", "block_header")
    [] tag = 18 -> Messages("PTransaction", "transactions")
    [] tag = 24 -> UInt32("hash")
    [] tag = 32 -> UInt32("calculate_fees")
    [] tag = 40 -> UInt32("obtain_merkle_root")
    [] OTHER -> NoField

PBlock_ByteSizeLong(m) ==
  SizeOfMessages(m.transactions, PTransaction_ByteSizeLong) +
  SizeOfMessages(m.block_header, PBlockHeader_ByteSizeLong) +
  UInt32FieldSize(m.hash) + UInt32FieldSize(m.calculate_fees) +
  UInt32FieldSize(m.obtain_merkle_root)

PBlock_InternalSerialize(m) ==
  WriteMessages(1, m.block_header,
    PBlockHeader_ByteSizeLong, PBlockHeader_InternalSerialize) \o
  WriteMessages(2, m.transactions,
    PTransaction_ByteSizeLong, PTransaction_InternalSerialize) \o
  WriteUInt32(3, m.hash) \o WriteUInt32(4, m.calculate_fees) \o
  WriteUInt32(5, m.obtain_merkle_root)

-----------------------------------------------------------------------------
PBlockRecord_InternalParse(tag) ==
  CASE tag = 10 -> Message("PBlockHeader", "block_header")
    [] tag = 16 -> UInt32("height")
    [] tag = 24 -> UInt32("num_transactions")
    [] tag = 34 -> String("block_file_stored")
    [] tag = 40 -> UInt32("block_offset_start")
    [] tag = 48 -> UInt32("block_offset_end")
    [] tag = 58 -> String("undo_file_stored")
    [] tag = 64 -> UInt32("undo_offset_start")
    [] tag = 72 -> UInt32("undo_offset_end")
    [] OTHER -> NoField

PBlockRecord_ByteSizeLong(m) ==
  StringFieldSize(m.block_file_stored) + StringFieldSize(m.undo_file_stored) +
  SizeOfMessages(m.block_header, PBlockHeader_ByteSizeLong) +
  UInt32FieldSize(m.height) + UInt32FieldSize(m.num_transactions) +
  UInt32FieldSize(m.block_offset_start) + UInt32FieldSize(m.block_offset_end) +
  UInt32FieldSize(m.undo_offset_start) + UInt32FieldSize(m.undo_offset_end)

PBlockRecord_InternalSerialize(m) ==
  WriteMessages(1, m.block_header,
    PBlockHeader_ByteSizeLong, PBlockHeader_InternalSerialize) \o
  WriteUInt32(2, m.height) \o WriteUInt32(3, m.num_transactions) \o
  WriteString(4, m.block_file_stored) \o WriteUInt32(5, m.block_offset_start) \o
  WriteUInt32(6, m.block_offset_end) \o WriteString(7, m.undo_file_stored) \o
  WriteUInt32(8, m.undo_offset_start) \o WriteUInt32(9, m.undo_offset_end)

-----------------------------------------------------------------------------
PCoinRecord_InternalParse(tag) ==
  CASE tag = 8 -> UInt32("version")
    [] tag = 16 -> Boolean("is_coin_base")
    [] tag = 24 -> UInt32("height")
    [] tag = 34 -> PackedUInt32("utxo")
    [] tag = 32 -> AnotherUInt32("utxo")
    [] tag = 42 -> PackedUInt32("amounts")
    [] tag = 40 -> AnotherUInt32("amounts")
    [] tag = 50 -> PackedUInt32("public_keys")
    [] tag = 48 -> AnotherUInt32("public_keys")
    [] OTHER -> NoField

PCoinRecord_ByteSizeLong(m) ==
  PackedFieldSize(m.utxo) + PackedFieldSize(m.amounts) +
  PackedFieldSize(m.public_keys) + UInt32FieldSize(m.version) +
  BoolFieldSize(m.is_coin_base) + UInt32FieldSize(m.height)

PCoinRecord_InternalSerialize(m) ==
  WriteUInt32(1, m.version) \o WriteBool(2, m.is_coin_base) \o
  WriteUInt32(3, m.height) \o WriteUInt32Packed(4, m.utxo) \o
  WriteUInt32Packed(5, m.amounts) \o WriteUInt32Packed(6, m.public_keys)

-----------------------------------------------------------------------------
\* The same fields, hence the same code, as PCoinRecord.
PUndoCoinRecord_InternalParse(tag) == PCoinRecord_InternalParse(tag)
PUndoCoinRecord_ByteSizeLong(m) == PCoinRecord_ByteSizeLong(m)
PUndoCoinRecord_InternalSerialize(m) == PCoinRecord_InternalSerialize(m)

-----------------------------------------------------------------------------
PUndoBlock_InternalParse(tag) ==
  CASE tag = 10 -> PackedUInt32("transaction_hashes")
    [] tag = 8 -> AnotherUInt32("transaction_hashes")
    [] tag = 18 -> Messages("PUndoCoinRecord", "undo_coin_records")
    [] OTHER -> NoField

PUndoBlock_ByteSizeLong(m) ==
  PackedFieldSize(m.transaction_hashes) +
  SizeOfMessages(m.undo_coin_records, PUndoCoinRecord_ByteSizeLong)

\* Mutant: the records are written before the hashes.
PUndoBlock_SerializeSwapped(m) ==
  WriteMessages(2, m.undo_coin_records,
    PUndoCoinRecord_ByteSizeLong, PUndoCoinRecord_InternalSerialize) \o
  WriteUInt32Packed(1, m.transaction_hashes)

PUndoBlock_InternalSerialize(m) ==
  WriteUInt32Packed(1, m.transaction_hashes) \o
  WriteMessages(2, m.undo_coin_records,
    PUndoCoinRecord_ByteSizeLong, PUndoCoinRecord_InternalSerialize)

-----------------------------------------------------------------------------
(* Any message. *)

Cleared ==
  [PBlockHeader |-> PBlockHeader_Clear,
   PTransactionInput |-> PTransactionInput_Clear,
   PTransactionOutput |-> PTransactionOutput_Clear,
   PTransaction |-> PTransaction_Clear,
   PBlock |-> PBlock_Clear,
   PBlockRecord |-> PBlockRecord_Clear,
   PCoinRecord |-> PCoinRecord_Clear,
   PUndoCoinRecord |-> PUndoCoinRecord_Clear,
   PUndoBlock |-> PUndoBlock_Clear]

FieldOf(type, tag) ==
  CASE type = "PBlockHeader" -> PBlockHeader_InternalParse(tag)
    [] type = "PTransactionInput" -> PTransactionInput_InternalParse(tag)
    [] type = "PTransactionOutput" -> PTransactionOutput_InternalParse(tag)
    [] type = "PTransaction" -> PTransaction_InternalParse(tag)
    [] type = "PBlock" -> PBlock_InternalParse(tag)
    [] type = "PBlockRecord" -> PBlockRecord_InternalParse(tag)
    [] type = "PCoinRecord" -> PCoinRecord_InternalParse(tag)
    [] type = "PUndoCoinRecord" -> PUndoCoinRecord_InternalParse(tag)
    [] type = "PUndoBlock" -> PUndoBlock_InternalParse(tag)

ReadField(field, b, cursor) ==
  CASE field.reader = "varint" -> ReadUInt32(b, cursor, field.member)
    [] field.reader = "bool" -> ReadBool(b, cursor, field.member)
    [] field.reader = "string" -> ReadString(b, cursor, field.member)
    [] field.reader = "another varint" -> ReadAnother(b, cursor, field.member)
    [] field.reader = "packed" -> ReadPacked(b, cursor, field.member)

\* A call of _InternalParse: the type of its message, where its bytes end, how far it
\* is, and the calls that wait for it to return, the outermost first.
ParseCall(type, limit, cursor, callers) ==
  [type |-> type, limit |-> limit, cursor |-> cursor, callers |-> callers]

Merged(field, msg) == field.reader = "message" /\ msg[field.member] # <<>>

\* ParseMessage: the length, and a call for the message of this type up to there; it
\* goes on with the submessage of the field, or begins another one.
ParseMessage(b, call, field, cursor) ==
  LET size == ReadVarint(b, cursor.ptr)
      caller == [type |-> call.type, limit |-> call.limit, field |-> field, msg |-> cursor.msg]
  IN  ParseCall(field.type, size.ptr + size.value,
        CursorAt(size.ptr, IF Merged(field, cursor.msg) THEN cursor.msg[field.member][1]
                           ELSE Cleared[field.type]),
        Append(call.callers, caller))

\* The caller gets the message, whatever of it was read.
Return(b, call) ==
  LET caller == Last(call.callers)
      field == caller.field
      read == AtLimit(b, call.cursor, call.limit)
      into == IF Merged(field, caller.msg) THEN <<read.msg>>
              ELSE Append(caller.msg[field.member], read.msg)
  IN  ParseCall(caller.type, caller.limit,
        [ptr |-> read.ptr, msg |-> [caller.msg EXCEPT ![field.member] = into],
         failed |-> read.failed \/ read.ended \/ read.ptr # call.limit, ended |-> FALSE],
        Front(call.callers))

\* One iteration of the loop of every _InternalParse.
InternalParse(b, call) ==
  LET cursor == call.cursor
      tag == ReadVarint(b, cursor.ptr)
      at == [cursor EXCEPT !.ptr = tag.ptr]
      field == FieldOf(call.type, tag.value)
  IN  IF call.callers = <<>> /\ Done(b, cursor, call.limit) THEN call
      ELSE IF Done(b, cursor, call.limit) THEN Return(b, call)
      ELSE IF Malformed(b, cursor.ptr) THEN [call EXCEPT !.cursor = Failed(cursor)]
      ELSE IF field = NoField THEN [call EXCEPT !.cursor = Unusual(tag.value, b, at)]
      ELSE IF Malformed(b, at.ptr) THEN [call EXCEPT !.cursor = Failed(at)]
      ELSE IF field.reader \in {"message", "another message"}
           THEN ParseMessage(b, call, field, at)
      ELSE [call EXCEPT !.cursor = ReadField(field, b, at)]

\* The calls after so many iterations, the last one once the outermost loop is left.  A
\* field has two bytes and takes one iteration, a message within has two and takes
\* another to return; a field that the buffer ends in may have a byte less.
MaxIterations(b) == Len(b) + 2

Iterations(type, b) ==
  LET run[k \in 0 .. MaxIterations(b)] ==
        IF k = 0 THEN ParseCall(type, Len(b), CursorAt(0, Cleared[type]), <<>>)
        ELSE InternalParse(b, run[k - 1])
  IN  run

\* The result of the parse is not looked at by any caller: whatever was read before it
\* failed is in the message.
ParseFromString(type, b) == Iterations(type, b)[MaxIterations(b)].cursor.msg

=============================================================================
