-------------------------------- MODULE Codec -------------------------------
(***************************************************************************)
(* An object on its way through its serialized form and back.  Records and *)
(* transactions stay in memory, so theirs is read as it was written.       *)
(* Blocks and undo blocks are read from a file, at a location that need    *)
(* not be the one of the bytes that are there: after a restart a location  *)
(* that begins with an old payload may end before it does, or go on behind *)
(* the terminating zero into what follows.                                 *)
(***************************************************************************)
EXTENDS Primitives

CONSTANTS
  Object,   \* Object[kind]: the objects of a kind; undo blocks are made of blocks
  Following \* what may follow a payload and its terminator in a file

Kind == {"TransactionInput", "TransactionOutput", "Transaction", "BlockHeader",
         "Block", "BlockRecord", "CoinRecord", "UndoBlock"}
InFile == {"Block", "UndoBlock"}

Byte == 0 .. 255
UInt16Type == 0 .. 65535
UInt32Type == {n \in Nat : n \div 128 ^ 4 < 16}

\* The names that the writer gives its files.  protobuf does not read a string back
\* that is not UTF-8.
FileName == Seq(0 .. 127)

TransactionInputType ==
  [reference_transaction_hash : UInt32Type, utxo_index : Byte, signature : UInt32Type]
TransactionOutputType == [amount : UInt32Type, public_key : UInt32Type]
TransactionType ==
  [transaction_inputs : Seq(TransactionInputType),
   transaction_outputs : Seq(TransactionOutputType),
   version : Byte, lock_time : UInt32Type]
BlockHeaderType ==
  [version : Byte, previous_block_hash : UInt32Type, merkle_root : UInt32Type,
   difficulty_target : UInt32Type, nonce : UInt32Type, timestamp : UInt32Type]
BlockType == [block_header : BlockHeaderType, transactions : Seq(TransactionType)]
BlockRecordType ==
  [block_header : BlockHeaderType, num_transactions : UInt32Type, height : UInt32Type,
   block_file_stored : FileName, block_offset_start : UInt16Type,
   block_offset_end : UInt16Type, undo_file_stored : FileName,
   undo_offset_start : UInt16Type, undo_offset_end : UInt16Type]
CoinRecordType ==
  [version : Byte, utxo : Seq(UInt32Type), amounts : Seq(UInt32Type),
   public_keys : Seq(UInt32Type)]

\* A record has an amount and a key for every output it lists.
Complete(record) ==
  Len(record.amounts) = Len(record.utxo) /\ Len(record.public_keys) = Len(record.utxo)

SomeReadsPast(records) == \E i \in DOMAIN records : ReadsPast(records[i])

\* The size that serialize gets for an object.
ByteSizeLong(k, o) ==
  CASE k = "TransactionInput" -> PTransactionInput_ByteSizeLong(ToPTransactionInput(o))
    [] k = "TransactionOutput" -> PTransactionOutput_ByteSizeLong(ToPTransactionOutput(o))
    [] k = "Transaction" -> PTransaction_ByteSizeLong(ToPTransaction(o))
    [] k = "BlockHeader" -> PBlockHeader_ByteSizeLong(ToPBlockHeader(o))
    [] k = "Block" -> PBlock_ByteSizeLong(ToPBlock(o))
    [] k = "BlockRecord" -> PBlockRecord_ByteSizeLong(ToPBlockRecord(o))
    [] k = "CoinRecord" -> PCoinRecord_ByteSizeLong(ToPCoinRecord(o))
    [] k = "UndoBlock" -> PUndoBlock_ByteSizeLong(ToPUndoBlock(make_undo_block(o)))

\* protobuf does not serialize a message of more bytes.
INT_MAX == 2147483647

\* The members have their types in C++, and everything can be serialized.
ASSUME CodecAssumption ==
  /\ Object["TransactionInput"] \subseteq TransactionInputType
  /\ Object["TransactionOutput"] \subseteq TransactionOutputType
  /\ Object["Transaction"] \subseteq TransactionType
  /\ Object["BlockHeader"] \subseteq BlockHeaderType
  /\ Object["Block"] \subseteq BlockType
  /\ Object["BlockRecord"] \subseteq BlockRecordType
  /\ Object["CoinRecord"] \subseteq {record \in CoinRecordType : Complete(record)}
  /\ Object["UndoBlock"] \subseteq BlockType
  /\ \A block \in Object["UndoBlock"] : \A i \in DOMAIN block.transactions :
       Hash(Transaction_serialize(block.transactions[i])) \in UInt32Type
  /\ \A k \in Kind : \A o \in Object[k] :
       k # "UndoBlock" \/ ~SomeReadsPast(make_undo_block(o).undo_coin_records) =>
         ByteSizeLong(k, o) <= INT_MAX
  /\ Following \subseteq Seq(Byte)

VARIABLES
  kind, object,
  pc,      \* "object", "stored", "longer", "shorter", "read", "undefined"
  bytes,   \* the serialized form, as it is read
  place,   \* which of "stored", "longer", "shorter" was read
  result   \* the object read

codecVars == <<kind, object, pc, bytes, place, result>>

Serialized ==
  CASE kind = "TransactionInput" -> TransactionInput_serialize(object)
    [] kind = "TransactionOutput" -> TransactionOutput_serialize(object)
    [] kind = "Transaction" -> Transaction_serialize(object)
    [] kind = "BlockHeader" -> BlockHeader_serialize(object)
    [] kind = "Block" -> Block_serialize(object)
    [] kind = "BlockRecord" -> BlockRecord_serialize(object)
    [] kind = "CoinRecord" -> CoinRecord_serialize(object)
    [] kind = "UndoBlock" -> UndoBlock_serialize(make_undo_block(object))

Deserialized ==
  CASE kind = "TransactionInput" -> TransactionInput_deserialize(bytes)
    [] kind = "TransactionOutput" -> TransactionOutput_deserialize(bytes)
    [] kind = "Transaction" -> Transaction_deserialize(bytes)
    [] kind = "BlockHeader" -> BlockHeader_deserialize(bytes)
    [] kind = "Block" -> Block_deserialize(bytes)
    [] kind = "BlockRecord" -> BlockRecord_deserialize(bytes)
    [] kind = "CoinRecord" -> CoinRecord_deserialize(bytes)
    [] kind = "UndoBlock" -> UndoBlock_deserialize(bytes)

\* serialize, or deserialize, would read an element that a vector does not have.
SerializeReadsPast ==
  kind = "UndoBlock" /\ SomeReadsPast(make_undo_block(object).undo_coin_records)

DeserializeReadsPast ==
  /\ kind = "UndoBlock"
  /\ LET p == ParseFromString("PUndoBlock", bytes) IN
     \/ Len(p.transaction_hashes) > Len(p.undo_coin_records)
     \/ SomeReadsPast(p.undo_coin_records)

CodecInit ==
  /\ kind \in Kind /\ object \in Object[kind]
  /\ pc = "object" /\ bytes = <<>> /\ place = "none" /\ result = <<>>

serialize ==
  /\ pc = "object" /\ ~SerializeReadsPast
  /\ pc' = "stored" /\ bytes' = Serialized
  /\ UNCHANGED <<kind, object, place, result>>

serialize_undefined ==
  /\ pc = "object" /\ SerializeReadsPast
  /\ pc' = "undefined"
  /\ UNCHANGED <<kind, object, bytes, place, result>>

ReadLonger(following) ==
  /\ pc = "stored" /\ kind \in InFile
  /\ pc' = "longer" /\ bytes' = bytes \o <<0>> \o following
  /\ UNCHANGED <<kind, object, place, result>>

ReadShorter(length) ==
  /\ pc = "stored" /\ kind \in InFile
  /\ length < Len(bytes)
  /\ pc' = "shorter" /\ bytes' = SubSeq(bytes, 1, length)
  /\ UNCHANGED <<kind, object, place, result>>

deserialize ==
  /\ pc \in {"stored", "longer", "shorter"} /\ ~DeserializeReadsPast
  /\ pc' = "read" /\ place' = pc /\ result' = Deserialized
  /\ UNCHANGED <<kind, object, bytes>>

deserialize_undefined ==
  /\ pc \in {"stored", "longer", "shorter"} /\ DeserializeReadsPast
  /\ pc' = "undefined" /\ place' = pc
  /\ UNCHANGED <<kind, object, bytes, result>>

CodecNext ==
  \/ serialize \/ serialize_undefined
  \/ deserialize \/ deserialize_undefined
  \/ \E following \in Following : ReadLonger(following)
  \/ \E length \in 0 .. Len(bytes) - 1 : ReadShorter(length)

CodecSpec == CodecInit /\ [][CodecNext]_codecVars

-----------------------------------------------------------------------------
(* Properties. *)

\* What can be had back of an object: all of it, or for an undo block as many of
\* the outputs' amounts and keys as there are inputs.
Recoverable ==
  IF kind # "UndoBlock" THEN object
  ELSE [make_undo_block(object) EXCEPT !.undo_coin_records = Each(Listed, @)]

\* Every member of every object survives, whichever of them have the value that
\* is not written, however many bytes they take and however deep they are.
RoundTrip == pc = "read" /\ place = "stored" => result = Recoverable

\* The size that ByteSizeLong computes for an object, and that SerializeToString makes
\* room for, is what is then written; submessages begin with theirs.
SizesAgree == pc = "stored" => ByteSizeLong(kind, object) = Len(bytes)

\* A block that is read on past its end is the block that was written there: the
\* terminator ends it, and nothing of what follows gets into it.
TerminatorEnds ==
  pc = "read" /\ place = "longer" => result = Recoverable

\* A block that is read short of its end is one that was there, less its end: no
\* header without the right values, and of the transactions the first ones, of
\* which the last may itself be cut.
Begins(part, whole) ==
  LET n == Len(part) IN n <= Len(whole) /\ SubSeq(part, 1, n - 1) = SubSeq(whole, 1, n - 1)

CutKeepsPrefix ==
  pc = "read" /\ place = "shorter" /\ kind = "Block" /\ result # NullBlock =>
    LET cut == result.transactions IN
    /\ Begins(cut, object.transactions)
    /\ cut # <<>> =>
         LET last == cut[Len(cut)]
             was == object.transactions[Len(cut)]
         IN  /\ result.block_header = object.block_header
             /\ Begins(last.transaction_inputs, was.transaction_inputs)
             /\ Begins(last.transaction_outputs, was.transaction_outputs)
             /\ last.transaction_outputs # <<>> => last.transaction_inputs = was.transaction_inputs

\* An undo block is serialized without reading past a vector's end exactly where
\* the first so many transactions of the block never have more inputs than outputs;
\* read back as it was written, or on past its end, it is never incomplete.
UndefinedWhenInputsExceed ==
  /\ kind = "UndoBlock" /\ pc # "object" =>
       ((pc = "undefined" /\ place = "none") <=>
         \E i \in DOMAIN object.transactions :
           SumOfSizes(SubSeq(object.transactions, 1, i), LAMBDA tx :
             Len(tx.transaction_inputs) - Len(tx.transaction_outputs)) > 0)
  /\ pc = "undefined" => place \in {"none", "shorter"}

\* An undo block that is read short of its end, and can be read at all, has none
\* or all of its hashes; only the last of its records may have lost anything,
\* which is all of it or no more than the values of its keys.
CutUndoBlock ==
  pc = "read" /\ place = "shorter" /\ kind = "UndoBlock" =>
    \/ result = [transaction_hashes |-> <<>>, undo_coin_records |-> <<>>]
    \/ /\ result.transaction_hashes = Recoverable.transaction_hashes
       /\ Begins(result.undo_coin_records, Recoverable.undo_coin_records)
       /\ LET n == Len(result.undo_coin_records)
              last == result.undo_coin_records[n]
              was == Recoverable.undo_coin_records[n]
          IN  \/ last.utxo = <<>>
              \/ last = [was EXCEPT !.public_keys = last.public_keys]

=============================================================================
