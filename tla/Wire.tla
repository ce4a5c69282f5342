-------------------------------- MODULE Wire --------------------------------
(***************************************************************************)
(* The protobuf library as the generated messages (core/src/proto) call    *)
(* it: what it writes for a field, and how it reads fields from a buffer   *)
(* whose length need not be the message's.  External to the repository.    *)
(*                                                                         *)
(* A byte is a number, a string a sequence of bytes.  A field is its tag,  *)
(* 8 * number + wire type, followed by a varint (type 0) or by a length    *)
(* and so many bytes (type 2).                                             *)
(***************************************************************************)
EXTENDS Integers, FiniteSetsExt, SequencesExt

MaxVarintBytes == 10

\* A varint has seven bits of a 32-bit number in each byte, the lowest first; every
\* byte but the last has its eighth bit set.
UInt32Size(n) ==
  IF n < 128 THEN 1 ELSE IF n < 128 ^ 2 THEN 2
  ELSE IF n < 128 ^ 3 THEN 3 ELSE IF n < 128 ^ 4 THEN 4 ELSE 5

Septets(n) ==
  <<n % 128, (n \div 128) % 128, (n \div 128 ^ 2) % 128, (n \div 128 ^ 3) % 128,
    n \div 128 ^ 4>>

Varint(n) ==
  [k \in 1 .. UInt32Size(n) |-> Septets(n)[k] + IF k < UInt32Size(n) THEN 128 ELSE 0]

Sum(numbers) ==
  LET upto[k \in 0 .. Len(numbers)] == IF k = 0 THEN 0 ELSE upto[k - 1] + numbers[k]
  IN  upto[Len(numbers)]

SumOfSizes(list, Size(_)) == Sum([k \in DOMAIN list |-> Size(list[k])])

-----------------------------------------------------------------------------
(* Writing.  Scalars and lists that have their default value are left out. *)

WriteUInt32(field, n) == IF n = 0 THEN <<>> ELSE <<8 * field>> \o Varint(n)
WriteBool(field, flag) == IF flag THEN <<8 * field, 1>> ELSE <<>>

WriteBytes(field, size, bytes) == <<8 * field + 2>> \o Varint(size) \o bytes

WriteString(field, s) == IF s = <<>> THEN <<>> ELSE WriteBytes(field, Len(s), s)

WriteUInt32Packed(field, list) ==
  IF list = <<>> THEN <<>>
  ELSE LET bytes == FlattenSeq([k \in DOMAIN list |-> Varint(list[k])])
       IN  WriteBytes(field, Len(bytes), bytes)

\* The length before a message is what ByteSizeLong said, not what follows.
InternalWriteMessage(field, size, bytes) == WriteBytes(field, size, bytes)

\* What each of these adds to the size of a message.
UInt32FieldSize(n) == IF n = 0 THEN 0 ELSE 1 + UInt32Size(n)
BoolFieldSize(flag) == IF flag THEN 2 ELSE 0
LengthDelimitedSize(size) == 1 + UInt32Size(size) + size
StringFieldSize(s) == IF s = <<>> THEN 0 ELSE LengthDelimitedSize(Len(s))
PackedFieldSize(list) ==
  IF list = <<>> THEN 0 ELSE LengthDelimitedSize(SumOfSizes(list, UInt32Size))

-----------------------------------------------------------------------------
(* Reading.  A cursor is at ptr bytes into the buffer, with the message as *)
(* read so far; it has failed, or it has met a tag that ends the message.  *)
(* What a failed cursor has read stays in the message.                     *)

CursorAt(ptr, msg) == [ptr |-> ptr, msg |-> msg, failed |-> FALSE, ended |-> FALSE]

\* Behind the buffer's end the library finds the zeros of its own buffer; they are
\* enough for a length or a list of the sizes that occur here.
ByteAt(b, ptr) == IF ptr < Len(b) THEN b[ptr + 1] ELSE 0

\* A varint ends with the first byte below 128; one that does not is Malformed.
VarintEnds(b, ptr) == {k \in 1 .. MaxVarintBytes : ByteAt(b, ptr + k - 1) < 128}
Malformed(b, ptr) == VarintEnds(b, ptr) = {}

ReadVarint(b, ptr) ==
  LET size == Min(VarintEnds(b, ptr))
      septet(k) == IF k <= size THEN ByteAt(b, ptr + k - 1) % 128 ELSE 0
  IN  [value |-> septet(1) + 128 * septet(2) + 128 ^ 2 * septet(3) + 128 ^ 3 * septet(4)
                 + 128 ^ 4 * (septet(5) % 16),
       ptr |-> ptr + size]

Failed(cursor) == [cursor EXCEPT !.failed = TRUE]

\* The field gets what follows, or another element; no varint is malformed there.
ReadUInt32(b, cursor, field) ==
  LET read == ReadVarint(b, cursor.ptr)
  IN  [cursor EXCEPT !.msg[field] = read.value, !.ptr = read.ptr]

ReadBool(b, cursor, field) ==
  LET read == ReadVarint(b, cursor.ptr)
  IN  [cursor EXCEPT !.msg[field] = read.value # 0, !.ptr = read.ptr]

ReadAnother(b, cursor, field) ==
  LET read == ReadVarint(b, cursor.ptr)
  IN  [cursor EXCEPT !.msg[field] = Append(@, read.value), !.ptr = read.ptr]

\* The elements of a list, one after the other as far as its length goes.
NextElement(b, cursor, field, end) ==
  IF cursor.failed \/ cursor.ptr >= end THEN cursor
  ELSE IF Malformed(b, cursor.ptr) THEN Failed(cursor)
  ELSE ReadAnother(b, cursor, field)

ReadPacked(b, cursor, field) ==
  LET size == ReadVarint(b, cursor.ptr)
      end == size.ptr + size.value
      upto[k \in 0 .. size.value] ==
        IF k = 0 THEN [cursor EXCEPT !.ptr = size.ptr]
        ELSE NextElement(b, upto[k - 1], field, end)
      read == upto[size.value]
  IN  [read EXCEPT !.failed = @ \/ read.ptr # end]

ReadString(b, cursor, field) ==
  LET size == ReadVarint(b, cursor.ptr)
  IN  [cursor EXCEPT
        !.msg[field] = [k \in 1 .. size.value |-> ByteAt(b, size.ptr + k - 1)],
        !.ptr = size.ptr + size.value]

\* Mutant: a zero is passed over.
UnusualOverZeros(tag, b, cursor) ==
  LET wire == tag % 8
      read == ReadVarint(b, cursor.ptr)
      past == CASE wire = 0 -> read.ptr
                [] wire = 1 -> cursor.ptr + 8
                [] wire = 2 -> read.ptr + read.value
                [] wire = 5 -> cursor.ptr + 4
  IN  IF tag = 0 THEN cursor
      ELSE IF wire = 4 THEN [cursor EXCEPT !.ended = TRUE]
      ELSE IF tag \div 8 = 0 \/ wire \in {3, 6, 7} THEN Failed(cursor)
      ELSE IF wire \in {0, 2} /\ Malformed(b, cursor.ptr) THEN Failed(cursor)
      ELSE [cursor EXCEPT !.ptr = past]

\* A tag that the message has no field for: 0 and the end of a group end the
\* message, other fields are passed over.  (Nothing here begins a group.)
Unusual(tag, b, cursor) ==
  LET wire == tag % 8
      read == ReadVarint(b, cursor.ptr)
      past == CASE wire = 0 -> read.ptr
                [] wire = 1 -> cursor.ptr + 8
                [] wire = 2 -> read.ptr + read.value
                [] wire = 5 -> cursor.ptr + 4
  IN  IF tag = 0 \/ wire = 4 THEN [cursor EXCEPT !.ended = TRUE]
      ELSE IF tag \div 8 = 0 \/ wire \in {3, 6, 7} THEN Failed(cursor)
      ELSE IF wire \in {0, 2} /\ Malformed(b, cursor.ptr) THEN Failed(cursor)
      ELSE [cursor EXCEPT !.ptr = past]

\* The loop over the fields is left at the limit or at the end of the buffer;
\* elsewhere than at both the message was not read in full.
Done(b, cursor, limit) ==
  \/ cursor.failed \/ cursor.ended
  \/ cursor.ptr >= limit \/ cursor.ptr >= Len(b)

AtLimit(b, cursor, limit) ==
  IF cursor.failed \/ cursor.ended THEN cursor
  ELSE [cursor EXCEPT !.failed = cursor.ptr # limit \/ cursor.ptr > Len(b)]

=============================================================================
