----------------------------- MODULE ChainWriter ----------------------------
(***************************************************************************)
(* The chain writer (core/src/chain_writer): serialized blocks and undo    *)
(* blocks appended to numbered files in the data directory, and the        *)
(* FileInfo that says where each one is.                                   *)
(*                                                                         *)
(* Both kinds are written alike.  The offset that a FileInfo starts at is  *)
(* the writer's own counter, while fopen(.., "ab") appends wherever the    *)
(* file ends; the two must agree for read_block to find the bytes again.   *)
(* A byte is modelled as the payload it belongs to and its position there. *)
(* fwrite may write less than it is given, on a full disk or a failing     *)
(* one; its result is not looked at.  File numbers wrap, so a long-lived   *)
(* process comes back to files that it filled, with its offset at 0.       *)
(* Files outlive the process and everything else dies with it: the block   *)
(* info database is in memory.                                             *)
(***************************************************************************)
EXTENDS Integers, Sequences, FiniteSets

CONSTANTS
  Payload,      \* the serialized blocks and undo blocks
  Size,         \* Size[p]: its bytes and the terminating zero, N in the code
  MaxFileSize,  \* _max_block_file_size and _max_undo_file_size: 1000
  OffsetRange,  \* offsets are uint16_t: 2^16
  FileRange,    \* file numbers are uint16_t: 2^16
  SizeRange,    \* N is a uint32_t: 2^32
  MaxCalls      \* bound: so many calls at most, over all processes

ASSUME WriterAssumption ==
  /\ MaxFileSize \in Nat \ {0}
  /\ OffsetRange \in Nat /\ OffsetRange > MaxFileSize
  /\ FileRange \in Nat \ {0} /\ MaxCalls \in Nat
  /\ SizeRange \in Nat /\ SizeRange > MaxFileSize + OffsetRange
  /\ Size \in [Payload -> 1 .. SizeRange - OffsetRange - 1]

Kind == {"blocks", "undo_blocks"}
FileNumber == 0 .. FileRange - 1
Offset == 0 .. OffsetRange - 1

Bytes(p) == [i \in 1 .. Size[p] |-> <<p, i>>]

VARIABLES
  file,         \* file[k][n]: the bytes of the n-th file of a kind
  file_number,  \* _current_block_file_number and _current_undo_file_number
  offset,       \* _current_block_offset and _current_undo_offset
  located,      \* the FileInfos handed out by this process, with their payload
  cut,          \* history: cut[k] are the files in which a write was cut short
  reused,       \* history: reused[k] are those gone on to when they held something
  calls         \* history: the calls made in all processes

writerVars == <<file, file_number, offset, located, cut, reused, calls>>

FileInfo(k) == [payload : Payload, file : FileNumber, start : Offset, end : Offset]

WriterInit ==
  /\ file = [k \in Kind |-> [n \in FileNumber |-> <<>>]]
  /\ file_number = [k \in Kind |-> 0] /\ offset = [k \in Kind |-> 0]
  /\ located = [k \in Kind |-> {}] /\ calls = 0
  /\ cut = [k \in Kind |-> {}] /\ reused = [k \in Kind |-> {}]

\* _max_file_size - offset is a negative int once an oversized payload has been
\* written, and comparing it with N makes it a huge uint32_t: such a file is
\* never left until the offset wraps.  The two kinds differ in <= and <.
Remaining(k) == (MaxFileSize - offset[k]) % SizeRange

\* Mutant: files are never left.
AlwaysFits(k, p) == FALSE

DoesNotFit(k, p) ==
  \/ k = "blocks" /\ Remaining(k) <= Size[p]
  \/ k = "undo_blocks" /\ Remaining(k) < Size[p]

\* The first bytes of a payload arrive in the file, all of them where nothing fails.
PutBytes(k, p, number, written) ==
  /\ file' = [file EXCEPT ![k][number] = @ \o SubSeq(Bytes(p), 1, written)]
  /\ cut' = [cut EXCEPT ![k] = IF written < Size[p] THEN @ \cup {number} ELSE @]

\* Mutant: the terminating zero is not counted.
AppendWithoutZero(k, p, number, start, written) ==
  LET end == (start + Size[p] - 1) % OffsetRange
  IN  /\ PutBytes(k, p, number, written)
      /\ offset' = [offset EXCEPT ![k] = end]
      /\ located' = [located EXCEPT ![k] = @ \cup
           {[payload |-> p, file |-> number, start |-> start, end |-> end]}]

\* The bytes go behind what the file holds, and the location is computed from
\* the writer's offset, as that of the whole payload.
AppendTo(k, p, number, start, written) ==
  LET end == (start + Size[p]) % OffsetRange
  IN  /\ PutBytes(k, p, number, written)
      /\ offset' = [offset EXCEPT ![k] = end]
      /\ located' = [located EXCEPT ![k] = @ \cup
           {[payload |-> p, file |-> number, start |-> start, end |-> end]}]

\* fopen fails: nothing is written, but a file that was full has been left.
CannotOpen(k, start) ==
  /\ offset' = [offset EXCEPT ![k] = start]
  /\ UNCHANGED <<file, located, cut>>

WriteAt(k, p, number, start, written) ==
  /\ file_number' = [file_number EXCEPT ![k] = number]
  /\ AppendTo(k, p, number, start, written) \/ CannotOpen(k, start)
  /\ calls' = calls + 1

NextFile(k) == (file_number[k] + 1) % FileRange

\* The next file is taken to be empty; after a wrap it need not be.
GoOn(k, p, start, written) ==
  /\ WriteAt(k, p, NextFile(k), start, written)
  /\ reused' = IF file[k][NextFile(k)] = <<>> THEN reused
               ELSE [reused EXCEPT ![k] = @ \cup {NextFile(k)}]

Stay(k, p, written) ==
  /\ WriteAt(k, p, file_number[k], offset[k], written)
  /\ UNCHANGED reused

\* Mutants: a new file is begun at the old file's offset, and the file number
\* is wider than a FileInfo's.
WriteKeepsOffset(k, p, written) ==
  /\ calls < MaxCalls
  /\ \/ DoesNotFit(k, p) /\ GoOn(k, p, offset[k], written)
     \/ ~DoesNotFit(k, p) /\ Stay(k, p, written)

WriteWithoutWrap(k, p, written) ==
  /\ calls < MaxCalls
  /\ \/ DoesNotFit(k, p) /\ WriteAt(k, p, file_number[k] + 1, 0, written) /\ UNCHANGED reused
     \/ ~DoesNotFit(k, p) /\ Stay(k, p, written)

\* write_block and write_undo_block, when so many bytes arrive.
Write(k, p, written) ==
  /\ calls < MaxCalls
  /\ \/ DoesNotFit(k, p) /\ GoOn(k, p, 0, written)
     \/ ~DoesNotFit(k, p) /\ Stay(k, p, written)

\* The constructor, in a process that finds the files of an earlier one.
Restart ==
  /\ file_number' = [k \in Kind |-> 0] /\ offset' = [k \in Kind |-> 0]
  /\ located' = [k \in Kind |-> {}]
  /\ UNCHANGED <<file, cut, reused, calls>>

WriteWhole == \E k \in Kind, p \in Payload : Write(k, p, Size[p])

WriteAny == \E k \in Kind, p \in Payload : \E written \in 0 .. Size[p] : Write(k, p, written)

\* One process in a fresh data directory, whose disk may fill up and be freed again.
FreshSpec == WriterInit /\ [][WriteAny]_writerVars

\* Any number of processes, one after the other, on a disk with room.
RestartSpec == WriterInit /\ [][WriteWhole \/ Restart]_writerVars

-----------------------------------------------------------------------------
(* Reading back. *)

\* What lies behind the end of a file is whatever the buffer held before.
Uninitialised == <<>>

\* The bytes read_block returns.  An end before the start, after a wrap, gives
\* the buffer a negative length; nothing defined is read.
read_block(k, location) ==
  [i \in 1 .. location.end - location.start |->
    LET bytes == file[k][location.file]
    IN  IF location.start + i <= Len(bytes) THEN bytes[location.start + i]
        ELSE Uninitialised]

-----------------------------------------------------------------------------
(* Properties. *)

WriterTypeOK ==
  /\ file \in [Kind -> [FileNumber -> Seq(Payload \X Nat)]]
  /\ file_number \in [Kind -> FileNumber] /\ offset \in [Kind -> Offset]
  /\ \A k \in Kind : located[k] \subseteq FileInfo(k)
  /\ DOMAIN located = Kind
  /\ cut \in [Kind -> SUBSET FileNumber] /\ reused \in [Kind -> SUBSET FileNumber]
  /\ calls \in Nat

\* The files that were given a payload larger than a file may be.
Overfull(k) ==
  {location.file : location \in {l \in located[k] : Size[l.payload] > MaxFileSize}}

Yields(k, location) == read_block(k, location) = Bytes(location.payload)

\* Provided that its file was not gone on to again after the file number wrapped,
\* saw no write cut short and got no payload too large for it, every location
\* handed out still yields what was written there: the writer's offset and the
\* position at which the file system appends have not come apart.  What damages
\* a file damages no other.
ReadsBack ==
  \A k \in Kind : \A location \in located[k] :
    location.file \notin cut[k] \cup Overfull(k) \cup reused[k] => Yields(k, location)

\* Provided that the current file was not gone on to again after a wrap and got
\* nothing too large, the writer's offset is not behind the end of it, short writes
\* included: a location that does not yield its payload yields the payload's end,
\* what was written later, or nothing, but no byte of what was written before it.
NeverBehind ==
  \A k \in Kind :
    file_number[k] \notin Overfull(k) \cup reused[k]
      => Len(file[k][file_number[k]]) <= offset[k]

\* A file is beyond the maximal size only where a payload was itself too large or a
\* wrapped file number led back to it.
FilesBounded ==
  \A k \in Kind, n \in FileNumber :
    n \notin Overfull(k) \cup reused[k] => Len(file[k][n]) <= MaxFileSize

=============================================================================
