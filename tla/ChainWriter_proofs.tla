-------------------------- MODULE ChainWriter_proofs ------------------------
(***************************************************************************)
(* In a fresh data directory, what was written reads back wherever no      *)
(* write was cut short, no payload was too large, and no wrapped file      *)
(* number led back to a file that held something.  The invariant behind    *)
(* it: in such a file the writer's offset is the file's length; in one     *)
(* that only saw short writes it is no smaller.                            *)
(***************************************************************************)
EXTENDS ChainWriter, TLAPS

Byte == Payload \X Nat

\* A location covers bytes that are in its file.
Within(k, l) == l.start + Size[l.payload] = l.end /\ l.end <= Len(file[k][l.file])

\* Those bytes are the payload's.
Holds(k, l) ==
  \A i \in 1 .. Size[l.payload] : file[k][l.file][l.start + i] = <<l.payload, i>>

\* The files from which everything reads back.
Intact(k, n) == n \notin cut[k] \cup Overfull(k) \cup reused[k]

\* The location of p, written to a file of this number at start.
Location(p, number, start) ==
  [payload |-> p, file |-> number, start |-> start, end |-> (start + Size[p]) % OffsetRange]

\* Where a writer may stand in a file, for what that file went through.
Stood(k, n, position) ==
  /\ Len(file[k][n]) <= position
  /\ n \notin cut[k] => Len(file[k][n]) = position

Stands(k, n, position) ==
  n \notin Overfull(k) =>
    /\ position <= MaxFileSize
    /\ n \notin reused[k] => Stood(k, n, position)

Ahead == \A k \in Kind : Stands(k, file_number[k], offset[k])

\* Where a call that writes p goes: to a place where a writer may stand, with room
\* for p unless p is too large.  A file that it goes on to may be reused from now on.
Chosen(k, p, number, start) ==
  number \notin Overfull(k) =>
    /\ start <= MaxFileSize
    /\ Size[p] <= MaxFileSize => start + Size[p] <= MaxFileSize
    /\ number \notin reused'[k] => Stood(k, number, start)

\* What was reused stays so.
Marked ==
  /\ reused' \in [Kind -> SUBSET FileNumber]
  /\ \A j \in Kind : reused[j] \subseteq reused'[j]

Kept == \A k \in Kind : \A l \in located[k] : Intact(k, l.file) => Within(k, l) /\ Holds(k, l)

WriterInv == WriterTypeOK /\ FilesBounded /\ Ahead /\ Kept

-----------------------------------------------------------------------------

LEMMA SmallRemainder ==
  ASSUME NEW a \in Nat, NEW b \in Nat, a < b
  PROVE  a % b = a
OBVIOUS

LEMMA Concatenation ==
  ASSUME NEW S, NEW s \in Seq(S), NEW t \in Seq(S)
  PROVE  /\ s \o t \in Seq(S) /\ Len(s \o t) = Len(s) + Len(t)
         /\ Len(s) \in Nat /\ Len(t) \in Nat
         /\ \A i \in 1 .. Len(s) : (s \o t)[i] = s[i]
         /\ \A i \in 1 .. Len(t) : (s \o t)[Len(s) + i] = t[i]
OBVIOUS

LEMMA PayloadBytes ==
  ASSUME NEW p \in Payload
  PROVE  /\ Size[p] \in Nat /\ Size[p] > 0
         /\ Bytes(p) \in Seq(Byte) /\ Len(Bytes(p)) = Size[p]
         /\ \A i \in 1 .. Size[p] : Bytes(p)[i] = <<p, i>>
<1>1. Size[p] \in Nat /\ Size[p] > 0
  BY WriterAssumption
<1>2. \A i \in 1 .. Size[p] : <<p, i>> \in Byte
  BY <1>1 DEF Byte
<1> QED BY <1>1, <1>2 DEF Bytes

LEMMA Prefix ==
  ASSUME NEW S, NEW s \in Seq(S), NEW n \in 0 .. Len(s)
  PROVE  SubSeq(s, 1, n) \in Seq(S) /\ Len(SubSeq(s, 1, n)) = n
OBVIOUS

LEMMA WriterStart ==
  ASSUME WriterInit
  PROVE  WriterInv
<1>1. /\ \A k \in Kind, n \in FileNumber : file[k][n] = <<>>
      /\ \A k \in Kind : file_number[k] = 0 /\ offset[k] = 0 /\ located[k] = {}
  BY DEF WriterInit
<1>2. 0 \in FileNumber /\ 0 \in Offset /\ MaxFileSize \in Nat
  BY WriterAssumption DEF FileNumber, Offset
<1>3. WriterTypeOK
  <2>1. <<>> \in Seq(Payload \X Nat)
    OBVIOUS
  <2>2. file \in [Kind -> [FileNumber -> Seq(Payload \X Nat)]]
    BY <2>1 DEF WriterInit
  <2> QED BY <1>2, <2>2 DEF WriterInit, WriterTypeOK
<1>4. \A k \in Kind, n \in FileNumber : Len(file[k][n]) = 0
  BY <1>1
<1>5. FilesBounded
  BY <1>2, <1>4 DEF FilesBounded
<1>6. Ahead
  BY <1>1, <1>2, <1>4 DEF Ahead, Stands, Stood
<1>7. Kept
  BY <1>1 DEF Kept
<1> QED BY <1>3, <1>5, <1>6, <1>7 DEF WriterInv

\* Whichever file a call chooses, it stands where the invariant allows, and where
\* that says anything, a payload that is not too large has room.
LEMMA Place ==
  ASSUME WriterInv, NEW k \in Kind, NEW p \in Payload, NEW written,
         Write(k, p, written)
  PROVE  /\ Marked
         /\ \E number \in FileNumber, start \in Offset :
              WriteAt(k, p, number, start, written) /\ Chosen(k, p, number, start)
<1>1. /\ file \in [Kind -> [FileNumber -> Seq(Byte)]] /\ reused \in [Kind -> SUBSET FileNumber]
      /\ file_number[k] \in FileNumber /\ offset[k] \in Offset /\ offset[k] \in Nat
      /\ Size[p] \in Nat /\ MaxFileSize \in Nat
  BY PayloadBytes, WriterAssumption DEF WriterInv, WriterTypeOK, Byte, Offset
<1>2. CASE DoesNotFit(k, p)
  <2>1. GoOn(k, p, 0, written)
    BY <1>2 DEF Write
  <2>2. NextFile(k) \in FileNumber /\ 0 \in Offset
    <3>1. file_number[k] + 1 \in Nat /\ FileRange \in Nat /\ FileRange > 0
      BY <1>1, WriterAssumption DEF FileNumber
    <3> QED BY <3>1, WriterAssumption DEF NextFile, FileNumber, Offset
  <2>3. ASSUME file[k][NextFile(k)] = <<>>
        PROVE  Marked /\ Stood(k, NextFile(k), 0)
    BY <1>1, <2>1, <2>3 DEF GoOn, Marked, Stood
  <2>4. ASSUME file[k][NextFile(k)] # <<>>
        PROVE  Marked /\ NextFile(k) \in reused'[k]
    BY <1>1, <2>1, <2>2, <2>4 DEF GoOn, Marked
  <2>5. 0 <= MaxFileSize /\ (Size[p] <= MaxFileSize => 0 + Size[p] <= MaxFileSize)
    BY <1>1
  <2>6. WriteAt(k, p, NextFile(k), 0, written)
    BY <2>1 DEF GoOn
  <2> QED BY <2>2, <2>3, <2>4, <2>5, <2>6 DEF Chosen
<1>3. CASE ~DoesNotFit(k, p)
  <2>1. WriteAt(k, p, file_number[k], offset[k], written) /\ UNCHANGED reused
    BY <1>3 DEF Write, Stay
  <2>2. ASSUME file_number[k] \notin Overfull(k)
        PROVE  /\ offset[k] <= MaxFileSize /\ offset[k] + Size[p] <= MaxFileSize
               /\ file_number[k] \notin reused'[k] => Stood(k, file_number[k], offset[k])
    <3>1. /\ offset[k] <= MaxFileSize
          /\ file_number[k] \notin reused'[k] => Stood(k, file_number[k], offset[k])
      BY <2>1, <2>2 DEF WriterInv, Ahead, Stands
    <3>2. /\ MaxFileSize - offset[k] \in Nat /\ SizeRange \in Nat
          /\ MaxFileSize - offset[k] < SizeRange
      BY <1>1, <3>1, WriterAssumption
    <3>3. Remaining(k) = MaxFileSize - offset[k]
      BY <3>2, SmallRemainder DEF Remaining
    <3>4. MaxFileSize - offset[k] >= Size[p]
      BY <1>1, <1>3, <3>2, <3>3 DEF DoesNotFit, Kind
    <3> QED BY <1>1, <3>1, <3>4
  <2>3. Marked
    BY <1>1, <2>1 DEF Marked
  <2> QED BY <1>1, <2>1, <2>2, <2>3 DEF Chosen
<1> QED BY <1>2, <1>3

\* What a file went through is not forgotten, and a payload that is too large marks
\* the file it goes to.
LEMMA DamageStays ==
  ASSUME WriterInv, NEW k \in Kind, NEW new, new.file \in FileNumber,
         located' = [located EXCEPT ![k] = @ \cup {new}]
  PROVE  /\ \A j \in Kind : Overfull(j) \subseteq Overfull(j)'
         /\ Size[new.payload] > MaxFileSize => new.file \in Overfull(k)'
<1>1. \A j \in Kind : located[j] \subseteq located'[j]
  BY DEF WriterInv, WriterTypeOK
<1>2. new \in located'[k]
  BY DEF WriterInv, WriterTypeOK
<1>3. \A j \in Kind : \A n : n \in Overfull(j)' <=>
        \E l \in located'[j] : Size[l.payload] > MaxFileSize /\ n = l.file
  BY DEF Overfull
<1>4. ASSUME NEW j \in Kind, NEW n \in Overfull(j)
      PROVE  n \in Overfull(j)'
  <2>1. PICK l \in located[j] : Size[l.payload] > MaxFileSize /\ n = l.file
    BY <1>4 DEF Overfull
  <2> QED BY <1>1, <1>3, <2>1
<1>5. Size[new.payload] > MaxFileSize => new.file \in Overfull(k)'
  BY <1>2, <1>3
<1> QED BY <1>4, <1>5

\* What the file written to holds afterwards.
LEMMA Extended ==
  ASSUME WriterInv, NEW k \in Kind, NEW p \in Payload, NEW number \in FileNumber,
         NEW written \in 0 .. Size[p], PutBytes(k, p, number, written)
  PROVE  /\ file' \in [Kind -> [FileNumber -> Seq(Byte)]]
         /\ cut' \in [Kind -> SUBSET FileNumber]
         /\ \A j \in Kind, n \in FileNumber :
              j # k \/ n # number => file'[j][n] = file[j][n] /\ (n \in cut'[j] <=> n \in cut[j])
         /\ number \in cut'[k] <=> number \in cut[k] \/ written < Size[p]
         /\ Len(file[k][number]) \in Nat
         /\ Len(file'[k][number]) = Len(file[k][number]) + written
         /\ \A i \in 1 .. Len(file[k][number]) : file'[k][number][i] = file[k][number][i]
         /\ \A i \in 1 .. written : file'[k][number][Len(file[k][number]) + i] = <<p, i>>
<1>1. file \in [Kind -> [FileNumber -> Seq(Byte)]] /\ cut \in [Kind -> SUBSET FileNumber]
  BY DEF WriterInv, WriterTypeOK, Byte
<1> DEFINE before == file[k][number]
           bytes == SubSeq(Bytes(p), 1, written)
           after == before \o bytes
<1>2. before \in Seq(Byte)
  BY <1>1
<1>3. bytes \in Seq(Byte) /\ Len(bytes) = written /\ \A i \in 1 .. written : bytes[i] = <<p, i>>
  <2>1. /\ Bytes(p) \in Seq(Byte) /\ Len(Bytes(p)) = Size[p] /\ Size[p] \in Nat
        /\ \A i \in 1 .. Size[p] : Bytes(p)[i] = <<p, i>>
    BY PayloadBytes
  <2> QED BY <2>1, Prefix
<1>4. file' = [file EXCEPT ![k][number] = after]
      /\ cut' = [cut EXCEPT ![k] = IF written < Size[p] THEN @ \cup {number} ELSE @]
  BY DEF PutBytes
<1> HIDE DEF before, bytes
<1>5. /\ after \in Seq(Byte) /\ Len(before) \in Nat /\ Len(after) = Len(before) + Len(bytes)
      /\ \A i \in 1 .. Len(before) : after[i] = before[i]
      /\ \A i \in 1 .. Len(bytes) : after[Len(before) + i] = bytes[i]
  <2>1. \A s, t \in Seq(Byte) :
          /\ s \o t \in Seq(Byte) /\ Len(s \o t) = Len(s) + Len(t)
          /\ Len(s) \in Nat
          /\ \A i \in 1 .. Len(s) : (s \o t)[i] = s[i]
          /\ \A i \in 1 .. Len(t) : (s \o t)[Len(s) + i] = t[i]
    BY Concatenation
  <2> QED BY <1>2, <1>3, <2>1
<1> HIDE DEF after
<1>6. /\ file' \in [Kind -> [FileNumber -> Seq(Byte)]] /\ file'[k][number] = after
      /\ \A j \in Kind, n \in FileNumber : j # k \/ n # number => file'[j][n] = file[j][n]
  BY <1>1, <1>4, <1>5
<1>7. /\ cut' \in [Kind -> SUBSET FileNumber]
      /\ \A j \in Kind, n \in FileNumber : j # k \/ n # number => (n \in cut'[j] <=> n \in cut[j])
      /\ number \in cut'[k] <=> number \in cut[k] \/ written < Size[p]
  BY <1>1, <1>4
<1> QED BY <1>3, <1>5, <1>6, <1>7 DEF before

\* Where nothing too large was ever written to the file written to, the payload had room.
LEMMA RoomAfter ==
  ASSUME WriterInv, NEW k \in Kind, NEW p \in Payload,
         NEW number \in FileNumber, NEW start \in Offset, NEW written,
         Chosen(k, p, number, start), AppendTo(k, p, number, start, written),
         number \notin Overfull(k)'
  PROVE  /\ number \notin Overfull(k) /\ start + Size[p] <= MaxFileSize
         /\ (start + Size[p]) % OffsetRange = start + Size[p]
<1>1. /\ start \in Nat /\ Size[p] \in Nat /\ MaxFileSize \in Nat /\ OffsetRange \in Nat
      /\ MaxFileSize < OffsetRange
  BY PayloadBytes, WriterAssumption DEF Offset
<1>2. located' = [located EXCEPT ![k] = @ \cup {Location(p, number, start)}]
  BY DEF AppendTo, Location
<1>3. Location(p, number, start).file = number /\ Location(p, number, start).payload = p
  BY DEF Location
<1>4. number \notin Overfull(k) /\ Size[p] <= MaxFileSize
  <2> DEFINE new == Location(p, number, start)
  <2>1. new.file \in FileNumber /\ new.file = number /\ new.payload = p
    BY <1>3
  <2>2. located' = [located EXCEPT ![k] = @ \cup {new}]
    BY <1>2
  <2> HIDE DEF new
  <2>3. Overfull(k) \subseteq Overfull(k)' /\ (Size[p] > MaxFileSize => number \in Overfull(k)')
    BY <2>1, <2>2, DamageStays
  <2> QED BY <1>1, <2>3
<1>5. start + Size[p] <= MaxFileSize /\ start + Size[p] \in Nat
  BY <1>1, <1>4 DEF Chosen
<1> QED BY <1>1, <1>4, <1>5, SmallRemainder

\* Where such a file stands afterwards, unless it is reused.
LEMMA StandsAfter ==
  ASSUME WriterInv, NEW k \in Kind, NEW p \in Payload,
         NEW number \in FileNumber, NEW start \in Offset, NEW written \in 0 .. Size[p],
         Chosen(k, p, number, start), AppendTo(k, p, number, start, written),
         number \notin Overfull(k)' \cup reused'[k]
  PROVE  /\ Len(file'[k][number]) <= start + Size[p]
         /\ number \notin cut'[k] =>
              /\ number \notin cut[k] /\ written = Size[p]
              /\ Len(file[k][number]) = start
              /\ Len(file'[k][number]) = start + Size[p]
<1>1. start \in Nat /\ Size[p] \in Nat
  BY PayloadBytes, WriterAssumption DEF Offset
<1>2. number \notin Overfull(k)
  BY RoomAfter
<1>3. /\ Len(file[k][number]) <= start /\ Len(file[k][number]) \in Nat
      /\ number \notin cut[k] => Len(file[k][number]) = start
      /\ Len(file'[k][number]) = Len(file[k][number]) + written
      /\ number \in cut'[k] <=> number \in cut[k] \/ written < Size[p]
  BY <1>2, Extended DEF AppendTo, Chosen, Stood
<1>4. written \in Nat /\ written <= Size[p]
  BY <1>1
<1>5. Len(file'[k][number]) <= start + Size[p]
  BY <1>1, <1>3, <1>4
<1>6. ASSUME number \notin cut'[k]
      PROVE  /\ number \notin cut[k] /\ written = Size[p]
             /\ Len(file[k][number]) = start /\ Len(file'[k][number]) = start + Size[p]
  <2>1. number \notin cut[k] /\ ~(written < Size[p])
    BY <1>3, <1>6
  <2>2. written = Size[p]
    BY <1>1, <1>4, <2>1
  <2> QED BY <1>3, <2>1, <2>2
<1> QED BY <1>5, <1>6

\* A write only adds to a file: what was intact before and still is keeps its bytes.
LEMMA EarlierStay ==
  ASSUME WriterInv, NEW k \in Kind, NEW p \in Payload, NEW number \in FileNumber,
         NEW written \in 0 .. Size[p], PutBytes(k, p, number, written),
         NEW j \in Kind, NEW l \in located[j], Within(j, l), Holds(j, l)
  PROVE  Within(j, l)' /\ Holds(j, l)'
<1>1. l.payload \in Payload /\ l.file \in FileNumber /\ l.start \in Nat /\ l.end \in Nat
      /\ Size[l.payload] \in Nat
  <2>1. l \in FileInfo(j)
    BY DEF WriterInv, WriterTypeOK
  <2>2. l.payload \in Payload /\ l.file \in FileNumber /\ l.start \in Nat /\ l.end \in Nat
    BY <2>1, WriterAssumption DEF FileInfo, Offset
  <2> QED BY <2>2, PayloadBytes
<1>2. CASE j # k \/ l.file # number
  <2>1. file'[j][l.file] = file[j][l.file]
    BY <1>1, <1>2, Extended
  <2> QED BY <1>1, <2>1 DEF Within, Holds
<1>3. CASE j = k /\ l.file = number
  <2>1. /\ Len(file[k][number]) \in Nat /\ written \in Nat
        /\ Len(file'[k][number]) = Len(file[k][number]) + written
        /\ \A i \in 1 .. Len(file[k][number]) : file'[k][number][i] = file[k][number][i]
    BY PayloadBytes, Extended
  <2>2. l.start + Size[l.payload] = l.end /\ l.end <= Len(file[k][number])
    BY <1>3 DEF Within
  <2>3. Within(j, l)'
    BY <1>1, <1>3, <2>1, <2>2 DEF Within
  <2>4. ASSUME NEW i \in 1 .. Size[l.payload]
        PROVE  file'[j][l.file][l.start + i] = <<l.payload, i>>
    <3>1. l.start + i \in 1 .. Len(file[k][number])
      BY <1>1, <2>1, <2>2
    <3>2. file'[k][number][l.start + i] = file[k][number][l.start + i]
      BY <2>1, <3>1
    <3> QED BY <1>3, <3>2 DEF Holds
  <2> QED BY <2>3, <2>4 DEF Holds
<1> QED BY <1>2, <1>3

\* The new location, in a file that is intact.
LEMMA NewHolds ==
  ASSUME WriterInv, NEW k \in Kind, NEW p \in Payload,
         NEW number \in FileNumber, NEW start \in Offset, NEW written \in 0 .. Size[p],
         Chosen(k, p, number, start), AppendTo(k, p, number, start, written),
         Intact(k, number)'
  PROVE  Within(k, Location(p, number, start))' /\ Holds(k, Location(p, number, start))'
<1> DEFINE l == Location(p, number, start)
<1>1. /\ (start + Size[p]) % OffsetRange = start + Size[p]
      /\ written = Size[p] /\ Len(file[k][number]) = start
      /\ Len(file'[k][number]) = start + Size[p]
  BY RoomAfter, StandsAfter DEF Intact
<1>2. /\ l.payload = p /\ l.file = number /\ l.start = start /\ l.end = start + Size[p]
      /\ start \in Nat /\ Size[p] \in Nat
  BY <1>1, PayloadBytes, WriterAssumption DEF Offset, Location
<1> HIDE DEF l
<1>3. \A i \in 1 .. Size[p] : file'[k][number][start + i] = <<p, i>>
  BY <1>1, Extended DEF AppendTo
<1>4. Within(k, l)'
  BY <1>1, <1>2 DEF Within
<1>5. Holds(k, l)'
  BY <1>2, <1>3 DEF Holds
<1> QED BY <1>4, <1>5 DEF l

LEMMA AppendTypes ==
  ASSUME WriterInv, NEW k \in Kind, NEW p \in Payload,
         NEW number \in FileNumber, NEW start \in Offset, NEW written \in 0 .. Size[p],
         file_number' = [file_number EXCEPT ![k] = number], calls' = calls + 1, Marked,
         AppendTo(k, p, number, start, written)
  PROVE  WriterTypeOK'
<1>1. /\ file' \in [Kind -> [FileNumber -> Seq(Payload \X Nat)]]
      /\ cut' \in [Kind -> SUBSET FileNumber]
  BY Extended DEF AppendTo, Byte
<1>2. (start + Size[p]) % OffsetRange \in Offset
  <2>1. start + Size[p] \in Nat /\ OffsetRange \in Nat /\ OffsetRange > 0
    BY PayloadBytes, WriterAssumption DEF Offset
  <2>2. \A a \in Nat : a % OffsetRange \in 0 .. OffsetRange - 1
    BY <2>1
  <2> QED BY <2>1, <2>2 DEF Offset
<1>3. /\ offset' = [offset EXCEPT ![k] = (start + Size[p]) % OffsetRange]
      /\ located' = [located EXCEPT ![k] = @ \cup {Location(p, number, start)}]
  BY DEF AppendTo, Location
<1>4. Location(p, number, start) \in FileInfo(k)
  BY <1>2 DEF Location, FileInfo
<1> HIDE DEF AppendTo
<1>5. /\ file_number' \in [Kind -> FileNumber] /\ calls' \in Nat
      /\ reused' \in [Kind -> SUBSET FileNumber]
      /\ offset' \in [Kind -> Offset]
  BY <1>2, <1>3 DEF WriterInv, WriterTypeOK, Marked
<1>6. DOMAIN located' = Kind /\ \A j \in Kind : located'[j] \subseteq FileInfo(j)
  <2>1. DOMAIN located = Kind /\ \A j \in Kind : located[j] \subseteq FileInfo(j)
    BY DEF WriterInv, WriterTypeOK
  <2> QED BY <1>3, <1>4, <2>1
<1> QED BY <1>1, <1>5, <1>6 DEF WriterTypeOK

LEMMA AppendKeeps ==
  ASSUME WriterInv, NEW k \in Kind, NEW p \in Payload,
         NEW number \in FileNumber, NEW start \in Offset, NEW written \in 0 .. Size[p],
         Marked, Chosen(k, p, number, start),
         file_number' = [file_number EXCEPT ![k] = number], calls' = calls + 1,
         AppendTo(k, p, number, start, written)
  PROVE  WriterInv'
<1> DEFINE new == Location(p, number, start)
<1>1. /\ file \in [Kind -> [FileNumber -> Seq(Byte)]]
      /\ file_number \in [Kind -> FileNumber] /\ offset \in [Kind -> Offset]
      /\ cut \in [Kind -> SUBSET FileNumber]
      /\ DOMAIN located = Kind /\ calls \in Nat /\ MaxFileSize \in Nat
      /\ \A n \in FileNumber : n \in Nat
  BY WriterAssumption DEF WriterInv, WriterTypeOK, Byte, FileNumber
<1>2. /\ PutBytes(k, p, number, written)
      /\ offset' = [offset EXCEPT ![k] = (start + Size[p]) % OffsetRange]
      /\ located' = [located EXCEPT ![k] = @ \cup {new}]
      /\ new.file = number /\ new.payload = p
  BY DEF AppendTo, Location
<1>3. /\ \A j \in Kind, n \in FileNumber :
           j # k \/ n # number => file'[j][n] = file[j][n] /\ (n \in cut'[j] <=> n \in cut[j])
      /\ number \in cut[k] => number \in cut'[k]
  BY <1>2, Extended
<1> HIDE DEF new
<1>4. \A j \in Kind : Overfull(j) \subseteq Overfull(j)'
  BY <1>2, DamageStays
<1>5. \A j \in Kind, n \in FileNumber : Intact(j, n)' => Intact(j, n)
  BY <1>3, <1>4 DEF Intact, Marked
<1>6. WriterTypeOK'
  BY AppendTypes
<1>7. ASSUME number \notin Overfull(k)'
      PROVE  /\ offset'[k] <= MaxFileSize
             /\ number \notin reused'[k] =>
                  Stood(k, number, offset[k])' /\ Len(file'[k][number]) <= MaxFileSize
  <2>1. offset'[k] = start + Size[p] /\ start + Size[p] <= MaxFileSize
    BY <1>1, <1>2, <1>7, RoomAfter
  <2>2. ASSUME number \notin reused'[k]
        PROVE  Stood(k, number, offset[k])' /\ Len(file'[k][number]) <= MaxFileSize
    <3>1. /\ Len(file'[k][number]) <= start + Size[p]
          /\ number \notin cut'[k] => Len(file'[k][number]) = start + Size[p]
      BY <1>7, <2>2, StandsAfter
    <3>2. Len(file'[k][number]) \in Nat /\ start + Size[p] \in Nat
      <4>1. file'[k][number] \in Seq(Payload \X Nat)
        BY <1>6 DEF WriterTypeOK
      <4> QED BY <4>1, PayloadBytes, WriterAssumption DEF Offset
    <3> QED BY <1>1, <2>1, <3>1, <3>2 DEF Stood
  <2> QED BY <2>1, <2>2
<1>8. FilesBounded'
  <2> SUFFICES ASSUME NEW j \in Kind, NEW n \in FileNumber, n \notin Overfull(j)' \cup reused'[j]
               PROVE  Len(file'[j][n]) <= MaxFileSize
    BY DEF FilesBounded
  <2>1. CASE j = k /\ n = number
    BY <1>7, <2>1
  <2>2. CASE j # k \/ n # number
    BY <1>3, <1>4, <2>2 DEF WriterInv, FilesBounded, Marked
  <2> QED BY <2>1, <2>2
<1>9. Ahead'
  <2> SUFFICES ASSUME NEW j \in Kind
               PROVE  Stands(j, file_number[j], offset[j])'
    BY DEF Ahead
  <2>1. CASE j = k
    <3>1. file_number'[j] = number
      BY <1>1, <2>1
    <3> QED BY <1>7, <2>1, <3>1 DEF Stands, Stood
  <2>2. CASE j # k
    <3>1. /\ file_number'[j] = file_number[j] /\ offset'[j] = offset[j]
          /\ file_number[j] \in FileNumber /\ Stands(j, file_number[j], offset[j])
      BY <1>1, <1>2, <2>2 DEF WriterInv, Ahead
    <3>2. \A n \in FileNumber : file'[j][n] = file[j][n] /\ (n \in cut'[j] <=> n \in cut[j])
      BY <1>3, <2>2
    <3> QED BY <1>4, <3>1, <3>2 DEF Stands, Stood, Marked
  <2> QED BY <2>1, <2>2
<1>10. Kept'
  <2> SUFFICES ASSUME NEW j \in Kind, NEW l \in located'[j], Intact(j, l.file)'
               PROVE  Within(j, l)' /\ Holds(j, l)'
    BY DEF Kept
  <2>1. l \in located[j] \/ (j = k /\ l = new)
    BY <1>1, <1>2
  <2>2. CASE l \in located[j]
    <3>1. l.file \in FileNumber
      BY <2>2 DEF WriterInv, WriterTypeOK, FileInfo
    <3>2. Within(j, l) /\ Holds(j, l)
      BY <1>5, <2>2, <3>1 DEF WriterInv, Kept
    <3> QED BY <1>2, <2>2, <3>2, EarlierStay
  <2>3. CASE j = k /\ l = new
    <3>1. Intact(k, number)'
      BY <1>2, <2>3
    <3> QED BY <2>3, <3>1, NewHolds DEF new
  <2> QED BY <2>1, <2>2, <2>3
<1> QED BY <1>6, <1>8, <1>9, <1>10 DEF WriterInv

LEMMA CannotOpenKeeps ==
  ASSUME WriterInv, NEW k \in Kind, NEW p, NEW number \in FileNumber, NEW start \in Offset,
         Marked, Chosen(k, p, number, start),
         file_number' = [file_number EXCEPT ![k] = number], calls' = calls + 1,
         CannotOpen(k, start)
  PROVE  WriterInv'
<1>1. /\ file_number \in [Kind -> FileNumber] /\ offset \in [Kind -> Offset] /\ calls \in Nat
  BY DEF WriterInv, WriterTypeOK
<1>2. /\ UNCHANGED <<file, located, cut>> /\ offset' = [offset EXCEPT ![k] = start]
      /\ \A j \in Kind : Overfull(j)' = Overfull(j)
  BY DEF CannotOpen, Overfull
<1>3. WriterTypeOK'
  BY <1>1, <1>2 DEF WriterInv, WriterTypeOK, Marked
<1>4. FilesBounded'
  BY <1>2 DEF WriterInv, FilesBounded, Marked
<1>5. Kept'
  BY <1>2 DEF WriterInv, Kept, Intact, Within, Holds, Marked
<1>6. Ahead'
  <2> SUFFICES ASSUME NEW j \in Kind
               PROVE  Stands(j, file_number[j], offset[j])'
    BY DEF Ahead
  <2>1. CASE j = k
    BY <1>1, <1>2, <2>1 DEF Stands, Stood, Chosen
  <2>2. CASE j # k
    <3>1. file_number'[j] = file_number[j] /\ offset'[j] = offset[j]
      BY <1>1, <1>2, <2>2
    <3>2. Stands(j, file_number[j], offset[j])
      BY DEF WriterInv, Ahead
    <3> QED BY <1>2, <3>1, <3>2 DEF Stands, Stood, Marked
  <2> QED BY <2>1, <2>2
<1> QED BY <1>3, <1>4, <1>5, <1>6 DEF WriterInv

LEMMA WriterStep ==
  ASSUME WriterInv, NEW k \in Kind, NEW p \in Payload, NEW written \in 0 .. Size[p],
         Write(k, p, written)
  PROVE  WriterInv'
<1>1. /\ Marked
      /\ \E number \in FileNumber, start \in Offset :
           WriteAt(k, p, number, start, written) /\ Chosen(k, p, number, start)
  BY Place
<1> PICK number \in FileNumber, start \in Offset :
      WriteAt(k, p, number, start, written) /\ Chosen(k, p, number, start)
  BY <1>1
<1>2. file_number' = [file_number EXCEPT ![k] = number] /\ calls' = calls + 1
  BY DEF WriteAt
<1>3. CASE AppendTo(k, p, number, start, written)
  BY <1>1, <1>2, <1>3, AppendKeeps
<1>4. CASE CannotOpen(k, start)
  BY <1>1, <1>2, <1>4, CannotOpenKeeps
<1> QED BY <1>3, <1>4 DEF WriteAt

LEMMA WriterStutter ==
  ASSUME WriterInv, UNCHANGED writerVars
  PROVE  WriterInv'
<1>1. \A k \in Kind : Overfull(k)' = Overfull(k)
  BY DEF writerVars, Overfull
<1>2. WriterTypeOK'
  BY DEF WriterInv, writerVars, WriterTypeOK
<1>3. FilesBounded'
  BY <1>1 DEF WriterInv, writerVars, FilesBounded
<1>4. Ahead'
  BY <1>1 DEF WriterInv, writerVars, Ahead, Stands, Stood
<1>5. Kept'
  BY <1>1 DEF WriterInv, writerVars, Kept, Intact, Within, Holds
<1> QED BY <1>2, <1>3, <1>4, <1>5 DEF WriterInv

\* What the invariant keeps of a location is what reading it needs.
LEMMA KeptReadsBack == ASSUME WriterInv PROVE ReadsBack
<1> SUFFICES ASSUME NEW k \in Kind, NEW l \in located[k], Intact(k, l.file)
             PROVE  Yields(k, l)
  BY DEF ReadsBack, Intact
<1>1. Within(k, l) /\ Holds(k, l) /\ l \in FileInfo(k)
  BY DEF WriterInv, WriterTypeOK, Kept
<1>2. l.start \in Nat /\ Size[l.payload] \in Nat /\ Len(file[k][l.file]) \in Nat
  <2>1. l.start \in Nat /\ l.payload \in Payload /\ l.file \in FileNumber
    BY <1>1, WriterAssumption DEF FileInfo, Offset
  <2>2. file[k][l.file] \in Seq(Byte)
    BY <2>1 DEF WriterInv, WriterTypeOK, Byte
  <2> QED BY <2>1, <2>2, PayloadBytes
<1>3. l.end - l.start = Size[l.payload]
  BY <1>1, <1>2 DEF Within
<1>4. ASSUME NEW i \in 1 .. Size[l.payload]
      PROVE  /\ l.start + i <= Len(file[k][l.file])
             /\ file[k][l.file][l.start + i] = <<l.payload, i>>
  BY <1>1, <1>2 DEF Within, Holds
<1> QED BY <1>3, <1>4 DEF Yields, read_block, Bytes

\* With nothing cut short and nothing too large, every location reads back, unless
\* its file is reused.
LEMMA AllReadsBack ==
  ASSUME WriterInv, \A p \in Payload : Size[p] <= MaxFileSize, \A k \in Kind : cut[k] = {},
         NEW k \in Kind, NEW l \in located[k], l.file \notin reused[k]
  PROVE  read_block(k, l) = Bytes(l.payload)
<1>1. located[k] \subseteq FileInfo(k)
  BY DEF WriterInv, WriterTypeOK
<1>2. \A m \in located[k] : Size[m.payload] \in Nat /\ Size[m.payload] <= MaxFileSize
  BY <1>1, PayloadBytes DEF FileInfo
<1>3. Overfull(k) = {}
  BY <1>2, WriterAssumption DEF Overfull
<1> QED BY <1>3, KeptReadsBack DEF ReadsBack, Yields

\* What one whole write does on such a disk: either the file could not be opened and no
\* file changed, or the FileInfo computed from the offset left behind was handed out.
LEMMA WholeWrite ==
  ASSUME WriterInv, \A q \in Payload : Size[q] <= MaxFileSize,
         \A j \in Kind : cut[j] = {},
         NEW k \in Kind, NEW p \in Payload, Write(k, p, Size[p])
  PROVE  /\ WriterInv'
         /\ \A j \in Kind : cut'[j] = {} /\ located[j] \subseteq located'[j]
         /\ file' # file =>
              [payload |-> p, file |-> file_number'[k],
               start |-> (offset'[k] - Size[p]) % OffsetRange, end |-> offset'[k]] \in located'[k]
<1>1. Size[p] \in Nat /\ Size[p] \in 0 .. Size[p]
  BY PayloadBytes
<1>2. WriterInv'
  BY <1>1, WriterStep
<1>3. PICK number \in FileNumber, start \in Offset :
        WriteAt(k, p, number, start, Size[p]) /\ Chosen(k, p, number, start)
  BY Place
<1>4. /\ file_number' = [file_number EXCEPT ![k] = number]
      /\ AppendTo(k, p, number, start, Size[p]) \/ CannotOpen(k, start)
  BY <1>3 DEF WriteAt
<1>5. CASE CannotOpen(k, start)
  BY <1>2, <1>5 DEF CannotOpen
<1>6. CASE AppendTo(k, p, number, start, Size[p])
  <2>1. /\ PutBytes(k, p, number, Size[p])
        /\ offset' = [offset EXCEPT ![k] = (start + Size[p]) % OffsetRange]
        /\ located' = [located EXCEPT ![k] = @ \cup {Location(p, number, start)}]
    BY <1>6 DEF AppendTo, Location
  <2>2. \A j \in Kind : cut'[j] = {}
    BY <1>1, <2>1 DEF PutBytes, WriterInv, WriterTypeOK
  <2>3. /\ \A j \in Kind : located[j] \subseteq located'[j]
        /\ Location(p, number, start) \in located'[k]
    BY <2>1 DEF WriterInv, WriterTypeOK
  <2>4. number \notin Overfull(k)'
    <3>1. \A m \in located'[k] : Size[m.payload] \in Nat /\ Size[m.payload] <= MaxFileSize
      BY <1>2, PayloadBytes DEF WriterInv, WriterTypeOK, FileInfo
    <3> QED BY <3>1, WriterAssumption DEF Overfull
  <2>5. (start + Size[p]) % OffsetRange = start + Size[p]
    BY <1>3, <1>6, <2>4, RoomAfter
  <2>6. start \in Nat /\ start < OffsetRange /\ OffsetRange \in Nat
    BY WriterAssumption DEF Offset
  <2>7. file_number'[k] = number /\ offset'[k] = start + Size[p]
    BY <1>4, <2>1, <2>5 DEF WriterInv, WriterTypeOK
  <2>8. (offset'[k] - Size[p]) % OffsetRange = start
    <3>1. offset'[k] - Size[p] = start
      BY <1>1, <2>6, <2>7
    <3> QED BY <2>6, <3>1, SmallRemainder
  <2> QED BY <1>2, <2>2, <2>3, <2>5, <2>7, <2>8 DEF Location
<1> QED BY <1>4, <1>5, <1>6

-----------------------------------------------------------------------------

\* WriterInv holds: unless something too large was written to the current file or a
\* wrapped file number led back to it, the offset is where it ends, or beyond that
\* after short writes.
THEOREM WriterInvariant == FreshSpec => []WriterInv
<1>1. WriterInit => WriterInv
  BY WriterStart
<1>2. WriterInv /\ [WriteAny]_writerVars => WriterInv'
  BY WriterStep, WriterStutter DEF WriteAny
<1> QED BY <1>1, <1>2, PTL DEF FreshSpec

\* Every location handed out keeps yielding what was written there, in every file that
\* saw no short write and nothing too large and was not reused.
THEOREM WrittenReadsBack == FreshSpec => []ReadsBack
<1>1. WriterInv => ReadsBack
  BY KeptReadsBack
<1> QED BY <1>1, WriterInvariant, PTL

\* Only payloads that are too large, and wrapped file numbers, take a file beyond the
\* maximal size.
THEOREM FilesStayBounded == FreshSpec => []FilesBounded
<1>1. WriterInv => FilesBounded
  BY DEF WriterInv
<1> QED BY <1>1, WriterInvariant, PTL

\* The offset never falls behind the end of its file, unless something too large was
\* written to it or it is reused.
THEOREM OffsetNeverBehind == FreshSpec => []NeverBehind
<1>1. WriterInv => NeverBehind
  BY DEF WriterInv, Ahead, Stands, Stood, NeverBehind
<1> QED BY <1>1, WriterInvariant, PTL

\* Every variable keeps its type: no offset and no file number leaves its width.
THEOREM WriterTypes == FreshSpec => []WriterTypeOK
<1>1. WriterInv => WriterTypeOK
  BY DEF WriterInv
<1> QED BY <1>1, WriterInvariant, PTL

=============================================================================
