--------------------------- MODULE Database_proofs --------------------------
(***************************************************************************)
(* The mutex of Database does its work for any number of threads, keys,    *)
(* values and calls: the calls that take it are alone in the map, orderly  *)
(* threads never race, and what orderly threads see is AtomicMap.          *)
(*                                                                         *)
(* A call takes effect for the others when it enters.  From then on the    *)
(* map to be and the answers to be stay what they are, since doing one     *)
(* operation now and the rest later comes to the same.                     *)
(***************************************************************************)
EXTENDS Database, SequenceTheorems, WellFoundedInduction, TLAPS

\* What holds between the steps of the calls, unlocked ones included.
DatabaseInv ==
  /\ DatabaseTypeOK /\ LockedCallsAlone
  /\ \A t \in Thread : mutex = t => phase[t] = "running" /\ locking[t]
  /\ \A t \in inside : phase[t] = "running" /\ ops[t] # <<>>

\* The lists of operations that the calls are made of, and what is left of them: writes
\* only, lookups of values only, or a single operation.  Only a put has a value.
Rests == {l \in Seq(Operation) :
  /\ \A i \in DOMAIN l : l[i].op # "put" => l[i].value = Empty
  /\ \/ \A i \in DOMAIN l : l[i].op \in {"put", "delete"}
     \/ \A i \in DOMAIN l : l[i].op = "read"
     \/ Len(l) <= 1}
Lists == Rests \ {<<>>}

\* Only a put carries a value.
Proper == {op \in Operation : op.op # "put" => op.value = Empty}

LEMMA OperationTypes ==
  ASSUME NEW k \in Key, NEW v \in Value
  PROVE  /\ Read(k) \in Proper /\ Find(k) \in Proper
         /\ Delete(k) \in Proper /\ Put(k, v) \in Proper
BY DatabaseAssumption DEF Read, Find, Delete, Put, Operation, Proper

LEMMA SingleList == ASSUME NEW op \in Proper PROVE <<op>> \in Lists
<1> DEFINE l == <<op>>
<1>1. op \in Operation /\ (op.op # "put" => op.value = Empty)
  BY DEF Proper
<1>2. l \in Seq(Operation) /\ l # <<>> /\ Len(l) = 1 /\ \A i \in DOMAIN l : l[i] = op
  BY <1>1
<1> HIDE DEF l
<1>3. l \in Lists
  BY <1>1, <1>2 DEF Lists, Rests
<1> QED BY <1>3 DEF l

LEMMA ReadingList ==
  ASSUME NEW keys \in KeyLists
  PROVE  [i \in DOMAIN keys |-> Read(keys[i])] \in Lists
<1>1. keys \in Seq(Key) /\ keys # <<>>
  BY DatabaseAssumption
<1>2. \A i \in DOMAIN keys :
        /\ Read(keys[i]) \in Operation
        /\ Read(keys[i]).op = "read" /\ Read(keys[i]).value = Empty
  BY <1>1, DatabaseAssumption DEF Read, Operation
<1> DEFINE reading == [i \in DOMAIN keys |-> Read(keys[i])]
<1>3. reading \in Seq(Operation) /\ DOMAIN reading = DOMAIN keys
  BY <1>1, <1>2
<1>4. reading # <<>>
  BY <1>1, <1>3
<1>5. \A i \in DOMAIN reading : reading[i].op = "read" /\ reading[i].value = Empty
  BY <1>2
<1> HIDE DEF reading
<1>6. reading \in Lists
  BY <1>3, <1>4, <1>5 DEF Lists, Rests
<1>7. QED
  BY <1>6 DEF reading

LEMMA BatchList == ASSUME NEW batch \in Batches PROVE batch \in Lists
<1> DEFINE Writing == {Put(k, v) : k \in Key, v \in Value} \cup {Delete(k) : k \in Key}
<1>1. batch \in Seq(Writing) /\ batch # <<>>
  BY BatchAssumption
<1>2. \A op \in Writing : op \in Proper /\ op.op \in {"put", "delete"}
  BY DatabaseAssumption DEF Put, Delete, Operation, Proper
<1> HIDE DEF Writing
<1>3. \A i \in DOMAIN batch : batch[i] \in Writing
  BY <1>1
<1>4. \A i \in DOMAIN batch : batch[i] \in Proper /\ batch[i].op \in {"put", "delete"}
  BY <1>2, <1>3
<1>5. \A op \in Writing : op \in Operation
  BY <1>2 DEF Proper
<1>6. batch \in Seq(Operation)
  BY <1>1, <1>5
<1> QED BY <1>1, <1>4, <1>6 DEF Lists, Rests, Proper

LEMMA SafeCallLists ==
  ASSUME NEW t \in Thread, CallSafely(t)
  PROVE  \E list \in Lists : Call(t, TRUE, list)
<1>1. CASE \E k \in Key : get_safely(t, k) \/ delete_safely(t, k)
  BY <1>1, SingleList, OperationTypes, DatabaseAssumption DEF get_safely, delete_safely
<1>2. CASE \E k \in Key, v \in Value : put_safely(t, k, v)
  BY <1>2, SingleList, OperationTypes DEF put_safely
<1>3. CASE \E batch \in Batches : batch_write_safely(t, batch)
  BY <1>3, BatchList DEF batch_write_safely
<1>4. CASE \E keys \in KeyLists : batch_read_safely(t, keys)
  BY <1>4, ReadingList DEF batch_read_safely
<1>5. QED
  BY <1>1, <1>2, <1>3, <1>4 DEF CallSafely

LEMMA UnlockedCallLists ==
  ASSUME NEW t \in Thread, CallUnlocked(t)
  PROVE  \E list \in Lists : Call(t, FALSE, list)
<1>1. CASE \E k \in Key : get(t, k) \/ has(t, k)
  BY <1>1, SingleList, OperationTypes, DatabaseAssumption DEF get, has
<1>2. CASE \E keys \in KeyLists : batch_read(t, keys)
  BY <1>2, ReadingList DEF batch_read
<1>3. QED
  BY <1>1, <1>2 DEF CallUnlocked

LEMMA InitDatabase == DatabaseInit => DatabaseInv
<1> SUFFICES ASSUME DatabaseInit PROVE DatabaseInv
  OBVIOUS
<1>1. \E present \in SUBSET Key : store \in [present -> Value]
  <2>1. store \in [{} -> Value]
    BY DEF DatabaseInit
  <2>2. QED
    BY <2>1
<1>2. /\ ops \in [Thread -> Seq(Operation)] /\ \A t \in Thread : ops[t] = <<>>
      /\ reads \in [Thread -> Seq(Value \cup {"present", "absent"})]
  BY DEF DatabaseInit
<1>3. DatabaseTypeOK
  BY <1>1, <1>2 DEF DatabaseInit, DatabaseTypeOK
<1>4. LockedCallsAlone
  BY DEF DatabaseInit, LockedCallsAlone
<1>5. QED
  BY <1>3, <1>4, DatabaseAssumption DEF DatabaseInit, DatabaseInv

LEMMA CallDatabase ==
  ASSUME DatabaseInv, NEW t \in Thread, NEW locks \in BOOLEAN,
         NEW list \in Lists, Call(t, locks, list)
  PROVE  DatabaseInv'
BY DEF DatabaseInv, DatabaseTypeOK, LockedCallsAlone, Call, Lists, Rests

LEMMA EnterDatabase ==
  ASSUME DatabaseInv, NEW t \in Thread, Enter(t)
  PROVE  DatabaseInv'
BY DatabaseAssumption DEF DatabaseInv, DatabaseTypeOK, LockedCallsAlone, Enter

LEMMA BeginDatabase ==
  ASSUME DatabaseInv, NEW t \in Thread, BeginOperation(t)
  PROVE  DatabaseInv'
BY DEF DatabaseInv, DatabaseTypeOK, LockedCallsAlone, BeginOperation, callVars

LEMMA ResultType ==
  ASSUME DatabaseTypeOK, NEW op \in Operation
  PROVE  /\ \E present \in SUBSET Key : Result(op) \in [present -> Value]
         /\ Yield(op) \in Value \cup {"present", "absent"}
<1>1. PICK present \in SUBSET Key : store \in [present -> Value]
  BY DEF DatabaseTypeOK
<1>2. Yield(op) \in Value \cup {"present", "absent"}
  BY <1>1, DatabaseAssumption DEF Yield
<1>3. op.key \in Key /\ op.value \in Value
  BY DEF Operation
<1>4. Assigned(op.key, op.value) \in [present \cup {op.key} -> Value]
  BY <1>1, <1>3 DEF Assigned
<1>5. \A gone : [k \in DOMAIN store \ gone |-> store[k]] \in [present \ gone -> Value]
  BY <1>1
<1>6. \E left \in SUBSET Key : Result(op) \in [left -> Value]
  <2>1. CASE op.op = "put" \/ Inserts(op)
    BY <2>1, <1>3, <1>4 DEF Result
  <2>2. CASE ~(op.op = "put" \/ Inserts(op))
    <3> DEFINE gone == IF op.op = "delete" THEN {op.key} ELSE {}
    <3>1. Result(op) \in [present \ gone -> Value]
      BY <2>2, <1>5 DEF Result
    <3>2. QED
      BY <3>1
  <2>3. QED
    BY <2>1, <2>2
<1>7. QED
  BY <1>2, <1>6

LEMMA EndDatabase ==
  ASSUME DatabaseInv, NEW t \in Thread, EndOperation(t)
  PROVE  DatabaseInv'
<1>1. ops[t] \in Seq(Operation) /\ ops[t] # <<>> /\ phase[t] = "running"
  BY DEF DatabaseInv, DatabaseTypeOK, EndOperation, Performed
<1>2. Head(ops[t]) \in Operation /\ Tail(ops[t]) \in Seq(Operation)
  BY <1>1
<1>3. /\ \E present \in SUBSET Key : store' \in [present -> Value]
      /\ Yield(Head(ops[t])) \in Value \cup {"present", "absent"}
  BY <1>2, ResultType DEF DatabaseInv, EndOperation, Performed
<1>4. reads' \in [Thread -> Seq(Value \cup {"present", "absent"})]
  BY <1>3 DEF DatabaseInv, DatabaseTypeOK, EndOperation, Performed
<1>5. ops' \in [Thread -> Seq(Operation)]
  BY <1>2 DEF DatabaseInv, DatabaseTypeOK, EndOperation, Performed
<1>6. QED
  BY <1>1, <1>3, <1>4, <1>5
     DEF DatabaseInv, DatabaseTypeOK, LockedCallsAlone, EndOperation, Performed

LEMMA LeaveDatabase ==
  ASSUME DatabaseInv, NEW t \in Thread, Leave(t)
  PROVE  DatabaseInv'
<1>1. reads' \in [Thread -> Seq(Value \cup {"present", "absent"})]
  BY DEF DatabaseInv, DatabaseTypeOK, Leave, Returned
<1>2. /\ phase' \in [Thread -> {"outside", "called", "running"}]
      /\ phase[t] = "running" /\ ops[t] = <<>> /\ phase' = [phase EXCEPT ![t] = "outside"]
      /\ mutex' = IF locking[t] THEN Free ELSE mutex
      /\ UNCHANGED <<store, locking, ops, inside, undefined, calls>>
  BY DEF DatabaseInv, DatabaseTypeOK, Leave, Returned
<1>3. t \notin inside
  BY <1>2 DEF DatabaseInv
<1>4. locking[t] => mutex = t
  BY <1>2 DEF DatabaseInv, LockedCallsAlone
<1>5. mutex' \in Thread \cup {Free} /\ mutex' # t
  <2>1. CASE locking[t]
    BY <2>1, <1>2, DatabaseAssumption
  <2>2. CASE ~locking[t] /\ mutex # t
    BY <2>2, <1>2 DEF DatabaseInv, DatabaseTypeOK
  <2>3. CASE ~locking[t] /\ mutex = t
    BY <2>3 DEF DatabaseInv
  <2>4. QED
    BY <2>1, <2>2, <2>3
<1>6. DatabaseTypeOK'
  BY <1>1, <1>2, <1>5 DEF DatabaseInv, DatabaseTypeOK
<1>7. LockedCallsAlone'
  BY <1>2, <1>4 DEF DatabaseInv, DatabaseTypeOK, LockedCallsAlone
<1>8. QED
  BY <1>2, <1>3, <1>5, <1>6, <1>7, DatabaseAssumption DEF DatabaseInv, DatabaseTypeOK

LEMMA NextDatabase == DatabaseInv /\ [AnyNext]_databaseVars => DatabaseInv'
<1> SUFFICES ASSUME DatabaseInv, [AnyNext]_databaseVars PROVE DatabaseInv'
  OBVIOUS
<1>1. ASSUME NEW t \in Thread, CallSafely(t) \/ CallUnlocked(t) PROVE DatabaseInv'
  BY <1>1, SafeCallLists, UnlockedCallLists, CallDatabase
<1>2. ASSUME NEW t \in Thread, Proceed(t) PROVE DatabaseInv'
  BY <1>2, EnterDatabase, BeginDatabase, EndDatabase, LeaveDatabase DEF Proceed
<1>3. CASE UNCHANGED databaseVars
  BY <1>3 DEF databaseVars, callVars, DatabaseInv, DatabaseTypeOK, LockedCallsAlone
<1>4. QED
  BY <1>1, <1>2, <1>3 DEF AnyNext

\* Type correctness, and the other parts of the invariant, whatever mixture of
\* locked and unlocked operations the threads use (db.cpp).
THEOREM DatabaseInvariant == AnySpec => []DatabaseInv
BY InitDatabase, NextDatabase, PTL DEF AnySpec

\* The mutex keeps the calls that take it apart, also from behind the backs of
\* the unlocked ones.
THEOREM LockedAlone == AnySpec => []LockedCallsAlone
BY DatabaseInvariant, PTL DEF DatabaseInv

-----------------------------------------------------------------------------
(* Orderly threads. *)

\* Every call under way takes the lock, or is the only one.
OrderlyInv ==
  /\ DatabaseInv /\ NoRace
  /\ NoneUnlocked \/ \E t \in Thread : Alone(t)

LEMMA InitOrderly == DatabaseInit => OrderlyInv
BY InitDatabase DEF OrderlyInv, DatabaseInit, NoRace, NoneUnlocked

LEMMA NextOrderly == OrderlyInv /\ [OrderlyNext]_databaseVars => OrderlyInv'
<1> SUFFICES ASSUME OrderlyInv, [OrderlyNext]_databaseVars PROVE OrderlyInv'
  OBVIOUS
<1>1. DatabaseInv'
  <2>1. [AnyNext]_databaseVars
    BY DEF OrderlyNext, AnyNext
  <2>2. QED
    BY <2>1, NextDatabase DEF OrderlyInv
<1> DEFINE Apart == NoneUnlocked \/ \E t \in Thread : Alone(t)
<1>2. ASSUME NEW t \in Thread, NoneUnlocked, CallSafely(t) PROVE OrderlyInv'
  <2>1. PICK list \in Lists : Call(t, TRUE, list)
    BY <1>2, SafeCallLists
  <2>2. NoneUnlocked'
    BY <1>2, <2>1 DEF Call, NoneUnlocked, OrderlyInv, DatabaseInv, DatabaseTypeOK
  <2>3. QED
    BY <1>1, <2>1, <2>2 DEF Call, OrderlyInv, NoRace
<1>3. ASSUME NEW t \in Thread, Alone(t), CallUnlocked(t) PROVE OrderlyInv'
  <2>1. PICK list \in Lists : Call(t, FALSE, list)
    BY <1>3, UnlockedCallLists
  <2>2. Alone(t)'
    BY <1>3, <2>1 DEF Call, Alone, OrderlyInv, DatabaseInv, DatabaseTypeOK
  <2>3. QED
    BY <1>1, <2>1, <2>2 DEF Call, OrderlyInv, NoRace
\* No step of a call under way begins another one or gives up its lock.
<1>4. ASSUME UNCHANGED locking,
             \A u \in Thread : phase[u] = "outside" => phase'[u] = "outside"
      PROVE  Apart'
  <2>1. NoneUnlocked => NoneUnlocked'
    BY <1>4 DEF NoneUnlocked
  <2>2. \A u \in Thread : Alone(u) => Alone(u)'
    BY <1>4 DEF Alone
  <2>3. QED
    BY <2>1, <2>2 DEF OrderlyInv
<1>5. ASSUME NEW t \in Thread, Enter(t) PROVE OrderlyInv'
  <2>1. UNCHANGED <<locking, undefined>>
        /\ \A u \in Thread : phase[u] = "outside" => phase'[u] = "outside"
    BY <1>5 DEF Enter, OrderlyInv, DatabaseInv, DatabaseTypeOK
  <2>2. QED
    BY <1>1, <1>4, <2>1 DEF OrderlyInv, NoRace
<1>6. ASSUME NEW t \in Thread, BeginOperation(t) PROVE OrderlyInv'
  <2>1. inside = {}
    <3>1. t \notin inside /\ \A u \in inside : u \in Thread /\ phase[u] = "running"
      BY <1>6 DEF BeginOperation, OrderlyInv, DatabaseInv, DatabaseTypeOK
    <3>2. phase[t] = "running"
      BY <1>6 DEF BeginOperation
    <3>3. CASE NoneUnlocked
      <4>1. mutex = t /\ \A u \in inside : mutex = u
        BY <3>1, <3>2, <3>3 DEF NoneUnlocked, OrderlyInv, DatabaseInv, LockedCallsAlone
      <4>2. QED
        BY <3>1, <4>1
    <3>4. ASSUME NEW u \in Thread, Alone(u)
          PROVE  inside = {}
      BY <3>1, <3>2, <3>4 DEF Alone
    <3>5. QED
      BY <3>3, <3>4 DEF OrderlyInv
  <2>2. ~undefined' /\ UNCHANGED <<phase, locking>>
    BY <1>6, <2>1 DEF BeginOperation, callVars
  <2>3. QED
    BY <1>1, <1>4, <2>2 DEF OrderlyInv, NoRace
<1>7. ASSUME NEW t \in Thread, EndOperation(t) PROVE OrderlyInv'
  BY <1>1, <1>4, <1>7 DEF EndOperation, Performed, OrderlyInv, NoRace
<1>8. ASSUME NEW t \in Thread, Leave(t) PROVE OrderlyInv'
  <2>1. UNCHANGED <<locking, undefined>>
        /\ \A u \in Thread : phase[u] = "outside" => phase'[u] = "outside"
    BY <1>8 DEF Leave, Returned, OrderlyInv, DatabaseInv, DatabaseTypeOK
  <2>2. QED
    BY <1>1, <1>4, <2>1 DEF OrderlyInv, NoRace
<1>9. CASE UNCHANGED databaseVars
  BY <1>1, <1>9 DEF databaseVars, callVars, OrderlyInv, NoRace, NoneUnlocked, Alone
<1>10. QED
  BY <1>2, <1>3, <1>5, <1>6, <1>7, <1>8, <1>9 DEF OrderlyNext, Proceed

\* No operation on the map overlaps another, for any number of threads: there is no
\* undefined behaviour in a program that keeps to the _safely operations, or uses
\* the others only while no other call is under way.
THEOREM OrderlyCallsNeverRace == OrderlySpec => []NoRace
BY InitOrderly, NextOrderly, PTL DEF OrderlySpec, OrderlyInv

\* Every variable keeps its type, and a thread outside has no operations left.
THEOREM DatabaseTypes == AnySpec => []DatabaseTypeOK
<1>1. DatabaseInv => DatabaseTypeOK
  BY DEF DatabaseInv
<1> QED BY <1>1, DatabaseInvariant, PTL

-----------------------------------------------------------------------------
(* The promise: every call takes effect when it enters. *)

\* What a call under way is made of, and where its answers are.
CallsInv ==
  /\ OrderlyInv
  /\ \A t \in Thread :
       /\ phase[t] = "outside" => reads[t] = <<>>
       /\ phase[t] = "called" => ops[t] \in Lists /\ reads[t] = <<>>
       /\ phase[t] = "running" =>
            ops[t] \in Rests /\ (ops[t] # <<>> \/ reads[t] # <<>>)

LEMMA RestOfRest ==
  ASSUME NEW l \in Rests, l # <<>>
  PROVE  /\ Head(l) \in Proper /\ Head(l) = l[1] /\ Tail(l) \in Rests
         /\ Len(l) \in Nat \ {0} /\ Len(Tail(l)) = Len(l) - 1
         /\ \A i \in 1 .. Len(l) - 1 : Tail(l)[i] = l[i + 1]
<1>1. l \in Seq(Operation) /\ Len(l) \in Nat \ {0} /\ DOMAIN l = 1 .. Len(l)
  BY DEF Rests
<1>2. /\ Tail(l) \in Seq(Operation) /\ Len(Tail(l)) = Len(l) - 1
      /\ DOMAIN Tail(l) = 1 .. Len(l) - 1
      /\ \A i \in 1 .. Len(l) - 1 : Tail(l)[i] = l[i + 1]
      /\ Head(l) = l[1] /\ l[1] \in Operation /\ 1 \in DOMAIN l
  BY <1>1
<1>3. \A i \in 1 .. Len(l) - 1 : i + 1 \in DOMAIN l
  BY <1>1
<1>4. Head(l) \in Proper
  BY <1>2 DEF Rests, Proper
<1>5. Tail(l) \in Rests
  <2>1. \A i \in DOMAIN Tail(l) : Tail(l)[i].op # "put" => Tail(l)[i].value = Empty
    BY <1>2, <1>3 DEF Rests
  <2>2. CASE \A i \in DOMAIN l : l[i].op \in {"put", "delete"}
    <3>1. \A i \in DOMAIN Tail(l) : Tail(l)[i].op \in {"put", "delete"}
      BY <1>2, <1>3, <2>2
    <3> QED BY <1>2, <2>1, <3>1 DEF Rests
  <2>3. CASE \A i \in DOMAIN l : l[i].op = "read"
    <3>1. \A i \in DOMAIN Tail(l) : Tail(l)[i].op = "read"
      BY <1>2, <1>3, <2>3
    <3> QED BY <1>2, <2>1, <3>1 DEF Rests
  <2>4. CASE Len(l) <= 1
    <3>1. Len(Tail(l)) <= 1
      BY <1>1, <1>2, <2>4
    <3> QED BY <1>2, <2>1, <3>1 DEF Rests
  <2> QED BY <2>2, <2>3, <2>4 DEF Rests
<1> QED BY <1>1, <1>2, <1>4, <1>5

LEMMA CallsStart == DatabaseInit => CallsInv
BY InitOrderly DEF CallsInv, DatabaseInit

LEMMA CallsStep ==
  ASSUME CallsInv, [OrderlyNext]_databaseVars
  PROVE  CallsInv'
<1>1. OrderlyInv' /\ DatabaseTypeOK
  BY NextOrderly DEF CallsInv, OrderlyInv, DatabaseInv
<1> DEFINE Made(t) == /\ phase'[t] = "outside" => reads'[t] = <<>>
                      /\ phase'[t] = "called" => ops'[t] \in Lists /\ reads'[t] = <<>>
                      /\ phase'[t] = "running" =>
                           ops'[t] \in Rests /\ (ops'[t] # <<>> \/ reads'[t] # <<>>)
<1> SUFFICES ASSUME NEW u \in Thread PROVE Made(u)
  BY <1>1 DEF CallsInv
<1>2. ASSUME phase'[u] = phase[u], ops'[u] = ops[u], reads'[u] = reads[u]
      PROVE  Made(u)
  BY <1>2 DEF CallsInv
<1>3. ASSUME NEW t \in Thread, CallSafely(t) \/ CallUnlocked(t)
      PROVE  Made(u)
  <2>1. PICK locks \in BOOLEAN, list \in Lists : Call(t, locks, list)
    BY <1>3, SafeCallLists, UnlockedCallLists
  <2>2. CASE u = t
    BY <1>1, <2>1, <2>2 DEF Call, DatabaseTypeOK, CallsInv
  <2>3. CASE u # t
    BY <1>1, <1>2, <2>1, <2>3 DEF Call, DatabaseTypeOK
  <2> QED BY <2>2, <2>3
<1>4. ASSUME NEW t \in Thread, Enter(t)
      PROVE  Made(u)
  <2>1. CASE u = t
    BY <1>1, <1>4, <2>1 DEF Enter, DatabaseTypeOK, CallsInv, Lists
  <2>2. CASE u # t
    BY <1>1, <1>2, <1>4, <2>2 DEF Enter, DatabaseTypeOK
  <2> QED BY <2>1, <2>2
<1>5. ASSUME NEW t \in Thread, EndOperation(t)
      PROVE  Made(u)
  <2>1. /\ phase[t] = "running" /\ ops[t] # <<>> /\ ops[t] \in Rests /\ UNCHANGED phase
        /\ reads' = [reads EXCEPT ![t] = Append(@, Yield(Head(ops[t])))]
        /\ ops' = [ops EXCEPT ![t] = Tail(@)]
    BY <1>5 DEF EndOperation, Performed, CallsInv, OrderlyInv, DatabaseInv
  <2>2. CASE u = t
    <3> DEFINE y == Yield(Head(ops[t]))
               S == Value \cup {"present", "absent"}
    <3>1. Tail(ops[t]) \in Rests
      BY <2>1, RestOfRest
    <3>2. reads[t] \in Seq(S) /\ y \in S
      BY <1>1, <2>1, RestOfRest, ResultType DEF DatabaseTypeOK, Proper
    <3> HIDE DEF y, S
    <3>3. Append(reads[t], y) # <<>>
      BY <3>2, AppendProperties
    <3>4. reads'[t] = Append(reads[t], y) /\ ops'[t] = Tail(ops[t])
      BY <1>1, <2>1 DEF DatabaseTypeOK, y
    <3> QED BY <2>1, <2>2, <3>1, <3>3, <3>4
  <2>3. CASE u # t
    BY <1>1, <1>2, <2>1, <2>3 DEF DatabaseTypeOK
  <2> QED BY <2>2, <2>3
<1>6. ASSUME NEW t \in Thread, Leave(t)
      PROVE  Made(u)
  <2>1. CASE u = t
    BY <1>1, <1>6, <2>1 DEF Leave, Returned, DatabaseTypeOK
  <2>2. CASE u # t
    BY <1>1, <1>2, <1>6, <2>2 DEF Leave, Returned, DatabaseTypeOK
  <2> QED BY <2>1, <2>2
<1>7. ASSUME NEW t \in Thread, BeginOperation(t)
      PROVE  Made(u)
  BY <1>2, <1>7 DEF BeginOperation, callVars
<1>8. CASE UNCHANGED databaseVars
  BY <1>2, <1>8 DEF databaseVars, callVars
<1> QED BY <1>3, <1>4, <1>5, <1>6, <1>7, <1>8 DEF OrderlyNext, Proceed

\* Inside a call, a thread is alone with the map.
LEMMA OneRunning ==
  ASSUME OrderlyInv, NEW t \in Thread, NEW u \in Running,
         phase[t] = "running" \/ (phase[t] = "called" /\ (locking[t] => mutex = Free))
  PROVE  u = t
<1>1. u \in Thread /\ phase[u] = "running" /\ phase[t] # "outside" /\ phase[u] # "outside"
  BY DEF Running
<1>2. CASE NoneUnlocked
  <2>1. locking[u] /\ locking[t] /\ mutex = u
    BY <1>1, <1>2 DEF NoneUnlocked, OrderlyInv, DatabaseInv, LockedCallsAlone
  <2>2. mutex = t
    BY <1>1, <2>1, DatabaseAssumption DEF OrderlyInv, DatabaseInv, LockedCallsAlone
  <2> QED BY <2>1, <2>2
<1>3. ASSUME NEW a \in Thread, Alone(a)
      PROVE  u = t
  BY <1>1, <1>3 DEF Alone
<1> QED BY <1>2, <1>3 DEF OrderlyInv

LEMMA MapWhileRunning ==
  ASSUME NEW t \in Running, \A u \in Running : u = t
  PROVE  MapToBe = Unwritten!After(TotalStore, ops[t])
<1>1. (CHOOSE u \in Running : TRUE) = t /\ Running # {}
  OBVIOUS
<1> QED BY <1>1 DEF MapToBe

\* A set of numbers with a bound has a largest element.
LEMMA GreatestNumber ==
  ASSUME NEW n \in Nat, NEW S \in SUBSET (1 .. n), S # {}
  PROVE  \E m \in S : \A k \in S : k <= m
<1> DEFINE T == {n - k : k \in S}
<1>1. T \in SUBSET Nat /\ T # {}
  OBVIOUS
<1> HIDE DEF T
<1>2. PICK d \in T : \A e \in T : ~(<<e, d>> \in OpToRel(<, Nat))
  BY <1>1, NatLessThanWellFounded, WFMin, Zenon
<1>3. \A e \in T : ~(e < d) /\ e \in Nat /\ d \in Nat
  BY <1>1, <1>2 DEF OpToRel
<1>4. PICK m \in S : d = n - m
  BY DEF T
<1>5. ASSUME NEW k \in S
      PROVE  k <= m
  <2>1. n - k \in T
    BY DEF T
  <2>2. ~(n - k < n - m)
    BY <1>3, <1>4, <2>1
  <2> QED BY <2>2
<1> QED BY <1>5

\* What a list writes last to a key, and that nothing else is written last to it.
LEMMA LastWrite ==
  ASSUME NEW l \in Seq(Operation), NEW k \in Key, NEW m,
         NEW last \in DOMAIN l, Unwritten!Writes(l[last], k),
         \A j \in DOMAIN l : Unwritten!Writes(l[j], k) => j <= last
  PROVE  Unwritten!After(m, l)[k] = l[last].value
<1> DEFINE L(i) == /\ Unwritten!Writes(l[i], k)
                   /\ \A j \in DOMAIN l : Unwritten!Writes(l[j], k) => j <= i
<1>1. DOMAIN l \subseteq Nat /\ L(last)
  OBVIOUS
<1>2. \A i \in DOMAIN l : L(i) => i <= last /\ last <= i
  OBVIOUS
<1>3. \A i \in DOMAIN l : L(i) => i = last
  BY <1>1, <1>2
<1> HIDE DEF L
<1>4. (CHOOSE i \in DOMAIN l : L(i)) = last
  BY <1>1, <1>3
<1> QED BY <1>4 DEF Unwritten!After, L

LEMMA NoWrite ==
  ASSUME NEW l, NEW k \in Key, NEW m, \A i \in DOMAIN l : ~Unwritten!Writes(l[i], k)
  PROVE  Unwritten!After(m, l)[k] = m[k]
BY DEF Unwritten!After

\* A list takes effect as its first operation does, and then the rest of it.
LEMMA AfterHead ==
  ASSUME NEW l \in Rests, l # <<>>, NEW m, NEW n,
         \A k \in Key : n[k] = IF Unwritten!Writes(Head(l), k) THEN Head(l).value ELSE m[k]
  PROVE  Unwritten!After(m, l) = Unwritten!After(n, Tail(l))
<1> DEFINE r == Tail(l)
<1>1. /\ l \in Seq(Operation) /\ r \in Seq(Operation) /\ Head(l) = l[1]
      /\ Len(l) \in Nat \ {0} /\ DOMAIN l = 1 .. Len(l) /\ DOMAIN r = 1 .. Len(l) - 1
      /\ \A i \in 1 .. Len(l) - 1 : r[i] = l[i + 1]
  <2>1. r \in Seq(Operation) /\ l \in Seq(Operation) /\ Len(r) = Len(l) - 1
    BY RestOfRest DEF Rests
  <2> HIDE DEF r
  <2>2. DOMAIN r = 1 .. Len(l) - 1 /\ DOMAIN l = 1 .. Len(l)
    BY <2>1
  <2> QED BY <2>1, <2>2, RestOfRest DEF r
<1> HIDE DEF r
<1>2. ASSUME NEW k \in Key
      PROVE  Unwritten!After(m, l)[k] = Unwritten!After(n, r)[k]
  <2> DEFINE W(i) == Unwritten!Writes(l[i], k)
             S == {i \in 1 .. Len(l) - 1 : W(i + 1)}
  <2>1. CASE S # {}
    <3>1. PICK last \in S : \A i \in S : i <= last
      <4>1. Len(l) - 1 \in Nat /\ S \in SUBSET (1 .. Len(l) - 1)
        BY <1>1
      <4> HIDE DEF S
      <4> QED BY <2>1, <4>1, GreatestNumber
    <3>2. last \in DOMAIN r /\ Unwritten!Writes(r[last], k)
      BY <1>1
    <3>3. ASSUME NEW j \in DOMAIN r, Unwritten!Writes(r[j], k)
          PROVE  j <= last
      BY <1>1, <3>1, <3>3
    <3>4. Unwritten!After(n, r)[k] = r[last].value
      <4>1. r \in Seq(Operation)
        BY <1>1
      <4> QED BY <3>2, <3>3, <4>1, LastWrite
    <3>5. last \in Nat /\ last + 1 \in DOMAIN l /\ W(last + 1) /\ r[last] = l[last + 1]
      BY <1>1
    <3>6. ASSUME NEW j \in DOMAIN l, W(j)
          PROVE  j <= last + 1
      <4>1. CASE j = 1
        BY <3>5, <4>1
      <4>2. CASE j # 1
        <5>1. j \in Nat /\ j - 1 \in 1 .. Len(l) - 1 /\ (j - 1) + 1 = j
          BY <1>1, <4>2
        <5>2. j - 1 \in S
          BY <3>6, <5>1
        <5>3. j - 1 <= last
          BY <3>1, <5>2
        <5> QED BY <3>5, <5>1, <5>3
      <4> QED BY <4>1, <4>2
    <3>7. Unwritten!After(m, l)[k] = l[last + 1].value
      <4>1. l \in Seq(Operation)
        BY <1>1
      <4> QED BY <3>5, <3>6, <4>1, LastWrite
    <3> QED BY <3>4, <3>5, <3>7
  <2>2. CASE S = {}
    <3>1. \A i \in 1 .. Len(l) - 1 : ~W(i + 1)
      BY <2>2
    <3>2. Unwritten!After(n, r)[k] = n[k]
      BY <1>1, <3>1, NoWrite
    <3>3. ASSUME NEW j \in DOMAIN l, W(j)
          PROVE  j = 1
      <4> SUFFICES ASSUME j # 1 PROVE FALSE
        OBVIOUS
      <4>1. j - 1 \in 1 .. Len(l) - 1 /\ (j - 1) + 1 = j
        BY <1>1
      <4> QED BY <3>1, <3>3, <4>1
    <3>4. CASE W(1)
      <4>1. 1 \in DOMAIN l /\ \A j \in DOMAIN l : W(j) => j <= 1
        BY <1>1, <3>3
      <4>2. Unwritten!After(m, l)[k] = l[1].value
        BY <1>1, <3>4, <4>1, LastWrite
      <4> QED BY <1>1, <3>2, <3>4, <4>2
    <3>5. CASE ~W(1)
      <4>1. \A j \in DOMAIN l : ~W(j)
        BY <3>3, <3>5
      <4>2. Unwritten!After(m, l)[k] = m[k]
        BY <4>1, NoWrite
      <4> QED BY <1>1, <3>2, <3>5, <4>2
    <3> QED BY <3>4, <3>5
  <2> QED BY <2>1, <2>2
<1> QED BY <1>2 DEF Unwritten!After, r

\* Apart from what a put or a deletion says of its own key, no operation changes a value:
\* the keys that lookups insert read as before.
LEMMA TotalAfter ==
  ASSUME DatabaseTypeOK, NEW op \in Proper, store' = Result(op), NEW k \in Key
  PROVE  TotalStore'[k] = IF Unwritten!Writes(op, k) THEN op.value ELSE TotalStore[k]
<1>1. PICK present \in SUBSET Key : store \in [present -> Value]
  BY DEF DatabaseTypeOK
<1>2. op.op \in {"read", "find", "put", "delete"} /\ op.key \in Key
      /\ (op.op # "put" => op.value = Empty)
  BY DEF Proper, Operation
<1>3. /\ TotalStore[k] = IF k \in DOMAIN store THEN store[k] ELSE Empty
      /\ TotalStore'[k] = IF k \in DOMAIN store' THEN store'[k] ELSE Empty
  BY DEF TotalStore
<1>4. CASE op.op = "put" \/ Inserts(op)
  <2>1. store' = [j \in DOMAIN store \cup {op.key} |-> IF j = op.key THEN op.value ELSE store[j]]
    BY <1>4 DEF Result, Assigned
  <2> QED BY <1>2, <1>3, <1>4, <2>1 DEF Inserts, Unwritten!Writes
<1>5. CASE op.op = "delete"
  <2>1. store' = [j \in DOMAIN store \ {op.key} |-> store[j]]
    BY <1>5 DEF Result, Inserts
  <2> QED BY <1>2, <1>3, <1>5, <2>1 DEF Unwritten!Writes
<1>6. CASE op.op \in {"read", "find"} /\ ~Inserts(op)
  <2>1. store' = [j \in DOMAIN store \ {} |-> store[j]]
    BY <1>6 DEF Result
  <2> QED BY <1>3, <1>6, <2>1 DEF Unwritten!Writes
<1> QED BY <1>2, <1>4, <1>5, <1>6

\* What an operation yields, in terms of the values.
LEMMA Yielded ==
  ASSUME NEW op \in Operation
  PROVE  /\ op.op = "read" => Yield(op) = TotalStore[op.key]
         /\ op.op \in {"put", "delete"} => Yield(op) = Empty
         /\ op.op = "find" => Yield(op) \in {"present", "absent"}
         /\ op.op = "find" /\ TotalStore[op.key] # Empty => Yield(op) = "present"
BY DEF Yield, TotalStore, Operation

\* The same of the store that a step leaves behind.
YieldNext(op) ==
  IF op.op = "find" THEN IF op.key \in DOMAIN store' THEN "present" ELSE "absent"
  ELSE IF op.op = "read" /\ op.key \in DOMAIN store' THEN store'[op.key]
  ELSE Empty

LEMMA YieldedNext ==
  ASSUME NEW op \in Operation
  PROVE  /\ op.op = "read" => YieldNext(op) = TotalStore'[op.key]
         /\ op.op \in {"put", "delete"} => YieldNext(op) = Empty
BY DEF YieldNext, TotalStore, Operation

LEMMA Shifted ==
  ASSUME NEW S, NEW s \in Seq(S), NEW y \in Seq(S), NEW z \in Seq(S),
         y # <<>>, Len(z) = Len(y) - 1, \A i \in 1 .. Len(z) : z[i] = y[i + 1]
  PROVE  Append(s, y[1]) \o z = s \o y
<1> DEFINE a == Append(s, y[1])
           n == Len(s)
<1>1. /\ n \in Nat /\ Len(y) \in Nat \ {0} /\ Len(z) \in Nat /\ y[1] \in S
  OBVIOUS
<1>2. /\ a \in Seq(S) /\ Len(a) = n + 1 /\ a[n + 1] = y[1]
      /\ \A i \in 1 .. n : a[i] = s[i]
  BY <1>1, AppendProperties
<1> HIDE DEF a
<1>3. /\ s \o y \in Seq(S) /\ Len(s \o y) = n + Len(y)
      /\ \A i \in 1 .. n + Len(y) : (s \o y)[i] = IF i <= n THEN s[i] ELSE y[i - n]
  BY ConcatProperties
<1>4. /\ a \o z \in Seq(S) /\ Len(a \o z) = n + 1 + Len(z)
      /\ \A i \in 1 .. n + 1 + Len(z) : (a \o z)[i] = IF i <= n + 1 THEN a[i] ELSE z[i - (n + 1)]
  <2>1. /\ a \o z \in Seq(S) /\ Len(a \o z) = Len(a) + Len(z)
        /\ \A i \in 1 .. Len(a) + Len(z) : (a \o z)[i] = IF i <= Len(a) THEN a[i] ELSE z[i - Len(a)]
    BY <1>2, ConcatProperties
  <2> HIDE DEF n
  <2> QED BY <1>2, <2>1
<1> HIDE DEF n
<1>5. n + 1 + Len(z) = n + Len(y)
  BY <1>1
<1>6. ASSUME NEW i \in 1 .. n + Len(y)
      PROVE  (a \o z)[i] = (s \o y)[i]
  <2>1. CASE i <= n
    BY <1>1, <1>2, <1>3, <1>4, <1>5, <2>1
  <2>2. CASE i = n + 1
    <3>1. i - n = 1 /\ ~(i <= n) /\ i <= n + 1
      BY <1>1, <2>2
    <3> QED BY <1>2, <1>3, <1>4, <1>5, <2>2, <3>1
  <2>3. CASE i > n + 1
    <3>1. /\ i - (n + 1) \in 1 .. Len(z) /\ (i - (n + 1)) + 1 = i - n
          /\ ~(i <= n) /\ ~(i <= n + 1)
      BY <1>1, <2>3
    <3>2. z[i - (n + 1)] = y[i - n]
      BY <3>1
    <3> QED BY <1>3, <1>4, <1>5, <3>1, <3>2
  <2>4. i <= n \/ i = n + 1 \/ i > n + 1
    BY <1>1
  <2> QED BY <2>1, <2>2, <2>3, <2>4
<1>7. a \o z = s \o y
  <2> DEFINE u == a \o z
             v == s \o y
  <2>1. u \in Seq(S) /\ v \in Seq(S) /\ Len(u) = Len(v) /\ \A i \in 1 .. Len(v) : u[i] = v[i]
    BY <1>3, <1>4, <1>5, <1>6
  <2> HIDE DEF u, v
  <2>2. u = v
    BY <2>1, SeqEqual
  <2> QED BY <2>2 DEF u, v
<1> QED BY <1>7 DEF a

\* Performing an operation is not seen outside: the answers that remain are the same.
LEMMA AnswersStay ==
  ASSUME DatabaseTypeOK, NEW t \in Thread, ops[t] \in Rests, ops[t] # <<>>, EndOperation(t)
  PROVE  AnswersToBe(t)' = AnswersToBe(t)
<1> DEFINE l == ops[t]
           r == Tail(l)
           S == Value \cup {"present", "absent"}
           y == [i \in DOMAIN l |-> Yield(l[i])]
           z == [i \in DOMAIN r |-> YieldNext(r[i])]
<1>1. /\ l \in Seq(Operation) /\ r \in Seq(Operation) /\ Head(l) = l[1] /\ l[1] \in Proper
      /\ Len(l) \in Nat \ {0} /\ Len(r) = Len(l) - 1 /\ \A i \in 1 .. Len(r) : r[i] = l[i + 1]
  BY RestOfRest DEF Rests
<1>2. reads[t] \in Seq(S)
  BY DEF DatabaseTypeOK
<1>3. /\ store' = Result(l[1])
      /\ reads'[t] = Append(reads[t], Yield(l[1])) /\ ops'[t] = r
  BY <1>1 DEF EndOperation, Performed, DatabaseTypeOK
<1>4. AnswersToBe(t) = reads[t] \o y /\ AnswersToBe(t)' = Append(reads[t], Yield(l[1])) \o z
  BY <1>3 DEF AnswersToBe, Yield, YieldNext
<1> HIDE DEF l, r
<1>5. /\ DOMAIN l = 1 .. Len(l) /\ DOMAIN r = 1 .. Len(r)
      /\ \A i \in 1 .. Len(l) : l[i] \in Operation
      /\ \A i \in 1 .. Len(r) : i + 1 \in 1 .. Len(l) /\ r[i] \in Operation
  BY <1>1
<1>6. \A i \in 1 .. Len(l) : Yield(l[i]) \in S
  BY <1>5, ResultType
<1>7. ASSUME NEW i \in 1 .. Len(r)
      PROVE  YieldNext(r[i]) = Yield(l[i + 1])
  <2>1. i + 1 \in DOMAIN l /\ 1 \in DOMAIN l /\ r[i] = l[i + 1] /\ ~(Len(l) <= 1) /\ r[i] \in Operation
    BY <1>1, <1>5
  <2>2. \/ \A j \in DOMAIN l : l[j].op \in {"put", "delete"}
        \/ \A j \in DOMAIN l : l[j].op = "read"
    BY <2>1 DEF Rests, l
  <2>3. CASE \A j \in DOMAIN l : l[j].op \in {"put", "delete"}
    BY <2>1, <2>3, Yielded, YieldedNext
  <2>4. CASE \A j \in DOMAIN l : l[j].op = "read"
    <3>1. r[i].key \in Key /\ r[i].op = "read"
      BY <2>1, <2>4 DEF Operation
    <3>2. ~Unwritten!Writes(l[1], r[i].key)
      BY <2>1, <2>4 DEF Unwritten!Writes
    <3>3. TotalStore'[r[i].key] = TotalStore[r[i].key]
      BY <1>1, <1>3, <3>1, <3>2, TotalAfter
    <3>4. Yield(r[i]) = TotalStore[r[i].key] /\ YieldNext(r[i]) = TotalStore'[r[i].key]
      BY <2>1, <3>1, Yielded, YieldedNext
    <3> QED BY <2>1, <3>3, <3>4
  <2> QED BY <2>2, <2>3, <2>4
<1> HIDE DEF S
<1>8. /\ y \in Seq(S) /\ Len(y) = Len(l) /\ y[1] = Yield(l[1]) /\ y # <<>>
      /\ \A i \in 1 .. Len(l) : y[i] = Yield(l[i])
  <2>1. y \in [1 .. Len(l) -> S] /\ \A i \in 1 .. Len(l) : y[i] = Yield(l[i])
    BY <1>5, <1>6
  <2> HIDE DEF y
  <2>2. y \in Seq(S) /\ Len(y) = Len(l)
    BY <1>1, <2>1
  <2>3. 1 \in 1 .. Len(l) /\ y # <<>>
    BY <1>1, <2>2
  <2> QED BY <2>1, <2>2, <2>3
<1>9. /\ z \in Seq(S) /\ Len(z) = Len(r)
      /\ \A i \in 1 .. Len(r) : z[i] = Yield(l[i + 1])
  <2>1. z \in [1 .. Len(r) -> S] /\ \A i \in 1 .. Len(r) : z[i] = Yield(l[i + 1])
    BY <1>5, <1>6, <1>7
  <2> HIDE DEF z
  <2>2. z \in Seq(S) /\ Len(z) = Len(r)
    BY <1>1, <2>1
  <2> QED BY <2>1, <2>2
<1> HIDE DEF y, z
<1>10. \A i \in 1 .. Len(z) : z[i] = y[i + 1]
  BY <1>5, <1>8, <1>9
<1>11. Append(reads[t], y[1]) \o z = reads[t] \o y
  <2>1. /\ reads[t] \in Seq(S) /\ y \in Seq(S) /\ z \in Seq(S) /\ y # <<>>
        /\ Len(z) = Len(y) - 1
    BY <1>1, <1>2, <1>8, <1>9
  <2> QED BY <1>10, <2>1, Shifted
<1> QED BY <1>4, <1>8, <1>11

LEMMA SameAfter == \A m, l : Promise!After(m, l) = Unwritten!After(m, l)
BY DEF Promise!After, Unwritten!After, Promise!Writes, Unwritten!Writes

LEMMA NothingRunning == ASSUME Running = {} PROVE MapToBe = TotalStore
BY DEF MapToBe

LEMMA AfterNothing == ASSUME NEW m, m = [k \in Key |-> m[k]] PROVE Unwritten!After(m, <<>>) = m
BY DEF Unwritten!After

LEMMA InitRefines == ASSUME DatabaseInit PROVE Promise!AtomicInit
<1>1. Running = {} /\ TotalStore = [k \in Key |-> Empty]
  BY DEF DatabaseInit, Running, TotalStore
<1>2. MapToBe = [k \in Key |-> Empty]
  BY <1>1, NothingRunning
<1>3. Pending = [t \in Thread |-> <<>>] /\ Answers = [t \in Thread |-> <<>>]
  BY <1>1 DEF DatabaseInit, Pending, Answers
<1> QED BY <1>2, <1>3 DEF Promise!AtomicInit

LEMMA CallRefines ==
  ASSUME CallsInv, NEW t \in Thread, NEW locks, NEW list \in Lists, Call(t, locks, list)
  PROVE  Promise!Invoke(t)
<1>1. /\ DatabaseTypeOK /\ phase[t] = "outside" /\ phase' = [phase EXCEPT ![t] = "called"]
      /\ ops' = [ops EXCEPT ![t] = list] /\ UNCHANGED <<store, reads>>
  BY DEF Call, CallsInv, OrderlyInv, DatabaseInv
<1>2. /\ phase'[t] = "called" /\ ops'[t] = list
      /\ \A u \in Thread : u # t => phase'[u] = phase[u] /\ ops'[u] = ops[u]
  BY <1>1 DEF DatabaseTypeOK
<1>3. Running' = Running /\ t \notin Running /\ Running \subseteq Thread
  BY <1>1, <1>2 DEF Running
<1>4. TotalStore' = TotalStore
  BY <1>1 DEF TotalStore
<1>5. MapToBe' = MapToBe
  <2>1. CASE Running = {}
    BY <1>3, <1>4, <2>1 DEF MapToBe
  <2>2. CASE Running # {}
    <3> DEFINE u == CHOOSE u \in Running : TRUE
    <3>1. u \in Running /\ u \in Thread /\ u # t
      BY <1>3, <2>2
    <3>2. MapToBe = Unwritten!After(TotalStore, ops[u])
      BY <2>2 DEF MapToBe
    <3>3. MapToBe' = Unwritten!After(TotalStore', ops'[u])
      BY <1>3, <2>2 DEF MapToBe
    <3> QED BY <1>2, <1>4, <3>1, <3>2, <3>3
  <2> QED BY <2>1, <2>2
<1>6. Answers' = Answers
  <2>1. ASSUME NEW u \in Running
        PROVE  AnswersToBe(u)' = AnswersToBe(u)
    <3>1. ops'[u] = ops[u] /\ reads'[u] = reads[u] /\ store' = store
      BY <1>1, <1>2, <1>3
    <3> QED BY <3>1 DEF AnswersToBe, Yield
  <2> QED BY <1>3, <2>1 DEF Answers
<1>7. /\ Pending[t] = <<>> /\ Answers[t] = <<>>
      /\ Pending'[t] = list /\ list \in Seq(Operation) /\ list # <<>>
      /\ Pending' = [Pending EXCEPT ![t] = list]
  BY <1>1, <1>2, <1>3 DEF Pending, Answers, Lists, Rests
<1> QED BY <1>5, <1>6, <1>7 DEF Promise!Invoke

LEMMA EnterRefines ==
  ASSUME CallsInv, NEW t \in Thread, Enter(t)
  PROVE  Promise!TakeEffect(t)
<1>1. /\ DatabaseTypeOK /\ OrderlyInv /\ phase[t] = "called"
      /\ phase' = [phase EXCEPT ![t] = "running"] /\ UNCHANGED <<store, ops, reads>>
      /\ locking[t] => mutex = Free
  BY DEF Enter, CallsInv, OrderlyInv, DatabaseInv
<1>2. /\ ops[t] \in Lists /\ ops[t] \in Seq(Operation) /\ ops[t] # <<>> /\ reads[t] = <<>>
  BY <1>1 DEF CallsInv, Lists, Rests
<1>3. phase'[t] = "running" /\ \A u \in Thread : u # t => phase'[u] = phase[u]
  BY <1>1 DEF DatabaseTypeOK
<1>4. Running = {}
  <2>1. t \notin Running
    BY <1>1 DEF Running
  <2> QED BY <1>1, <2>1, OneRunning
<1>5. Running' = {t}
  BY <1>3, <1>4 DEF Running
<1>6. MapToBe = TotalStore /\ TotalStore' = TotalStore
  BY <1>1, <1>4, NothingRunning DEF TotalStore
<1>7. MapToBe' = Unwritten!After(TotalStore, ops[t])
  <2>1. (CHOOSE u \in Running' : TRUE) = t /\ Running' # {}
    BY <1>5
  <2>2. MapToBe' = Unwritten!After(TotalStore', ops'[t])
    BY <2>1 DEF MapToBe
  <2> QED BY <1>1, <1>6, <2>2
<1>8. AnswersToBe(t)' = [i \in DOMAIN ops[t] |-> Yield(ops[t][i])]
  <2> DEFINE S == Value \cup {"present", "absent"}
             y == [i \in DOMAIN ops[t] |-> Yield(ops[t][i])]
  <2>1. AnswersToBe(t)' = <<>> \o y
    BY <1>1, <1>2 DEF AnswersToBe, Yield
  <2>2. \A i \in 1 .. Len(ops[t]) : Yield(ops[t][i]) \in S
    BY <1>1, <1>2, ResultType
  <2>3. DOMAIN ops[t] = 1 .. Len(ops[t]) /\ Len(ops[t]) \in Nat
    BY <1>2
  <2> HIDE DEF S
  <2>4. y \in [1 .. Len(ops[t]) -> S]
    BY <2>2, <2>3
  <2> HIDE DEF y
  <2>5. y \in Seq(S)
    BY <2>3, <2>4
  <2>6. <<>> \o y = y
    BY <2>5, ConcatEmptySeq
  <2> QED BY <2>1, <2>6 DEF y
<1>9. /\ Pending[t] = ops[t] /\ Pending' = [Pending EXCEPT ![t] = <<>>]
  BY <1>1, <1>3 DEF Pending
<1>10. /\ Answers'[t] = [i \in DOMAIN ops[t] |-> Yield(ops[t][i])]
       /\ Answers' = [Answers EXCEPT ![t] = Answers'[t]]
  BY <1>4, <1>5, <1>8 DEF Answers
<1>11. ASSUME NEW i \in DOMAIN ops[t]
       PROVE  Promise!Correct(TotalStore, ops[t][i], Yield(ops[t][i]))
  <2>1. ops[t][i] \in Operation
    BY <1>2
  <2>2. ops[t][i].op \in {"read", "find", "put", "delete"}
    BY <2>1 DEF Operation
  <2> QED BY <2>1, <2>2, Yielded DEF Promise!Correct
<1>12. MapToBe' = Promise!After(MapToBe, Pending[t])
  BY <1>6, <1>7, <1>9, SameAfter
<1>13. /\ DOMAIN Answers'[t] = DOMAIN Pending[t]
       /\ \A i \in DOMAIN Pending[t] : Promise!Correct(MapToBe, Pending[t][i], Answers'[t][i])
  BY <1>6, <1>9, <1>10, <1>11
<1> QED BY <1>2, <1>9, <1>10, <1>12, <1>13 DEF Promise!TakeEffect

LEMMA EndRefines ==
  ASSUME CallsInv, NEW t \in Thread, EndOperation(t)
  PROVE  UNCHANGED <<MapToBe, Pending, Answers>>
<1>1. /\ DatabaseTypeOK /\ OrderlyInv /\ t \in inside /\ phase[t] = "running"
      /\ ops[t] \in Rests /\ ops[t] # <<>> /\ UNCHANGED phase
      /\ store' = Result(Head(ops[t])) /\ ops' = [ops EXCEPT ![t] = Tail(@)]
  BY DEF EndOperation, Performed, CallsInv, OrderlyInv, DatabaseInv
<1>2. t \in Running /\ Running' = Running /\ \A u \in Running : u = t
  BY <1>1, OneRunning DEF Running
<1>3. Head(ops[t]) \in Proper /\ ops'[t] = Tail(ops[t])
  BY <1>1, RestOfRest DEF DatabaseTypeOK
<1>4. MapToBe' = MapToBe
  <2>1. MapToBe = Unwritten!After(TotalStore, ops[t])
    BY <1>2, MapWhileRunning
  <2>2. MapToBe' = Unwritten!After(TotalStore', ops'[t])
    <3>1. (CHOOSE u \in Running' : TRUE) = t /\ Running' # {}
      BY <1>2
    <3> QED BY <3>1 DEF MapToBe
  <2> DEFINE n == TotalStore'
  <2>3. \A k \in Key : n[k] = IF Unwritten!Writes(Head(ops[t]), k) THEN Head(ops[t]).value
                             ELSE TotalStore[k]
    BY <1>1, <1>3, TotalAfter
  <2> HIDE DEF n
  <2>4. Unwritten!After(TotalStore, ops[t]) = Unwritten!After(n, Tail(ops[t]))
    BY <1>1, <2>3, AfterHead
  <2> QED BY <1>3, <2>1, <2>2, <2>4 DEF n
<1>5. Pending' = Pending
  <2>1. \A u \in Thread : phase[u] = "called" => ops'[u] = ops[u]
    BY <1>1 DEF DatabaseTypeOK
  <2> QED BY <1>1, <2>1 DEF Pending
<1>6. Answers' = Answers
  <2>1. AnswersToBe(t)' = AnswersToBe(t)
    BY <1>1, AnswersStay
  <2> QED BY <1>2, <2>1 DEF Answers
<1> QED BY <1>4, <1>5, <1>6

LEMMA LeaveRefines ==
  ASSUME CallsInv, NEW t \in Thread, Leave(t)
  PROVE  Promise!Respond(t)
<1>1. /\ DatabaseTypeOK /\ OrderlyInv /\ phase[t] = "running" /\ ops[t] = <<>>
      /\ phase' = [phase EXCEPT ![t] = "outside"] /\ UNCHANGED <<store, ops>>
      /\ reads[t] # <<>>
  BY DEF Leave, Returned, CallsInv, OrderlyInv, DatabaseInv
<1>2. phase'[t] = "outside" /\ \A u \in Thread : u # t => phase'[u] = phase[u]
  BY <1>1 DEF DatabaseTypeOK
<1>3. t \in Running /\ (\A u \in Running : u = t) /\ Running' = {}
  BY <1>1, <1>2, OneRunning DEF Running
<1>4. MapToBe' = MapToBe
  <2>1. MapToBe = Unwritten!After(TotalStore, <<>>)
    BY <1>1, <1>3, MapWhileRunning
  <2>2. Unwritten!After(TotalStore, <<>>) = TotalStore
    <3>1. TotalStore = [k \in Key |-> TotalStore[k]]
      BY DEF TotalStore
    <3> QED BY <3>1, AfterNothing
  <2>3. MapToBe' = TotalStore' /\ TotalStore' = TotalStore
    BY <1>1, <1>3 DEF MapToBe, TotalStore
  <2> QED BY <2>1, <2>2, <2>3
<1>5. Pending' = Pending
  BY <1>1, <1>2 DEF Pending
<1>6. Answers[t] # <<>>
  <2> DEFINE S == Value \cup {"present", "absent"}
             s == reads[t]
  <2>1. s \in Seq(S) /\ s # <<>>
    BY <1>1 DEF DatabaseTypeOK
  <2>2. [i \in DOMAIN ops[t] |-> Yield(ops[t][i])] = <<>>
    BY <1>1
  <2>3. AnswersToBe(t) = s \o <<>>
    BY <2>2 DEF AnswersToBe
  <2> HIDE DEF s, S
  <2>4. s \o <<>> = s
    BY <2>1, ConcatEmptySeq
  <2> QED BY <1>3, <2>1, <2>3, <2>4 DEF Answers
<1>7. Answers' = [Answers EXCEPT ![t] = <<>>]
  BY <1>3 DEF Answers
<1> QED BY <1>4, <1>5, <1>6, <1>7 DEF Promise!Respond

LEMMA RestRefines ==
  ASSUME UNCHANGED <<store, phase, ops, reads>>
  PROVE  UNCHANGED <<MapToBe, Pending, Answers>>
<1>1. Running' = Running /\ TotalStore' = TotalStore /\ Pending' = Pending
  BY DEF Running, TotalStore, Pending
<1>2. MapToBe' = MapToBe
  BY <1>1 DEF MapToBe
<1>3. \A t : AnswersToBe(t)' = AnswersToBe(t)
  BY DEF AnswersToBe, Yield
<1>4. Answers' = Answers
  BY <1>1, <1>3 DEF Answers
<1> QED BY <1>1, <1>2, <1>4

LEMMA StepRefines ==
  ASSUME CallsInv, [OrderlyNext]_databaseVars
  PROVE  [Promise!AtomicNext]_<<MapToBe, Pending, Answers>>
<1>1. ASSUME NEW t \in Thread, CallSafely(t) \/ CallUnlocked(t)
      PROVE  Promise!AtomicNext
  <2>1. PICK locks \in BOOLEAN, list \in Lists : Call(t, locks, list)
    BY <1>1, SafeCallLists, UnlockedCallLists
  <2>2. Promise!Invoke(t)
    BY <2>1, CallRefines
  <2> QED BY <2>2 DEF Promise!AtomicNext
<1>2. ASSUME NEW t \in Thread, Enter(t) \/ Leave(t)
      PROVE  Promise!AtomicNext
  BY <1>2, EnterRefines, LeaveRefines DEF Promise!AtomicNext
<1>3. ASSUME NEW t \in Thread, EndOperation(t)
      PROVE  UNCHANGED <<MapToBe, Pending, Answers>>
  BY <1>3, EndRefines
<1>4. ASSUME NEW t \in Thread, BeginOperation(t)
      PROVE  UNCHANGED <<MapToBe, Pending, Answers>>
  BY <1>4, RestRefines DEF BeginOperation, callVars
<1>5. CASE UNCHANGED databaseVars
  BY <1>5, RestRefines DEF databaseVars, callVars
<1> QED BY <1>1, <1>2, <1>3, <1>4, <1>5 DEF OrderlyNext, Proceed

\* With orderly threads, as many as there are, Database is the map that AtomicMap
\* describes: a call, however many keys it has, takes effect at the moment its
\* lock_guard is constructed, and returns what the map held at that moment.
THEOREM DatabaseIsAtomic == OrderlySpec => ImplementsAtomicMap
<1>1. DatabaseInit => CallsInv /\ Promise!AtomicInit
  BY CallsStart, InitRefines
<1>2. CallsInv /\ [OrderlyNext]_databaseVars => CallsInv'
  BY CallsStep
<1>3. CallsInv /\ [OrderlyNext]_databaseVars => [Promise!AtomicNext]_(Promise!atomicVars)
  BY StepRefines DEF Promise!atomicVars
<1> QED BY <1>1, <1>2, <1>3, PTL DEF OrderlySpec, ImplementsAtomicMap, Promise!AtomicSpec

=============================================================================
