------------------------------ MODULE Database ------------------------------
(***************************************************************************)
(* The key-value store (core/src/db): an unordered_map behind a mutex, and *)
(* the threads that call it.                                               *)
(*                                                                         *)
(* The _safely operations hold the mutex for all of a call; get,           *)
(* batch_read and has do not take it.  Every call is a list of operations  *)
(* on single keys, and an operation takes time: it enters the map and      *)
(* leaves it again, so that two of them may overlap.  Where they do and    *)
(* one changes the map, the behaviour is undefined and the model stops     *)
(* following the process.                                                  *)
(***************************************************************************)
EXTENDS Integers, Sequences, FiniteSets

CONSTANTS
  Thread,    \* the calling threads
  Key, Value,
  Empty,     \* "", the value of a key that operator[] has just inserted
  Free,      \* the owner of a mutex that nobody holds
  Batches,   \* the write batches that callers make
  KeyLists,  \* the key lists that callers read in one call
  MaxCalls   \* bound: so many calls at most

ASSUME DatabaseAssumption ==
  /\ Empty \in Value /\ Free \notin Thread
  /\ KeyLists \subseteq Seq(Key) \ {<<>>} /\ MaxCalls \in Nat

Operation == [op : {"read", "find", "put", "delete"}, key : Key, value : Value]

\* BatchOperation, and the lookups.  A deletion is queued with the value "".
Put(k, v) == [op |-> "put", key |-> k, value |-> v]
Delete(k) == [op |-> "delete", key |-> k, value |-> Empty]
Read(k) == [op |-> "read", key |-> k, value |-> Empty]
Find(k) == [op |-> "find", key |-> k, value |-> Empty]

ASSUME BatchAssumption ==
  Batches \subseteq Seq({Put(k, v) : k \in Key, v \in Value} \cup
                        {Delete(k) : k \in Key}) \ {<<>>}

VARIABLES
  store,      \* _store: a function on the keys that are present
  mutex,      \* _mutex: the thread that holds it, or Free
  phase,      \* phase[t]: "outside", "called" (before the lock), "running"
  locking,    \* locking[t]: whether its call takes the mutex
  ops,        \* ops[t]: the operations its call has still to make
  reads,      \* reads[t]: what its call has read so far
  inside,     \* the threads inside the map, in the middle of an operation
  undefined,  \* whether two operations have overlapped that must not
  calls       \* history: the calls made

callVars == <<phase, locking, ops, reads>>
databaseVars == <<store, mutex, callVars, inside, undefined, calls>>

DatabaseInit ==
  /\ store = [k \in {} |-> Empty]
  /\ mutex = Free /\ inside = {} /\ undefined = FALSE /\ calls = 0
  /\ phase = [t \in Thread |-> "outside"]
  /\ locking = [t \in Thread |-> FALSE]
  /\ ops = [t \in Thread |-> <<>>] /\ reads = [t \in Thread |-> <<>>]

-----------------------------------------------------------------------------
(* The calls. *)

Call(t, locks, operations) ==
  /\ ~undefined /\ calls < MaxCalls
  /\ phase[t] = "outside"
  /\ phase' = [phase EXCEPT ![t] = "called"]
  /\ locking' = [locking EXCEPT ![t] = locks]
  /\ ops' = [ops EXCEPT ![t] = operations]
  /\ calls' = calls + 1
  /\ UNCHANGED <<store, mutex, reads, inside, undefined>>

\* Mutant: the lock guard is forgotten.
PutUnlocked(t, k, v) == Call(t, FALSE, <<Put(k, v)>>)

get(t, k) == Call(t, FALSE, <<Read(k)>>)
get_safely(t, k) == Call(t, TRUE, <<Read(k)>>)
batch_write_safely(t, batch) == Call(t, TRUE, batch)
batch_read(t, keys) == Call(t, FALSE, [i \in DOMAIN keys |-> Read(keys[i])])
batch_read_safely(t, keys) == Call(t, TRUE, [i \in DOMAIN keys |-> Read(keys[i])])
put_safely(t, k, v) == Call(t, TRUE, <<Put(k, v)>>)
delete_safely(t, k) == Call(t, TRUE, <<Delete(k)>>)
has(t, k) == Call(t, FALSE, <<Find(k)>>)

\* Mutant: the lock is tried and not waited for.
EnterWithoutWaiting(t) ==
  /\ ~undefined /\ phase[t] = "called"
  /\ mutex' = IF locking[t] /\ mutex = Free THEN t ELSE mutex
  /\ phase' = [phase EXCEPT ![t] = "running"]
  /\ UNCHANGED <<store, locking, ops, reads, inside, undefined, calls>>

\* The lock_guard's constructor, where the call has one.
Enter(t) ==
  /\ ~undefined /\ phase[t] = "called"
  /\ \/ locking[t] /\ mutex = Free /\ mutex' = t
     \/ ~locking[t] /\ UNCHANGED mutex
  /\ phase' = [phase EXCEPT ![t] = "running"]
  /\ UNCHANGED <<store, locking, ops, reads, inside, undefined, calls>>

\* Reading with operator[] inserts a key that is absent.
Inserts(op) == op.op = "read" /\ op.key \notin DOMAIN store

\* Whether an operation changes the map.
Changes(op) ==
  op.op = "put" \/ Inserts(op) \/ (op.op = "delete" /\ op.key \in DOMAIN store)

BeginOperation(t) ==
  /\ ~undefined /\ phase[t] = "running"
  /\ ops[t] # <<>> /\ t \notin inside
  /\ inside' = inside \cup {t}
  /\ undefined' = \E u \in inside : Changes(Head(ops[t])) \/ Changes(Head(ops[u]))
  /\ UNCHANGED <<store, mutex, callVars, calls>>

Assigned(k, v) == [j \in DOMAIN store \cup {k} |-> IF j = k THEN v ELSE store[j]]

\* The map after an operation.
Result(op) ==
  IF op.op = "put" \/ Inserts(op) THEN Assigned(op.key, op.value)
  ELSE [k \in DOMAIN store \ (IF op.op = "delete" THEN {op.key} ELSE {}) |-> store[k]]

\* What an operation yields to its caller; a write yields nothing.
Yield(op) ==
  IF op.op = "find" THEN IF op.key \in DOMAIN store THEN "present" ELSE "absent"
  ELSE IF op.op = "read" /\ op.key \in DOMAIN store THEN store[op.key]
  ELSE Empty

Performed(t) ==
  /\ ~undefined /\ t \in inside
  /\ store' = Result(Head(ops[t]))
  /\ reads' = [reads EXCEPT ![t] = Append(@, Yield(Head(ops[t])))]
  /\ ops' = [ops EXCEPT ![t] = Tail(@)]
  /\ inside' = inside \ {t}
  /\ UNCHANGED <<locking, undefined, calls>>

\* Mutant: a batch takes the lock anew for each of its operations.
EndAndUnlock(t) ==
  /\ Performed(t)
  /\ mutex' = IF locking[t] THEN Free ELSE mutex
  /\ phase' = [phase EXCEPT ![t] = "called"]

EndOperation(t) == Performed(t) /\ UNCHANGED <<mutex, phase>>

Returned(t) ==
  /\ ~undefined /\ phase[t] = "running"
  /\ phase' = [phase EXCEPT ![t] = "outside"]
  /\ reads' = [reads EXCEPT ![t] = <<>>]
  /\ UNCHANGED <<store, locking, ops, inside, undefined, calls>>

\* Mutants: the lock guard is never destroyed, and the call returns early.
LeaveLocked(t) == Returned(t) /\ ops[t] = <<>> /\ UNCHANGED mutex

LeaveEarly(t) ==
  /\ Returned(t)
  /\ mutex' = IF locking[t] THEN Free ELSE mutex

\* The call returns; its lock_guard, if it has one, releases the mutex.
Leave(t) ==
  /\ Returned(t) /\ ops[t] = <<>>
  /\ mutex' = IF locking[t] THEN Free ELSE mutex

Proceed(t) == Enter(t) \/ BeginOperation(t) \/ EndOperation(t) \/ Leave(t)

CallSafely(t) ==
  \/ \E k \in Key : get_safely(t, k) \/ delete_safely(t, k)
  \/ \E k \in Key, v \in Value : put_safely(t, k, v)
  \/ \E batch \in Batches : batch_write_safely(t, batch)
  \/ \E keys \in KeyLists : batch_read_safely(t, keys)

CallUnlocked(t) ==
  \/ \E k \in Key : get(t, k) \/ has(t, k)
  \/ \E keys \in KeyLists : batch_read(t, keys)

\* Any operation by any thread at any time.
AnyNext == \E t \in Thread : CallSafely(t) \/ CallUnlocked(t) \/ Proceed(t)
AnySpec == DatabaseInit /\ [][AnyNext]_databaseVars

\* No other thread has a call under way; no call under way is without the lock.
Alone(t) == \A u \in Thread \ {t} : phase[u] = "outside"
NoneUnlocked == \A t \in Thread : phase[t] # "outside" => locking[t]

\* What callers have to see to: an operation without the lock is used only while no
\* other call is under way.  One thread alone may use every operation.
OrderlyNext ==
  \E t \in Thread :
    \/ NoneUnlocked /\ CallSafely(t)
    \/ Alone(t) /\ CallUnlocked(t)
    \/ Proceed(t)

\* A call under way goes on, as threads do; nothing says that a thread makes
\* another call.
OrderlySpec == DatabaseInit /\ [][OrderlyNext]_databaseVars
FairOrderlySpec ==
  OrderlySpec /\ \A t \in Thread : WF_databaseVars(Proceed(t))

-----------------------------------------------------------------------------
(* Properties. *)

DatabaseTypeOK ==
  /\ \E present \in SUBSET Key : store \in [present -> Value]
  /\ mutex \in Thread \cup {Free}
  /\ phase \in [Thread -> {"outside", "called", "running"}]
  /\ locking \in [Thread -> BOOLEAN]
  /\ ops \in [Thread -> Seq(Operation)]
  /\ reads \in [Thread -> Seq(Value \cup {"present", "absent"})]
  /\ inside \subseteq Thread /\ undefined \in BOOLEAN /\ calls \in Nat
  /\ \A t \in Thread : phase[t] = "outside" => ops[t] = <<>>

\* The calls that take the lock are alone in the map among themselves, and the
\* mutex is the one of the thread inside, whatever unlocked calls do meanwhile.
LockedCallsAlone ==
  \A t \in Thread : locking[t] /\ phase[t] = "running" => mutex = t

\* Orderly threads never overlap in the map: none of the _safely operations forgets
\* the lock, although some of them only read.
NoRace == ~undefined

TotalStore == [k \in Key |-> IF k \in DOMAIN store THEN store[k] ELSE Empty]

Running == {t \in Thread : phase[t] = "running"}

Unwritten == INSTANCE AtomicMap WITH
  map <- TotalStore, waiting <- ops, answer <- reads

\* The call that is under way has taken effect when it entered: the map that
\* others will find, and the answers it will return with.
MapToBe ==
  IF Running = {} THEN TotalStore
  ELSE Unwritten!After(TotalStore, ops[CHOOSE t \in Running : TRUE])

AnswersToBe(t) == reads[t] \o [i \in DOMAIN ops[t] |-> Yield(ops[t][i])]

\* The calls that have not entered, and the answers of those that have.
Pending == [t \in Thread |-> IF phase[t] = "called" THEN ops[t] ELSE <<>>]
Answers == [t \in Thread |-> IF t \in Running THEN AnswersToBe(t) ELSE <<>>]

Promise == INSTANCE AtomicMap WITH
  map <- MapToBe, waiting <- Pending, answer <- Answers

\* Calls take effect one at a time: no thread reads half of another's batch,
\* batch_read_safely reads all its keys at one moment, the operations of a batch
\* are applied in the order in which they were queued, and the keys that reads
\* leave behind cannot be told from absent ones by their value.
ImplementsAtomicMap == Promise!AtomicSpec

\* A thread that holds the lock gives it back.  (Which of the waiting threads
\* is next is up to the mutex, so a particular one may wait forever.)
LockReleased == \A t \in Thread : mutex = t ~> mutex # t

=============================================================================
