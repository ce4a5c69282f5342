------------------------------ MODULE AtomicMap -----------------------------
(***************************************************************************)
(* What Database promises threads that use its _safely operations (db.h):  *)
(* every call takes effect at once, at some moment between its invocation  *)
(* and its return, batches included.  A key never written reads as Empty.  *)
(* No key is present or absent here: an answer to has is right when it     *)
(* says "present" of a key that has a value.                               *)
(***************************************************************************)
EXTENDS Integers, Sequences

CONSTANTS Thread, Key, Empty, Operation

VARIABLES
  map,      \* the value of every key
  waiting,  \* waiting[t]: the operations of a call that has no answer yet
  answer    \* answer[t]: the answers of a call that has not returned yet

atomicVars == <<map, waiting, answer>>

Writes(op, k) == op.op \in {"put", "delete"} /\ op.key = k

\* The value of every key after a call: the call's last write wins.
After(m, list) ==
  [k \in Key |->
    IF \E i \in DOMAIN list : Writes(list[i], k)
    THEN LET last == CHOOSE i \in DOMAIN list :
               /\ Writes(list[i], k)
               /\ \A j \in DOMAIN list : Writes(list[j], k) => j <= i
         IN  list[last].value
    ELSE m[k]]

\* A call reads or writes, so what it reads is what was there before it.
Correct(m, op, result) ==
  \/ op.op = "read" /\ result = m[op.key]
  \/ /\ op.op = "find" /\ result \in {"present", "absent"}
     /\ m[op.key] # Empty => result = "present"
  \/ op.op \in {"put", "delete"} /\ result = Empty

AtomicInit ==
  /\ map = [k \in Key |-> Empty]
  /\ waiting = [t \in Thread |-> <<>>] /\ answer = [t \in Thread |-> <<>>]

Invoke(t) ==
  /\ waiting[t] = <<>> /\ answer[t] = <<>>
  /\ waiting'[t] \in Seq(Operation) /\ waiting'[t] # <<>>
  /\ waiting' = [waiting EXCEPT ![t] = waiting'[t]]
  /\ UNCHANGED <<map, answer>>

TakeEffect(t) ==
  /\ waiting[t] # <<>>
  /\ map' = After(map, waiting[t])
  /\ DOMAIN answer'[t] = DOMAIN waiting[t]
  /\ \A i \in DOMAIN waiting[t] : Correct(map, waiting[t][i], answer'[t][i])
  /\ answer' = [answer EXCEPT ![t] = answer'[t]]
  /\ waiting' = [waiting EXCEPT ![t] = <<>>]

Respond(t) ==
  /\ answer[t] # <<>>
  /\ answer' = [answer EXCEPT ![t] = <<>>]
  /\ UNCHANGED <<map, waiting>>

AtomicNext == \E t \in Thread : Invoke(t) \/ TakeEffect(t) \/ Respond(t)

AtomicSpec == AtomicInit /\ [][AtomicNext]_atomicVars

=============================================================================
