------------------------------ MODULE TxoLedger -----------------------------
(***************************************************************************)
(* What the coin database promises its users (README.md: it "manages the   *)
(* storage between RAM and disk by using a cache, and keeps track of which *)
(* TXOs are spent"), with no cache, no database and no flush: a coin comes *)
(* into existence once, unspent, and is spent at most once after that.     *)
(***************************************************************************)
CONSTANT Coin

VARIABLES
  unspent,  \* the coins an input may name
  gone      \* the coins an input has named

ledgerVars == <<unspent, gone>>

LedgerInit == unspent = {} /\ gone = {}

Create(c) ==
  /\ c \notin unspent \cup gone
  /\ unspent' = unspent \cup {c}
  /\ UNCHANGED gone

Spend(c) ==
  /\ c \in unspent
  /\ unspent' = unspent \ {c}
  /\ gone' = gone \cup {c}

LedgerNext == \E c \in Coin : Create(c) \/ Spend(c)

LedgerSpec == LedgerInit /\ [][LedgerNext]_ledgerVars

=============================================================================
