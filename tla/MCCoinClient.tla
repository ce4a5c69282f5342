---------------------------- MODULE MCCoinClient ----------------------------
(***************************************************************************)
(* A small instance of CoinClient.  "mint" has no inputs, as the genesis   *)
(* transaction; "pay" and "rival" spend the same coin; "join" spends coins *)
(* of two transactions; "alias" has the hash of "pay".                     *)
(***************************************************************************)
EXTENDS CoinClient

MCTransaction == {"mint", "pay", "rival", "join"}
MCAliasing == {"mint", "pay", "rival", "alias"}
MCHash == {"m", "p", "r", "j"}

MCTxHash == [t \in Transaction |->
  CASE t = "mint" -> "m" [] t \in {"pay", "alias"} -> "p"
    [] t = "rival" -> "r" [] t = "join" -> "j"]

MCTxInputs == [t \in Transaction |->
  CASE t = "mint" -> <<>>
    [] t \in {"pay", "rival"} -> <<<<"m", 0>>>>
    [] t = "join" -> <<<<"m", 1>>, <<"p", 0>>>>
    [] t = "alias" -> <<<<"m", 1>>>>]

MCTxOutputs == [t \in Transaction |->
  CASE t \in {"mint", "alias"} -> 2
    [] t \in {"pay", "join"} -> 1
    [] t = "rival" -> 3]

\* Blocks of up to two transactions.
MCTransactionList == UNION {[1 .. n -> Transaction] : n \in 0 .. 2}

\* Undo blocks that list a transaction, and one that lists none.
MCUndoList == {<<>>, <<1>>, <<1, 0>>}

=============================================================================
