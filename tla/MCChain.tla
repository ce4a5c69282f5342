------------------------------- MODULE MCChain ------------------------------
(***************************************************************************)
(* A small tree of blocks.  The chain g-a1-a2 competes with the fork       *)
(* g-b1-b2-b3 and later with c3, a child of a2.  x names a parent that is  *)
(* never delivered.  "pay" and "rival" spend the same coin; "join" has     *)
(* more inputs than outputs and "burn" has no output.                      *)
(***************************************************************************)
EXTENDS Chain

MCTransaction == {"mint", "pay", "rival", "join", "burn"}
MCHash == {"m", "p", "r", "j", "b"}
MCTxHash == [t \in Transaction |->
  CASE t = "mint" -> "m" [] t = "pay" -> "p" [] t = "rival" -> "r"
    [] t = "join" -> "j" [] t = "burn" -> "b"]
MCTxInputs == [t \in Transaction |->
  CASE t = "mint" -> <<>>
    [] t \in {"pay", "rival"} -> <<<<"m", 0>>>>
    [] t = "join" -> <<<<"m", 1>>, <<"p", 0>>>>
    [] t = "burn" -> <<<<"m", 1>>>>]
MCTxOutputs == [t \in Transaction |->
  CASE t = "mint" -> 2 [] t \in {"pay", "rival", "join"} -> 1 [] t = "burn" -> 0]

MCBlock == {"g", "a1", "a2", "b1", "b2", "b3", "c3", "x"}
MCBlockHash == [b \in Block |-> b]
MCBlockPrev == [b \in Block |->
  CASE b = "g" -> "0" [] b \in {"a1", "b1"} -> "g" [] b \in {"a2"} -> "a1"
    [] b = "b2" -> "b1" [] b = "b3" -> "b2" [] b = "c3" -> "a2" [] b = "x" -> "y"]
MCBlockTxs == [b \in Block |->
  CASE b = "g" -> <<"mint">> [] b = "a1" -> <<"pay">> [] b = "a2" -> <<"join">>
    [] b = "b1" -> <<"rival">> [] b = "b2" -> <<"pay">> [] b = "b3" -> <<"burn">>
    [] b \in {"c3", "x"} -> <<>>]

\* These blocks satisfy what the theorems about heights and the ledger suppose.
ASSUME MCHypotheses == CollisionFree /\ HashesDistinct /\ SoundBlocks

=============================================================================
