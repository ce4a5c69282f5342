----------------------------- MODULE MCChainFiles ---------------------------
(***************************************************************************)
(* The chain g-a1 with a child that spends more than it makes, and the     *)
(* fork b1-b2.  "pay" and "rival" spend the same coin, so that b2 is not   *)
(* valid where b1 is active.  With MaxFileSize = 4, a block file holds     *)
(* the genesis block and one small block.                                  *)
(***************************************************************************)
EXTENDS ChainFiles

MCTransaction == {"mint", "pay", "rival", "burn"}
MCHash == {"m", "p", "r", "j"}
MCTxHash == [t \in Transaction |->
  CASE t = "mint" -> "m" [] t = "pay" -> "p" [] t = "rival" -> "r" [] t = "burn" -> "j"]
MCTxInputs == [t \in Transaction |->
  CASE t = "mint" -> <<>> [] t \in {"pay", "rival"} -> <<<<"m", 0>>>>
    [] t = "burn" -> <<<<"m", 1>>, <<"p", 0>>>>]
MCTxOutputs == [t \in Transaction |-> IF t = "mint" THEN 2 ELSE 1]

MCBlock == {"g", "a1", "a2", "b1", "b2"}
MCBlockHash == [b \in Block |-> b]
MCBlockPrev == [b \in Block |->
  CASE b = "g" -> "0" [] b \in {"a1", "b1"} -> "g" [] b = "a2" -> "a1" [] b = "b2" -> "b1"]
MCBlockTxs == [b \in Block |->
  CASE b = "g" -> <<"mint">> [] b = "a1" -> <<"pay">> [] b = "a2" -> <<"burn">>
    [] b = "b1" -> <<"rival">> [] b = "b2" -> <<"pay">>]

MCSize == [p \in Payload |->
  CASE p = <<"blocks", "a1">> -> 2 [] p = <<"blocks", "a2">> -> 4
    [] p = <<"undo_blocks", "a1">> -> 3 [] OTHER -> 1]

\* The hypotheses of the theorems in ChainFiles_proofs.
ASSUME MCHypotheses ==
  /\ BlocksDistinct
  /\ \A p \in Payload : Size[p] <= MaxFileSize

=============================================================================
