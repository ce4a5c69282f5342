---------------------------- MODULE MCChainWriter ---------------------------
(***************************************************************************)
(* Payloads of a few sizes: "half" fits twice into an undo file and once   *)
(* into a block file, "full" fills a file, and "huge" fits into none.  With*)
(* FileRange = 3 the fourth payload that fills a file finds one filled     *)
(* before, and what is written after it goes behind the old bytes.         *)
(***************************************************************************)
EXTENDS ChainWriter

MCFitting == {"half", "full"}
MCAnySize == MCFitting \cup {"huge"}
MCSize == [p \in Payload |->
  CASE p = "half" -> MaxFileSize \div 2 [] p = "full" -> MaxFileSize
    [] p = "huge" -> MaxFileSize + 1]

=============================================================================
