----------------------------- MODULE MCCryptHash ----------------------------
(***************************************************************************)
(* Blocks of 6 bytes, 2 of which hold the length: messages of every length *)
(* up to three blocks, so that each way to end a block occurs more than    *)
(* once.                                                                   *)
(***************************************************************************)
EXTENDS CryptHash

MCMessage == {[k \in 1 .. n |-> k + 1] : n \in 0 .. 18} \cup {<<128>>, <<128, 0>>, <<0, 0>>}
MCDigest(s) == Len(s)

=============================================================================
