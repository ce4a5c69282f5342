------------------------------ MODULE MCDatabase ----------------------------
(***************************************************************************)
(* Two keys and one value besides "".  The batches put two keys, put and   *)
(* delete one key in either order, and swap a key for the other.           *)
(***************************************************************************)
EXTENDS Database

MCBatches == {
  <<Put("k", "v"), Put("l", "v")>>, <<Put("k", "v"), Delete("k")>>,
  <<Delete("k"), Put("k", "v")>>, <<Delete("k"), Put("l", "v")>>}
MCKeyLists == {<<"k", "l">>, <<"l", "k">>}

=============================================================================
