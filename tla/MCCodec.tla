------------------------------- MODULE MCCodec ------------------------------
(***************************************************************************)
(* Values that are not written (0), of one byte and of two bytes.          *)
(***************************************************************************)
EXTENDS Codec

MCHash(b) == SumOfSizes(b, LAMBDA byte : byte) % 512

Inputs == {
  [reference_transaction_hash |-> 300, utxo_index |-> 0, signature |-> 7],
  [reference_transaction_hash |-> 0, utxo_index |-> 200, signature |-> 0],
  [reference_transaction_hash |-> 0, utxo_index |-> 0, signature |-> 0]}
Outputs == {[amount |-> 300, public_key |-> 5], [amount |-> 0, public_key |-> 0]}

UpTo(n, S) == UNION {[1 .. k -> S] : k \in 0 .. n}

Tx(ins, outs, v, t) ==
  [transaction_inputs |-> ins, transaction_outputs |-> outs, version |-> v, lock_time |-> t]

Transactions ==
  {Tx(ins, outs, v, t) : ins \in UpTo(2, Inputs), outs \in UpTo(2, Outputs),
                         v \in {0, 200}, t \in {0, 128}}

i1 == [reference_transaction_hash |-> 300, utxo_index |-> 0, signature |-> 7]
i2 == [reference_transaction_hash |-> 0, utxo_index |-> 200, signature |-> 0]
o1 == [amount |-> 300, public_key |-> 5]
o2 == [amount |-> 0, public_key |-> 0]

BlockTransactions == {
  Tx(<<>>, <<>>, 0, 0), Tx(<<>>, <<o1>>, 9, 0), Tx(<<i1>>, <<o1, o2>>, 0, 200),
  Tx(<<i1, i2>>, <<o2>>, 0, 0), Tx(<<i2>>, <<o1>>, 200, 1)}

Headers ==
  {[version |-> v, previous_block_hash |-> p, merkle_root |-> 0, difficulty_target |-> 4,
    nonce |-> n, timestamp |-> 16383] : v \in {0, 1}, p \in {0, 5000}, n \in {0, 127}}
ZeroHeader ==
  [version |-> 0, previous_block_hash |-> 0, merkle_root |-> 0, difficulty_target |-> 0,
   nonce |-> 0, timestamp |-> 0]
FullHeader ==
  [version |-> 1, previous_block_hash |-> 5000, merkle_root |-> 3, difficulty_target |-> 4,
   nonce |-> 0, timestamp |-> 128]

Blocks ==
  {[block_header |-> h, transactions |-> txs] :
    h \in {ZeroHeader, FullHeader}, txs \in UpTo(2, BlockTransactions)}

Record(h, n, f, s, e, u, us, ue) ==
  [block_header |-> h, num_transactions |-> n, height |-> n + 1,
   block_file_stored |-> f, block_offset_start |-> s, block_offset_end |-> e,
   undo_file_stored |-> u, undo_offset_start |-> us, undo_offset_end |-> ue]

MCObject ==
  [TransactionInput |-> Inputs, TransactionOutput |-> Outputs,
   Transaction |-> Transactions, BlockHeader |-> Headers \cup {ZeroHeader},
   Block |-> Blocks, UndoBlock |-> Blocks,
   BlockRecord |->
     {Record(h, n, <<98, 48>>, s, s + 300, u, 0, us) :
       h \in {ZeroHeader, FullHeader}, n \in {0, 1}, s \in {0, 200}, u \in {<<>>, <<117>>},
       us \in {0, 9}},
   CoinRecord |->
     {[version |-> v, utxo |-> l, amounts |-> Each(LAMBDA x : 128 * x, l),
       public_keys |-> Each(LAMBDA x : 1 - x, l)] :
       v \in {0, 255}, l \in UpTo(3, {0, 1})}]

MCFollowing == {<<>>, <<10, 2>>, <<10, 2, 8, 1, 18, 2, 8, 3, 0>>}

=============================================================================
