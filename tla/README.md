# A TLA+ model of CryptBank

CryptBank is the storage layer of a block chain: a `Chain` that accepts blocks
and transactions, a `CoinDatabase` of unspent outputs, a `ChainWriter` that
appends blocks to files, a `BlockInfoDatabase` of block records, the key-value
`Database` behind both, the hash, and the serialization of all of it. This
directory holds TLA+ modules for those parts, TLC configurations that check them
on small instances, and proofs of the safety properties for all instances.

To check everything, in this directory:

    tlc -workers 2 -config MCChain.cfg MCChain      # likewise the other .cfg files
    tlapm CoinClient_proofs.tla                     # likewise the other *_proofs.tla

## The system

| Component | State | Operations that change it |
|---|---|---|
| `Chain` (core/src/chain) | tip block, length of the active chain | constructor, `handle_block`, `handle_transaction` |
| `CoinDatabase` (core/src/coin_database) | cache of coins and its counter, database of coin records, mempool and its counter | `store_block`, `validate_and_store_block`, `store_transaction`, `validate_and_store_transaction`, `undo_coins`, `flush_main_cache`; validation itself (see below) |
| `ChainWriter` (core/src/chain_writer) | file number and offset for blocks and for undo blocks; the files | `store_block`, `write_block`, `write_undo_block` |
| `BlockInfoDatabase` | block hash to `BlockRecord` | `store_block_record` |
| `Database` (core/src/db) | an in-memory map behind a mutex | get, put, delete, batches |
| `CryptCrypto` | none | `hash` |
| primitives, records, protobuf codecs | none | serialize, deserialize |

All interaction is by direct calls. `Chain` owns one `CoinDatabase`, one
`ChainWriter` and one `BlockInfoDatabase`; the two databases own a `Database`
each. `handle_block` on the tip validates against the coin database, stores the
coins, has the writer store block and undo block, files the record and moves the
tip. Off the tip it writes the block and files a record without an undo
location; when the fork is longer than the active chain it undoes coins, stores
the coins of the blocks `get_forked_blocks_stack` returns, and moves the tip.
`get_all_utxo` is declared in two headers and defined nowhere.

What is hard about this code:

- *Order and repetition of deliveries.* A block may come before its parent, again,
  or as part of a fork. Heights are computed from whatever record the parent has at
  that moment, and every delivery overwrites the record.
- *State kept twice.* The cache and its counter, the mempool and its counter, the
  chain's length and the tip's recorded height, the writer's offset and the end of the file.
- *Reads that write.* `Database::get_safely` uses `operator[]`, so a failed
  validation leaves an empty coin record that `has` reports as present later.
- *Loops that are never entered*, in `undo_coins` (`i == size()`), except for an undo
  block that lists nothing, where they read a missing element.
- *Undefined behaviour*: `erase(end())`, a null block, a read past a vector.
- *Widths*: 8-bit output indices, 16-bit offsets, a signed remainder compared as unsigned, and
  16-bit file numbers that lead a long-lived writer back to files it has filled.
- *Restarts*: files outlive the process, counters and records do not.
- *Disks*: a file cannot be opened, or `fwrite` writes less than it is given.
- *Locking*: `get`, `batch_read` and `has` do not take the lock the other operations of
  `Database` take, and reading inserts.
- *Serialization*: files are read at locations that need not fit what is there, vectors are
  walked by the length of other vectors.

There is no concurrency inside `Chain`; only `Database` is made to be called by several
threads.

What makes each component correct:

| Component | Properties |
|---|---|
| `CoinDatabase` | a coin is created once, spent once, and is in one place meanwhile; capacities hold; a store ends |
| `Chain` | heights, length and tip agree and the active chain goes back to the genesis block, whatever is delivered; the coins are those of the active chain |
| `ChainWriter` | a location yields what was written there and files are bounded, until a file number comes round again |
| `Chain` on `ChainWriter` | every record leads to its block, every coin to a block, every query to a chain |
| `Database` | calls take effect one at a time, never race, and give the lock back |
| `CryptCrypto` | the message is padded as the standard says; equal messages hash equally |
| codecs | what is written reads back; what is read in the wrong place is nothing or a part of what was written |

## Modules

| Module | What it is |
|---|---|
| `TxoLedger` | abstract: coins are created once and spent at most once |
| `CoinDatabase` | the coin database; one action per operation and one per iteration of the loops of `store_transactions_to_main_cache` |
| `CoinClient` | the coin database under three kinds of caller (`OpenSpec`, `ValidatedSpec`, `OnceSpec`), and its refinement of `TxoLedger` |
| `Chain` | extends `CoinDatabase` with the tip, the length and the block records; `handle_block` and `handle_transaction` |
| `ChainWriter` | files, offsets, file numbers, `FileInfo`s, reading back, restarts |
| `ChainFiles` | extends `Chain`, instantiates `ChainWriter`: records with locations, files that cannot be opened, the queries |
| `AtomicMap` | abstract: calls on a map that take effect one at a time |
| `Database` | the key-value store under several threads, and its refinement of `AtomicMap` |
| `CryptHash` | `CryptCrypto::hash` byte by byte: copying, padding, length, sum |
| `Wire` | the protobuf runtime's varints, fields and cursors, as far as the generated code uses them (external) |
| `CryptMessages` | the generated messages: clear, parse, serialize, size |
| `Primitives` | `serialize` and `deserialize` of blocks, transactions, records and undo blocks, and `make_undo_block` |
| `Codec` | an object on its way to a file and back, read at the right place or a wrong one |
| `MCCoinClient`, `MCChain`, `MCChainWriter`, `MCChainFiles`, `MCDatabase`, `MCCryptHash`, `MCCodec` | the small instances |
| `CoinDatabase_proofs`, `CoinClient_proofs`, `Chain_proofs`, `ChainWriter_proofs`, `ChainFiles_proofs`, `Database_proofs`, `CryptHash_proofs`, `Codec_proofs` | the proofs |

### CoinDatabase

A coin is a locator: transaction hash and output index. Amount, key and
`is_spent` are left out: the first two travel with the index, and `is_spent` is
`FALSE` in every coin the code can make. A `CoinRecord` becomes a bag of indices,
because `push_back` on a record that already lists an index makes a second entry.
`TxHash` is any function, so that colliding hashes are instances too.

`store_block` begins the walk; `SpendFromCache`, `SpendFromDatabase`,
`SpendUnknown`, `SpendMissing`, `AddOutput`, `NextTransaction` and `Return` are its
iterations; `status` keeps other calls out until it returns. `SpendMissing` is
`erase(end())`: it drops some other entry or ends the process. `Validation` contains
the insertion that a failed lookup makes. `created` and `spent` are histories that
no guard of the code reads.

`undo_coins` is abstracted to what its loop conditions leave of it: an undo block
that lists transactions is skipped, an undo block that lists none ends the process.

### Chain

A block is a model value with a hash, a previous hash and a list of transactions.
A record keeps the previous hash, the height, the block its location leads to, and
`undo`, the number of transactions read back from its undo location (0 for the dummy
location `("", 0, 0)`). `handler` says what remains of the constructor or of
`handle_block` when the coin database's walk returns: `Extend` (lines 107-111),
`ExtendDies` (the over-read of `UndoBlock::serialize`), `TakeOver` (134-135).
`CommonAncestor` and `UndoBlocks` are `get_forked_blocks_stack` and
`get_undo_blocks_queue`. `Chain` assumes that a file can be opened and that a
location reads back what was written there; that is what `ChainWriter` is about.

### ChainWriter

A byte is the payload it belongs to and its position in it. `Write` stays in the file or goes on
to the next one (`Stay`, `GoOn`) as `DoesNotFit` says, appends at the end of the file and computes
the location from the writer's own offset; `CannotOpen` is a failing `fopen`. Both kinds of file share the
actions and differ in `<=` and `<`. `Restart` is a new process on the old files.
The number of bytes that `fwrite` gets onto the disk is a parameter of `Write`: the code does
not look at it and takes every write for a whole one. `cut` is a history of the files in which
a write was cut short; `Overfull` are the files that were given a payload larger than
a file may be, after which the signed remainder compares as a huge unsigned one and the 16-bit
end wraps. `GoOn` takes the next file to be empty. After `FileRange` files it is not: the file
number is back at one that was filled, the offset starts at 0 and the bytes go behind the old ones.
`reused` is a history of such files. `ReadsBack`, `NeverBehind` and `FilesBounded` say that none of
the three does harm beyond the file it happened in.

### ChainFiles

`Chain` records the block that a location leads to. `ChainFiles` records the locations
themselves, writes the files with `ChainWriter`'s actions, and keeps every step of
`Chain`: `StoreBlockFile` and `StoreUndoFile` are the two writes of
`ChainWriter::store_block`, `Stored` is `Chain`'s `Construct` or `Extend` with the two
locations, `FilesFork` is a block off the tip with its one write. A write that could not open
its file returns `nullptr`; on the tip (`FileMissing`) it is read after both writes and
after the coins have been stored, off the tip (`FilesForkMissing`) at once, and the
process ends. `get_block` and `get_active_chain` read the files. It is one process in a
fresh directory: what a restart does to locations is `writer_restart`. It is followed up to and including the
first call that goes on to a file which already held something (`NoneReused` is a guard of every delivery): what `Chain`
reads through a location is not the recorded block any more after that. `RecordsLeadToBlocks` is about
the records outside such a file, `AnswersAreChains` about states without one.

### Database

A call is a list of operations on single keys, and an operation has a beginning and an
end, so that two threads can be in the map at once; if one of them changes it,
`undefined` becomes true and the model stops. A call that takes the lock waits in phase `called`. Reads
insert (`Inserts`), as `operator[]` does. `AnySpec` lets threads call anything at any time, which
races. `OrderlySpec` is what the code asks of its callers without saying so: an operation without the
lock is called when no other thread is in the database (`Alone`), and none that locks is called while one without
runs (`NoneUnlocked`); a single thread, which is how the chain uses the database, is the simplest case.
For `AtomicMap`, a key that a read has inserted is an absent one: by value the two cannot be told
apart, only `has` can.

### CryptHash

`CopyByte` copies a byte into the block `m_data` and hands a full block to `transform`; `pad` writes
0x80, the zeros and the length into one block or two (`Padded`). A byte of the block that was never written is `Garbage`, which
is no byte, so that it would show in what is transformed. The transformation is left out: `m_state` is the sequence of
the bytes handed over, which is compared with the padded message, and the constant operator `Digest` is the sum of the bytes
that the state would hold after them. `Sum` adds it to `hashd`, whose first value is any of `Leftover`.

### Codecs

`Wire` and `CryptMessages` work on bytes: fields with the value zero are not written, varints take as
many bytes as they need, submessages begin with their size, a tag that is zero or ends a group ends the
message, and everything else is an error or unknown. A message within a message is parsed by a call within a
call; `CryptMessages` keeps the stack of calls explicitly (`ParseCall`, with the callers that wait for it), and
one application of `InternalParse` is one iteration of one of their loops. `Iterations` applies it as often as a
buffer can need (`MaxIterations`): an iteration reads at least one byte, and a
call and its return together two. `Primitives` goes from the
program's objects to messages and back, with the widths (8-bit indices, 16-bit offsets), the
index-by-another's-length loops and the vectors that `make_undo_block` never clears.
`Codec` serializes an object and reads it back from its bytes, from more (what follows in the file) or from fewer.
Its assumption `CodecAssumption` gives the members their C++ types and says that no serialized object is larger than
protobuf writes (`INT_MAX` bytes). File names are sequences of ASCII characters, as `ChainWriter` makes them: protobuf
rejects a string that is not UTF-8.

## Runs

| Run | Instance | What it shows |
|---|---|---|
| `open` | 4 transactions, two with one hash, one with more outputs than indices; blocks of up to 2; cache 2, mempool 2, a coin up to twice | bounds and conservation under arbitrary callers |
| `once` | 4 transactions, blocks of up to 2, cache 2 | `OneHome`, `NeverDies` and the refinement of `TxoLedger` for careful callers |
| `double_spend` | as `once`, callers that only validate | *violation*: one block spends a coin twice |
| `chain` | 8 blocks: a chain of 2, a competing fork of 3, a late child, an orphan | heights, tip, active chain, ledger, mempool, return of handlers |
| `ledger` | as `chain` | *violation*: after a takeover the coins are those of the old chain |
| `writer` | sizes 1, 2 and 3 in files of 2 bytes, offsets modulo 4, 3 file numbers, writes cut anywhere; 5 calls | locations read back, files stay bounded, offsets keep up, except where a file itself was damaged or used again |
| `writer_restart` | sizes that fit, whole writes, restarts; 5 calls | *violation*: locations of a new process show old bytes |
| `files` | 5 blocks: a chain of 2 with an invalid child, a fork of 2; files of 4 bytes, 3 file numbers, 8 writes | `Chain` on `ChainWriter`: records lead to blocks, coins to records, queries to chains, until a file is used again |
| `threads` | 3 threads, 2 keys, 3 calls, every operation, orderly callers | no race, locked calls alone, refinement of `AtomicMap`, the lock is given back |
| `hash` | messages of every length up to three blocks, blocks of 6 bytes with a length of 2 | padding |
| `hash_twice` | as `hash` | *violation*: one message, two hashes |
| `codec` | objects of 8 kinds, members of 0, 1 and 2 bytes, up to 2 transactions with 2 inputs and 2 outputs, cut anywhere | round trips, sizes, what wrong locations yield |

**Bounds.** A capacity of 2 with transactions of up to 3 outputs makes a flush
happen inside a transaction, between transactions and between blocks, and lets a
coin be in the cache, in a record, or in both. `IndexRange` is 2 in `open`, below the
outputs of one transaction, so that the 8-bit index wraps. `MaxCopies` limits how
often callers create or spend one coin; it is checked when a call begins, never inside
it. The block tree needs two takeover candidates (`b3`, `c3`), a block whose parent
is unknown (`x`) and blocks that can arrive before their parents (`b2`, `b3`, `a2`,
`c3`); no bound on deliveries is needed because heights are bounded by the tree. In
`writer` the ranges shrink with their relations kept: a file is smaller than the offset's
range. Payloads that fill a file begin a new one each. With three file numbers the fourth of them finds a
file that is full, and the fifth call goes on from there, whatever sizes it has; a first payload that does not fit leaves
file 0 empty, so that the number also wraps to an empty file. Size 3 is larger than a file and,
with one more byte, wraps the offset to 0, so that an overfull file is left again. In `files` the block
file holds the genesis block and one small block, so that the fork and repeated deliveries begin
new files, and eight writes are enough for repeated deliveries to come back to the file of the genesis block or one of the
others; the undo files are not filled often enough for that. `MaxCalls` is checked before a delivery, never inside one. In `threads` three
calls are enough for one inside, one waiting and one arriving; batches have up to two operations, on
one key and on both. In `hash` the boundary between one block and two of padding is met
at every remainder of the length. In `codec` members are values that are not written, of one byte, or
of two; lists have up to two elements, since the loops treat every element alike, and undo blocks
meet the never-cleared vectors with more and with fewer inputs than outputs.

**Deadlock** is checked in `once`, where a call is always possible. In the others
the process may have died (`status = "dead"`), met undefined behaviour, read its object (`codec`), or reached
the bound on calls.

**Fairness** is assumed in two runs. In `chain`, `WF_vars(Continue)` of `FairChainSpec`, for
`HandlerReturns`. `Continue` holds the steps inside a call that has begun. They run on
the caller's thread and wait for nothing, so they are taken. In `threads`, weak fairness of
`Proceed(t)` for every thread `t` (`FairOrderlySpec`), for `LockReleased`: a thread inside the lock waits for nothing and is
scheduled. A thread waiting for the lock is promised nothing: `std::mutex` is not fair, and
weak fairness of its step does not let it in. No fairness is assumed of deliveries and calls.

**Mutants.** A definition commented "Mutant" is a faulty variant of the definition
after it: a forgotten reset, an off-by-one, a dropped test. No specification uses
one. PROJECT.json pairs every property that holds with a variant under which TLC finds it
violated, so that none of them holds only by the shape of the model.

**Violations.** Each of the four states something the repository says and the code does
not do; PROJECT.json quotes the lines. What is left of the broken promises is stated as
properties that hold: `OneHome` and the refinement for callers that see to what the code does not
(`double_spend`), `LedgerFollowsChainUntilTakeover` and `AtMostOneTakeover` (`ledger`), `ReadsBack` in
one process (`writer_restart`), `PaddingFollowsStandard` (`hash_twice`).

The model also shows, in behaviours that the properties of `writer` exempt, what a wrapped file number does.
After 65,536 files in one process `_current_block_file_number` is back at a file that was filled, chain_writer.cpp:77 has set the offset
to 0, and `fopen(.., "ab")` appends behind what is there: the location of the new block shows bytes of an old one, and the file grows
beyond its maximal size. Without `reused[k]` in their preconditions, TLC finds `ReadsBack`, `NeverBehind` and `FilesBounded`
violated in `writer`, and `RecordsLeadToBlocks` and `AnswersAreChains` in `files`. The undo files (line 112) do the same.

In behaviours that the properties of `chain` allow it shows how a takeover ends the process:
a fork whose first parent is unknown is longer than the active chain and the null block of chain.cpp:132 is
dereferenced, or an active block that was delivered again has the dummy undo location, and
the loops of coin_database.cpp:201 read the missing first entry of what it yields (`OvertakeDies`, `UndoIsFatal`).

## Proofs

*Coin database.* `CoinInv` (types, `CacheWithinCapacity`, `NoCoinFromNothing`,
`MempoolWithinCapacity`, both maps finite) is inductive as it stands: the counter bound
gives `Cardinality(main_cache) <= main_cache_size` through every insert and erase, and
for every coin a step that adds a copy also counts a creation, while a flush moves a
copy from the cache to a record. `CoinDatabase_proofs` has one lemma per action, so that any
caller's specification can be assembled from them; `CoinClient_proofs` has the theorems, for arbitrary callers and any `TxHash`.

*Chain.* `ChainInv` adds that no record is higher than the chain is long
(`HeightsWithinLength`), that a record is filed under its block's hash, and what holds
before the genesis block has been recorded. It is proved without any assumption on hashes. It is what
makes `std::mismatch` safe to call.

*Heights.* `TipHeight`, `HeightsBelowParents`, `HeightsNeverDrop` and `TipAdvances` need that
blocks with equal hashes have equal parents (`CollisionFree`), stated as a
hypothesis of each theorem because the code's hash, a sum of 32 bytes, does not guarantee
it. `HeightInv` keeps every record at most one above its parent, so recording a
block again cannot lower it; the tip therefore stays at least as high as the
chain is long, and `ChainInv` bounds it from above.

*Paths.* `ActiveChainRooted` and `AtMostOneTakeover` are about paths of any length, and need the same hypothesis.
`PathTo` is a recursive function; what it computes is proved by induction from the least counterexample
(`LeastNumber`, from the library's well-founded induction on `Nat`): it is the one path whose
elements are each other's recorded parents (`PathSteps`, `PathUnique`). `RootInv` then keeps such a path from
the genesis block to the tip, with heights that count up by one, through every step. A fork that overtakes without ending the
process shares the genesis block with the active chain (`ForkMeetsGenesis`), is one block longer, and no block
is more than one above its parent: its heights leave no gap (`FullHeight`). Its last block is recorded without an undo block, `RootInv`
remembers that one block of the path is such a block, and the next fork that overtakes would have to read it.

*Careful callers.* `OnceInv` looks ahead. While a block is being stored, every input that the walk has
still to come to names a coin that is there, no two name the same one, and none of the outputs still
to come has ever been created. So a spend always finds its coin (`SpendTakesOne`), an output is always new (`AddMakesOne`), and
every other step moves no coin (`Still`). `CoinClient_proofs` gets `OneHome`, `NeverDies` and the refinement of `TxoLedger` from it, for
any cache size, any blocks and any number of failed validations in between.

*Ledger.* `LedgerFollowsChainUntilTakeover` and `MempoolUnconfirmed` (`Chain_proofs`, at its end) are where the coin database, the
mempool and the chain meet. They need more than `CollisionFree`, and the hypotheses say
what the chain trusts the rest of the system with: no two blocks and no two transactions share a hash (`HashesDistinct`); no block
names a coin twice or has more outputs than an index can count, and a transaction without inputs is in one place of one block
only (`SoundBlocks`). Nothing in the repository tests a block for that. The properties alone are not inductive, since the walk
adds and spends coins one at a time while the chain does not yet count the block. `LedgerInv` therefore keeps `OnceInv`, and accounts
for every coin (`Accounted`): it has been added or the walk has still to add it if and only if a transaction of
the active chain, or of the block that is joining it, makes it; the same of spending. Nothing joins twice: a block
that extends the tip is not on the active path (`OnTipIsNew`), and a transaction that validation passes has an input whose
coin is still there, hence is on no block of it (`ValidHasNotJoined`).
Before a takeover that is all there is to show; after one it is false, which is the run `ledger`.

*Writer.* `WriterInv` says where the writer stands in its current file (`Stands`): at the file's end; no
nearer than that if a write was cut short; anywhere up to the maximal size if the file has been used again;
anywhere if a payload was too large. Every location in an intact file (`Intact`) covers its payload's bytes.
It is proved for `FreshSpec`, with short writes, failing `fopen`, payloads of any size, and any number of calls, wraps
included: the step to a new file finds it empty or adds it to `reused` (`Chosen`), which files never leave (`Marked`); the step within one
needs that the remainder is not negative, which `Stands` gives. Without a fresh directory, `writer_restart` shows what goes wrong.

*Chain on its files.* `ChainFiles_proofs` first maps every step of `ChainFiles` to a step of `Chain` or to the end of
the process (`StepsOfTheChain`), so that `ChainInv` and `PathInv` hold there too, and every write to a step of `ChainWriter`,
so that `WriterInv` does. `Linked` joins the two: the locations of a record are those which the writer handed out for its block and
undo block (`Located`), and what an open call has been handed so far is of the block it is storing (`Handed`). That
is needed because between the two writes of one call the first location is in no record yet. With `Fits` (no payload is
larger than a file) every handed-out location in a file that was not used again stays readable, hence `RecordsLeadToBlocks`. `AnswersAreChains` adds that
the blocks are filed on a path (`BlocksDistinct`): what is read for a height is the path's block of that height.
`NoCoinWithoutBlock` has an invariant of its own, `Sourced`: a coin's transaction is in a recorded block or in the block that is joining. The coins of
a block are stored before its files are written; it holds because a file that cannot be opened ends the process.

*Database.* `DatabaseInv` ties the mutex to the one thread that runs a locking call, and holds for
any mixture of calls up to a race. For orderly callers the invariant adds that a thread without
the lock is alone, hence nothing races. Both are proved for any threads, keys and batches.
`DatabaseIsAtomic` is the refinement of `AtomicMap`: `Call` is its `Invoke`, `Enter` its `TakeEffect`, `Leave` its `Respond`, and
the beginning and the end of an operation are stutters. The abstract map is, while a call is under way, what the store will be
when it has ended (`MapToBe`), and its answers are those it has and those it will get. A stutter
must therefore show that doing the first operation now and the rest later comes to the same as doing all later (`AfterHead`, `AnswersStay`), for
which `CallsInv` says what a call is made of: writes only, reads only, or a single operation. A batch that
mixed reads and writes would answer from the middle of itself, and none of the code's calls does.

*Hash.* `HashInv` says what has been copied: the transformed blocks and the buffer's filled part are the message so far,
whatever the rest of the buffer holds. `PaddingCorrect` then follows for messages of any length and for any
block and length size, by cases on whether the length still fits into the last block. `HashTypes` bounds the block's index, the
length counter and the sum from the same invariant, under `DigestIsNumber`: what the unmodelled rounds yield is a number.

*Codecs.* All six properties are proved for every object whose members have
their types, with vectors of any length and numbers of any size. `CodecInv` is a small
invariant; the work is in what the functions yield. Sizes first: `Sum` and `FlattenSeq` are characterized by their partial
results (`SumIs`, `FlattenIs`, from the least counterexample as in *Paths*), and every writer `Writes` as
many bytes as its size says, up through the messages.
Then reading. `VarintRead` says that a varint that begins at some place of a buffer, whatever is around it, reads as the number that was
written. `At` says that some iteration has come to a place in the buffer, with so much of a message and these callers, and not too
late: it has made at most one iteration per byte, less one for each caller that still has to return. A message `Parses` from some bytes if
wherever they are in a buffer, and however deep the call is, a cleared message becomes that message over them. This is proved
field by field (`ReadAs`: the members in a set are read, `Partly` is what the message is then) and from the
inside out, so that a submessage's result is a lemma for the message around it. `ParsedAlone` and `ParsedTerminated` apply it to the whole
buffer and to one where the terminating zero and anything else follow. `ToP...` and `To...` are
inverse of each other on objects with the members' types (`TransactionConverted` and its like).
Last, buffers that are cut short, for `CutKeepsPrefix` and `CutUndoBlock`, anywhere, in the middle of a varint too. `Left` says that some
iteration, in time for all callers to return, reads nothing more, having failed or come to the buffer's end. `CutParses` gives each message the set of all it can then be read
as: what was read of the members before, and of one member a value it can be cut to (`CutField`). That is
any number for a number, any list of numbers for a packed list, and for a list of messages its first ones
and a cut one (`MessagesCut`), which the callers that wait for it still append (`LeftByAll`). `CutOf` is what the properties need to
know of every element of the set; `MembersOrCut` carries it from member to member along with `ReadAs`, and `ParsedCut` applies it to the whole buffer.

*Assumptions.* `CapacityAssumption`, `TransactionAssumption`, `ClientAssumption`,
`BlockAssumption`, `GenesisAssumption`, `WriterAssumption`, `FilesAssumption`, `DatabaseAssumption`,
`BatchAssumption`, `HashAssumption` and `CodecAssumption` type the constants; TLC evaluates each of them. The hypotheses of single theorems
are stated with those theorems; TLC evaluates those of the chain, the ledger and the files too (`MCHypotheses` in `MCChain` and `MCChainFiles`), so
that the instances it checks are ones the theorems speak of.

*Model-checked only.* Liveness (`HandlerReturns`, `LockReleased`): fairness and ENABLED are beyond the prover.

## Not modelled

- The 64 rounds of SHA-256: arithmetic on words without control, one function here.
- Of the generated messages: `MergeFrom`, `CopyFrom`, `Swap`, arenas, reflection, and the
  fields' accessors, which the program either never reaches or which only copy.
- Constructors of the data classes and `Block::get_transactions`, which copies inputs and outputs
  and drops version and lock time: `Chain`'s transactions are what it returns.
- The over-read of `UndoBlock::serialize` beyond "other heap memory or the end of the process".
- A read error in the middle of a file, and a data directory changed by others.
- Restarts under `Chain`: the writer's locations are wrong after one (`writer_restart`), and
  everything else the process kept is gone.
- `Chain` after a file has been used again: its locations lead to other blocks' bytes, and what the
  codecs make of those is `codec`'s question.
- Hashes that differ from call to call. In `Chain` and the modules on it a block and a transaction have one hash each,
  as the code takes for granted; `hash_twice` shows that the uninitialised sum does not give them one. Blocks and
  transactions that share a hash are modelled.
- Liveness of deliveries and of threads that wait for the mutex: nothing in the code promises any.
- The tests: read as statements of what is expected, and quoted where the code disagrees.
