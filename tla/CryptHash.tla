------------------------------ MODULE CryptHash -----------------------------
(***************************************************************************)
(* CryptCrypto::hash (core/src/crypto): a message copied byte by byte into *)
(* a block, full blocks transformed into the state, the rest padded, and   *)
(* the 32 bytes of the state added up.                                     *)
(*                                                                         *)
(* What transform computes is left out: the state is the sequence of all   *)
(* bytes it was given.  Two things are not initialised by the code, the    *)
(* block and the sum.  A byte of the block that was never written is       *)
(* Garbage; the sum starts from any value of Leftover.                     *)
(***************************************************************************)
EXTENDS Integers, Sequences

CONSTANTS
  Message,    \* the messages hashed: sequences of bytes
  BlockLen,   \* 64
  LengthLen,  \* the bytes that hold the message's length: 8
  Digest(_),  \* the sum of the bytes of the state after these blocks
  Leftover,   \* what the uninitialised hashd may hold
  WordRange,  \* hashd is a uint32_t: 2^32
  Garbage,    \* a byte nobody has written
  MaxCalls    \* bound: so many calls at most

Byte == 0 .. 255

ASSUME HashAssumption ==
  /\ LengthLen \in Nat \ {0} /\ BlockLen \in Nat /\ BlockLen > LengthLen
  /\ Message \subseteq Seq(Byte) /\ Garbage \notin Byte
  /\ WordRange \in Nat \ {0} /\ Leftover \subseteq 0 .. WordRange - 1
  /\ MaxCalls \in Nat

VARIABLES
  pc,          \* "outside", "reading", "padding", "summing"
  message, i,  \* the message, and how much of it has been read
  m_state,     \* the bytes transformed so far
  m_data, m_blocklen,
  m_bitlen,    \* the bits transformed so far, which is a count of blocks
  results,     \* history: the messages hashed, each with the value returned
  calls        \* history: the calls made

hashVars == <<pc, message, i, m_state, m_data, m_blocklen, m_bitlen, results, calls>>

Boundary == BlockLen - LengthLen  \* 56

HashInit ==
  /\ pc = "outside" /\ message \in Message /\ i = 0
  /\ m_state = <<>> /\ m_data = [k \in 1 .. BlockLen |-> Garbage]
  /\ m_blocklen = 0 /\ m_bitlen = 0 /\ results = {} /\ calls = 0

hash(m) ==
  /\ pc = "outside" /\ calls < MaxCalls
  /\ pc' = "reading" /\ message' = m /\ i' = 0 /\ calls' = calls + 1
  /\ m_state' = <<>> /\ m_data' = [k \in 1 .. BlockLen |-> Garbage]
  /\ m_blocklen' = 0 /\ m_bitlen' = 0
  /\ UNCHANGED results

\* m_data[m_blocklen++] = data[i], and the transformation of a block when full.
Copied == [m_data EXCEPT ![m_blocklen + 1] = message[i + 1]]

\* Mutant: the index is not reset after a full block.
CopyOnwards ==
  /\ pc = "reading" /\ i < Len(message)
  /\ m_data' = Copied /\ i' = i + 1 /\ m_blocklen' = m_blocklen + 1
  /\ UNCHANGED <<pc, message, m_state, m_bitlen, results, calls>>

CopyByte ==
  /\ pc = "reading" /\ i < Len(message)
  /\ m_data' = Copied /\ i' = i + 1
  /\ \/ /\ m_blocklen + 1 = BlockLen
        /\ m_state' = m_state \o Copied
        /\ m_bitlen' = m_bitlen + 8 * BlockLen /\ m_blocklen' = 0
     \/ /\ m_blocklen + 1 < BlockLen
        /\ m_blocklen' = m_blocklen + 1 /\ UNCHANGED <<m_state, m_bitlen>>
  /\ UNCHANGED <<pc, message, results, calls>>

EndOfMessage ==
  /\ pc = "reading" /\ i = Len(message)
  /\ pc' = "padding"
  /\ UNCHANGED <<message, i, m_state, m_data, m_blocklen, m_bitlen, results, calls>>

\* The length as a big-endian number of LengthLen bytes; higher bits are cut.
LengthBytes(bits) ==
  [k \in 1 .. LengthLen |-> (bits \div 256 ^ (LengthLen - k)) % 256]

\* The block with 0x80 and zeros from the end of the message up to a position.
Closed(end) ==
  [k \in 1 .. BlockLen |->
    IF k = m_blocklen + 1 THEN 128
    ELSE IF k \in m_blocklen + 2 .. end THEN 0 ELSE m_data[k]]

WithLength(data) ==
  [k \in 1 .. BlockLen |->
    IF k <= Boundary THEN data[k]
    ELSE LengthBytes(m_bitlen + m_blocklen * 8)[k - Boundary]]

\* Mutant: one byte more is taken to fit before the length.
PaddedBeyondBoundary ==
  \/ m_blocklen <= Boundary /\ m_state' = m_state \o WithLength(Closed(Boundary))
  \/ /\ m_blocklen > Boundary
     /\ m_state' = m_state \o Closed(BlockLen) \o WithLength([k \in 1 .. BlockLen |-> 0])

\* Where 0x80 and the length fit behind the message one block is transformed,
\* otherwise two, the second one of zeros and the length.
Padded ==
  \/ m_blocklen < Boundary /\ m_state' = m_state \o WithLength(Closed(Boundary))
  \/ /\ m_blocklen >= Boundary
     /\ m_state' = m_state \o Closed(BlockLen) \o WithLength([k \in 1 .. BlockLen |-> 0])

pad ==
  /\ pc = "padding" /\ Padded
  /\ pc' = "summing"
  /\ UNCHANGED <<message, i, m_data, m_blocklen, m_bitlen, results, calls>>

\* revert, and the sum of its bytes on top of whatever hashd held.
Sum ==
  /\ pc = "summing" /\ pc' = "outside"
  /\ \E hashd \in Leftover :
       results' = results \cup {<<message, (hashd + Digest(m_state)) % WordRange>>}
  /\ UNCHANGED <<message, i, m_state, m_data, m_blocklen, m_bitlen, calls>>

HashNext ==
  (\E m \in Message : hash(m)) \/ CopyByte \/ EndOfMessage \/ pad \/ Sum

HashSpec == HashInit /\ [][HashNext]_hashVars

-----------------------------------------------------------------------------
(* Properties. *)

\* The block's index stays in the block, also for the byte that pad appends, and
\* nothing is left of a block that has just been transformed.
HashTypeOK ==
  /\ pc \in {"outside", "reading", "padding", "summing"}
  /\ message \in Message /\ i \in 0 .. Len(message)
  /\ m_data \in [1 .. BlockLen -> Byte \cup {Garbage}]
  /\ m_state \in Seq(Byte \cup {Garbage})
  /\ m_blocklen \in 0 .. BlockLen - 1 /\ m_bitlen \in Nat
  /\ results \subseteq Message \X (0 .. WordRange - 1) /\ calls \in Nat

\* FIPS 180-4, 5.1.1, in bytes: the message, 0x80, the fewest zeros that make
\* whole blocks, and the message's length in bits.
FollowsStandard(s, m) ==
  LET end == Len(s) - LengthLen IN
  /\ Len(s) % BlockLen = 0
  /\ end \in Len(m) + 1 .. Len(m) + BlockLen
  /\ \A k \in 1 .. Len(m) : s[k] = m[k]
  /\ s[Len(m) + 1] = 128
  /\ \A k \in Len(m) + 2 .. end : s[k] = 0
  /\ \A k \in 1 .. LengthLen : s[end + k] = LengthBytes(8 * Len(m))[k]

\* What is transformed is the padded message, for lengths on either side of
\* every boundary: no byte twice, none missing, none that was never written.
PaddingFollowsStandard == pc = "summing" => FollowsStandard(m_state, message)

\* src/test/crypto/crypto_tests.cpp:7 expects equal hashes of equal messages.
HashDeterministic ==
  \A r, s \in results : r[1] = s[1] => r[2] = s[2]

=============================================================================
