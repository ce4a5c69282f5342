-------------------------- MODULE CryptHash_proofs --------------------------
(***************************************************************************)
(* CryptHash transforms exactly the padded message, for every length of    *)
(* message, block and length field: 64 and 8 bytes are one instance.  And  *)
(* the buffer always has room for the byte that pad appends.               *)
(***************************************************************************)
EXTENDS CryptHash, SequenceTheorems, TLAPS

\* So many bytes make whole blocks.
Whole(n) == n % BlockLen = 0

\* Whole blocks have been transformed, and they and the block that is being
\* filled hold the part of the message that has been read.
Consumed ==
  /\ i \in 0 .. Len(message) /\ i = Len(m_state) + m_blocklen
  /\ \A k \in 1 .. Len(m_state) : m_state[k] = message[k]
  /\ \A k \in 1 .. m_blocklen : m_data[k] = message[Len(m_state) + k]
  /\ Whole(Len(m_state)) /\ m_bitlen = 8 * Len(m_state)

HashInv ==
  /\ pc \in {"outside", "reading", "padding", "summing"}
  /\ message \in Seq(Byte)
  /\ m_data \in [1 .. BlockLen -> Byte \cup {Garbage}]
  /\ m_blocklen \in 0 .. BlockLen - 1 /\ m_bitlen \in Nat
  /\ pc \in {"reading", "padding"} => Consumed /\ m_state \in Seq(Byte \cup {Garbage})
  /\ pc = "padding" => i = Len(message)
  /\ PaddingFollowsStandard

LEMMA Constants ==
  /\ BlockLen \in Nat \ {0} /\ LengthLen \in Nat \ {0} /\ Boundary \in 1 .. BlockLen - 1
  /\ Boundary + LengthLen = BlockLen
BY HashAssumption DEF Boundary

LEMMA MultipleMod == ASSUME NEW q \in Nat, NEW m \in Nat \ {0} PROVE (m * q) % m = 0
OBVIOUS

LEMMA NextMultiple ==
  ASSUME NEW n \in Nat, NEW m \in Nat \ {0}, n % m = 0
  PROVE  (n + m) % m = 0
<1> DEFINE q == n \div m
<1>1. n = m * q + (n % m) /\ q \in Nat
  OBVIOUS
<1> HIDE DEF q
<1>2. n = m * q /\ q + 1 \in Nat
  BY <1>1
<1>3. n + m = m * (q + 1)
  BY <1>1, <1>2
<1>4. (m * (q + 1)) % m = 0
  BY <1>2, MultipleMod
<1>5. QED
  BY <1>3, <1>4

LEMMA NextWhole == ASSUME NEW n \in Nat, Whole(n) PROVE Whole(n + BlockLen)
BY Constants, NextMultiple DEF Whole

LEMMA InitHash == HashInit => HashInv
BY HashAssumption, Constants DEF HashInit, HashInv, PaddingFollowsStandard

LEMMA CallHash == ASSUME NEW m \in Message, hash(m) PROVE HashInv'
<1>1. Len(m) \in Nat /\ m \in Seq(Byte)
  BY HashAssumption
<1>2. Whole(0)
  BY Constants DEF Whole
<1>3. Len(m_state') = 0 /\ m_state' \in Seq(Byte \cup {Garbage})
  BY DEF hash
<1>4. Consumed'
  BY <1>1, <1>2, <1>3 DEF hash, Consumed
<1>5. QED
  BY <1>1, <1>3, <1>4, Constants DEF hash, HashInv, PaddingFollowsStandard

LEMMA CopyHash == ASSUME HashInv, CopyByte PROVE HashInv'
<1> DEFINE S == Byte \cup {Garbage}
<1>1. /\ Consumed /\ i \in 0 .. Len(message) - 1 /\ message \in Seq(Byte)
      /\ Len(m_state) \in Nat /\ m_blocklen \in 0 .. BlockLen - 1
      /\ m_state \in Seq(S) /\ m_data \in [1 .. BlockLen -> S]
  BY DEF HashInv, CopyByte, Consumed
<1>2. message[i + 1] \in Byte
  BY <1>1
<1>3. /\ Copied \in [1 .. BlockLen -> S]
      /\ Copied[m_blocklen + 1] = message[i + 1]
      /\ \A k \in 1 .. m_blocklen : Copied[k] = m_data[k]
  BY <1>1, <1>2, Constants DEF Copied
<1> HIDE DEF S
<1>4. \A k \in 1 .. m_blocklen + 1 : Copied[k] = message[Len(m_state) + k]
  <2> TAKE k \in 1 .. m_blocklen + 1
  <2>1. CASE k = m_blocklen + 1
    <3>1. i + 1 = Len(m_state) + k
      BY <2>1, <1>1 DEF Consumed
    <3>2. QED
      BY <3>1, <2>1, <1>3
  <2>2. CASE k \in 1 .. m_blocklen
    BY <2>2, <1>1, <1>3 DEF Consumed
  <2>3. QED
    BY <2>1, <2>2, <1>1
<1>5. CASE m_blocklen + 1 = BlockLen
  <2>1. m_state' = m_state \o Copied /\ m_bitlen' = m_bitlen + 8 * BlockLen /\ m_blocklen' = 0
    BY <1>5, <1>1, Constants DEF CopyByte
  <2>2. Copied \in Seq(S) /\ Len(Copied) = BlockLen
    BY <1>3, Constants
  <2>3. /\ m_state' \in Seq(S) /\ Len(m_state') = Len(m_state) + BlockLen
        /\ \A k \in 1 .. Len(m_state) + BlockLen :
             m_state'[k] = IF k <= Len(m_state) THEN m_state[k] ELSE Copied[k - Len(m_state)]
    BY <2>1, <2>2, <1>1
  <2>4. \A k \in 1 .. Len(m_state') : m_state'[k] = message[k]
    <3> TAKE k \in 1 .. Len(m_state')
    <3>1. CASE k <= Len(m_state)
      <4>1. k \in 1 .. Len(m_state) /\ k \in 1 .. Len(m_state) + BlockLen
        BY <3>1, <2>3, <1>1
      <4>2. m_state[k] = message[k]
        BY <4>1, <1>1 DEF Consumed
      <4> QED BY <3>1, <4>1, <4>2, <2>3
    <3>2. CASE k > Len(m_state)
      <4>1. k - Len(m_state) \in 1 .. m_blocklen + 1 /\ Len(m_state) + (k - Len(m_state)) = k
        BY <3>2, <2>3, <1>1, <1>5
      <4>2. QED
        BY <4>1, <3>2, <2>3, <1>4
    <3>3. QED
      BY <3>1, <3>2, <1>1
  <2>5. Whole(Len(m_state'))
    BY <2>3, <1>1, NextWhole DEF Consumed
  <2>6. /\ i' = i + 1 /\ message' = message /\ pc' = "reading" /\ m_data' = Copied
        /\ m_bitlen \in Nat
    BY DEF CopyByte, HashInv
  <2>7. Consumed'
    <3>1. i' \in 0 .. Len(message)' /\ i' = Len(m_state)' + m_blocklen'
      <4>1. i = Len(m_state) + m_blocklen
        BY <1>1 DEF Consumed
      <4> QED BY <2>1, <2>3, <2>6, <4>1, <1>1, <1>5
    <3>2. m_bitlen' = 8 * Len(m_state)'
      BY <2>1, <2>3, <1>1, Constants DEF Consumed
    <3>3. 1 .. m_blocklen' = {}
      BY <2>1
    <3>4. QED
      BY <3>1, <3>2, <3>3, <2>4, <2>5, <2>6 DEF Consumed
  <2>8. QED
    BY <2>1, <2>3, <2>6, <2>7, <1>1, <1>3, Constants DEF HashInv, PaddingFollowsStandard, S
<1>6. CASE m_blocklen + 1 < BlockLen
  <2>1. /\ m_blocklen' = m_blocklen + 1 /\ m_state' = m_state /\ m_bitlen' = m_bitlen
        /\ i' = i + 1 /\ message' = message /\ pc' = "reading" /\ m_data' = Copied
    BY <1>6, <1>1, Constants DEF CopyByte, HashInv
  <2>2. Consumed'
    <3>1. i' \in 0 .. Len(message)' /\ i' = Len(m_state)' + m_blocklen'
      BY <2>1, <1>1 DEF Consumed
    <3>2. QED
      <4>1. \A k \in 1 .. Len(m_state)' : m_state'[k] = message'[k]
        BY <2>1, <1>1 DEF Consumed
      <4>2. \A k \in 1 .. m_blocklen' : m_data'[k] = message'[Len(m_state') + k]
        BY <2>1, <1>4
      <4>3. Whole(Len(m_state'))  /\ m_bitlen' = 8 * Len(m_state')
        BY <2>1, <1>1 DEF Consumed
      <4>4. QED
        BY <3>1, <4>1, <4>2, <4>3 DEF Consumed
  <2>3. QED
    <3>1. m_blocklen' \in 0 .. BlockLen - 1
      BY <2>1, <1>1, <1>6, Constants
    <3>2. m_bitlen \in Nat
      BY DEF HashInv
    <3>3. QED
      BY <3>1, <3>2, <2>1, <2>2, <1>1, <1>3 DEF HashInv, PaddingFollowsStandard, S
<1>7. QED
  BY <1>1, <1>5, <1>6, Constants

\* What the two kinds of padded block hold.
LEMMA ClosedBytes ==
  ASSUME m_blocklen \in 0 .. BlockLen - 1, NEW end \in m_blocklen + 1 .. BlockLen
  PROVE  /\ \A k \in 1 .. m_blocklen : Closed(end)[k] = m_data[k]
         /\ Closed(end)[m_blocklen + 1] = 128
         /\ \A k \in m_blocklen + 2 .. end : Closed(end)[k] = 0
BY Constants DEF Closed

LEMMA WithLengthBytes ==
  ASSUME NEW data
  PROVE  /\ \A k \in 1 .. Boundary : WithLength(data)[k] = data[k]
         /\ \A k \in 1 .. LengthLen :
              WithLength(data)[Boundary + k] = LengthBytes(m_bitlen + m_blocklen * 8)[k]
<1>1. \A k \in 1 .. Boundary :
        k \in 1 .. BlockLen /\ k <= Boundary
  BY Constants
<1>2. \A k \in 1 .. LengthLen :
        /\ Boundary + k \in 1 .. BlockLen /\ ~(Boundary + k <= Boundary)
        /\ (Boundary + k) - Boundary = k
  BY Constants
<1>3. QED
  BY <1>1, <1>2 DEF WithLength

LEMMA PadHash == ASSUME HashInv, pad PROVE FollowsStandard(m_state', message')
<1> DEFINE n == Len(m_state)
           L == LengthBytes(8 * Len(message))
           c == Closed(BlockLen)
           zero == [k \in 1 .. BlockLen |-> 0]
<1>1. /\ Consumed /\ message \in Seq(Byte) /\ message' = message
      /\ n \in Nat /\ m_blocklen \in 0 .. BlockLen - 1
      /\ Len(message) = n + m_blocklen /\ Whole(n)
  BY DEF HashInv, pad, Consumed
<1>2. /\ \A k \in 1 .. n : m_state[k] = message[k]
      /\ \A k \in 1 .. m_blocklen : m_data[k] = message[n + k]
  BY <1>1 DEF Consumed
<1>3. LengthBytes(m_bitlen + m_blocklen * 8) = L
  <2>1. m_bitlen + m_blocklen * 8 = 8 * Len(message)
    BY <1>1 DEF Consumed
  <2>2. QED
    BY <2>1
<1> DEFINE S == {m_state[k] : k \in 1 .. n} \cup {c[k] : k \in 1 .. BlockLen} \cup
                {WithLength(Closed(Boundary))[k] : k \in 1 .. BlockLen} \cup
                {WithLength(zero)[k] : k \in 1 .. BlockLen}
<1>4. /\ m_state \in Seq(S)
      /\ WithLength(Closed(Boundary)) \in Seq(S) /\ Len(WithLength(Closed(Boundary))) = BlockLen
      /\ c \in Seq(S) /\ Len(c) = BlockLen
      /\ WithLength(zero) \in Seq(S) /\ Len(WithLength(zero)) = BlockLen
  <2>1. m_state \in [1 .. n -> S]
    BY <1>1 DEF HashInv, pad
  <2>2. c \in [1 .. BlockLen -> S]
    BY DEF Closed
  <2>3. /\ WithLength(Closed(Boundary)) \in [1 .. BlockLen -> S]
        /\ WithLength(zero) \in [1 .. BlockLen -> S]
    BY DEF WithLength
  <2> DEFINE w1 == WithLength(Closed(Boundary))
             w2 == WithLength(zero)
  <2> HIDE DEF S, c, n, w1, w2
  <2>4. \A w : w \in [1 .. BlockLen -> S] => w \in Seq(S) /\ Len(w) = BlockLen
    BY Constants
  <2>5. m_state \in Seq(S)
    BY <1>1, <2>1
  <2>6. /\ w1 \in Seq(S) /\ Len(w1) = BlockLen
        /\ w2 \in Seq(S) /\ Len(w2) = BlockLen
        /\ c \in Seq(S) /\ Len(c) = BlockLen
    BY <2>2, <2>3, <2>4 DEF w1, w2
  <2>7. QED
    BY <2>5, <2>6 DEF w1, w2
<1> HIDE DEF S, L, n
<1>5. CASE m_blocklen < Boundary
  <2> DEFINE w == WithLength(Closed(Boundary))
             t == m_state \o w
  <2>1. m_state' = t
    BY <1>5, <1>1, Constants DEF pad, Padded
  <2>2. /\ \A k \in 1 .. m_blocklen : w[k] = message[n + k]
        /\ w[m_blocklen + 1] = 128
        /\ \A k \in m_blocklen + 2 .. Boundary : w[k] = 0
        /\ \A k \in 1 .. LengthLen : w[Boundary + k] = L[k]
    <3>1. /\ \A k \in 1 .. m_blocklen : Closed(Boundary)[k] = m_data[k]
          /\ Closed(Boundary)[m_blocklen + 1] = 128
          /\ \A k \in m_blocklen + 2 .. Boundary : Closed(Boundary)[k] = 0
      BY <1>1, <1>5, Constants, ClosedBytes
    <3>2. /\ \A k \in 1 .. Boundary : w[k] = Closed(Boundary)[k]
          /\ \A k \in 1 .. LengthLen : w[Boundary + k] = L[k]
      BY <1>3, WithLengthBytes
    <3> HIDE DEF w
    <3>3. QED
      BY <3>1, <3>2, <1>1, <1>2, <1>5, Constants
  <2>3. /\ Len(t) = n + BlockLen
        /\ \A k \in 1 .. n : t[k] = m_state[k]
        /\ \A k \in 1 .. BlockLen : t[n + k] = w[k]
    <3>1. /\ w \in Seq(S) /\ Len(w) = BlockLen /\ m_state \in Seq(S) /\ Len(m_state) = n
          /\ n \in Nat /\ BlockLen \in Nat
      BY <1>1, <1>4, Constants DEF n
    <3> HIDE DEF w
    <3>2. QED
      BY <3>1
  <2> HIDE DEF t, w
  <2> DEFINE end == n + Boundary
  <2>4. end = Len(t) - LengthLen /\ end \in Len(message) + 1 .. Len(message) + BlockLen
    BY <2>3, <1>1, <1>5, Constants
  <2>5. Len(t) % BlockLen = 0
    BY <2>3, <1>1, NextWhole DEF Whole
  <2>6. \A k \in 1 .. Len(message) : t[k] = message[k]
    <3> TAKE k \in 1 .. Len(message)
    <3>1. CASE k \in 1 .. n
      BY <3>1, <2>3, <1>2
    <3>2. CASE k \notin 1 .. n
      <4>1. k - n \in 1 .. m_blocklen /\ k - n \in 1 .. BlockLen /\ n + (k - n) = k
        BY <3>2, <1>1, Constants
      <4>2. QED
        BY <4>1, <2>2, <2>3
    <3>3. QED
      BY <3>1, <3>2
  <2>7. t[Len(message) + 1] = 128
    <3>1. m_blocklen + 1 \in 1 .. BlockLen /\ Len(message) + 1 = n + (m_blocklen + 1)
      BY <1>1, Constants
    <3>2. QED
      BY <3>1, <2>2, <2>3
  <2>8. \A k \in Len(message) + 2 .. end : t[k] = 0
    <3> TAKE k \in Len(message) + 2 .. end
    <3>1. k - n \in m_blocklen + 2 .. Boundary /\ k - n \in 1 .. BlockLen /\ n + (k - n) = k
      BY <1>1, Constants
    <3>2. QED
      BY <3>1, <2>2, <2>3
  <2>9. \A k \in 1 .. LengthLen : t[end + k] = L[k]
    <3> TAKE k \in 1 .. LengthLen
    <3>1. Boundary + k \in 1 .. BlockLen /\ end + k = n + (Boundary + k)
      BY <1>1, Constants
    <3>2. QED
      BY <3>1, <2>2, <2>3
  <2>10. QED
    BY <2>1, <2>4, <2>5, <2>6, <2>7, <2>8, <2>9, <1>1 DEF FollowsStandard, L
<1>6. CASE m_blocklen >= Boundary
  <2> DEFINE w == WithLength(zero)
             u == m_state \o c
             t == u \o w
  <2>1. m_state' = t
    <3>1. ~(m_blocklen < Boundary) /\ Padded
      BY <1>6, <1>1, Constants DEF pad
    <3>2. QED
      BY <3>1, Zenon DEF Padded
  <2>2. /\ \A k \in 1 .. m_blocklen : c[k] = message[n + k]
        /\ c[m_blocklen + 1] = 128
        /\ \A k \in m_blocklen + 2 .. BlockLen : c[k] = 0
    BY <1>1, <1>2, Constants, ClosedBytes
  <2>3. /\ \A k \in 1 .. Boundary : w[k] = 0
        /\ \A k \in 1 .. LengthLen : w[Boundary + k] = L[k]
    BY <1>3, WithLengthBytes, Constants
  <2> HIDE DEF c, w
  <2>4. /\ u \in Seq(S) /\ Len(u) = n + BlockLen
        /\ \A k \in 1 .. n : u[k] = m_state[k]
        /\ \A k \in 1 .. BlockLen : u[n + k] = c[k]
    <3>1. /\ c \in Seq(S) /\ Len(c) = BlockLen /\ m_state \in Seq(S) /\ Len(m_state) = n
          /\ n \in Nat /\ BlockLen \in Nat
      BY <1>1, <1>4, Constants DEF c, n
    <3> HIDE DEF c
    <3>2. QED
      BY <3>1
  <2> HIDE DEF u
  <2>5. /\ Len(t) = n + BlockLen + BlockLen
        /\ \A k \in 1 .. n + BlockLen : t[k] = u[k]
        /\ \A k \in 1 .. BlockLen : t[n + BlockLen + k] = w[k]
    <3>1. /\ n + BlockLen \in Nat /\ BlockLen \in Nat
          /\ Len(w) = BlockLen /\ w \in Seq(S) /\ u \in Seq(S) /\ Len(u) = n + BlockLen
      BY <1>1, <1>4, <2>4, Constants DEF w
    <3>2. QED
      BY <3>1
  <2> HIDE DEF t
  <2> DEFINE end == n + BlockLen + Boundary
  <2>6. end = Len(t) - LengthLen /\ end \in Len(message) + 1 .. Len(message) + BlockLen
    BY <2>5, <1>1, <1>6, Constants
  <2>7. Len(t) % BlockLen = 0
    <3>1. Whole(n + BlockLen) /\ n + BlockLen \in Nat
      BY <1>1, Constants, NextWhole
    <3>2. QED
      BY <3>1, <2>5, NextWhole DEF Whole
  <2>8. \A k \in 1 .. BlockLen : n + k \in 1 .. n + BlockLen /\ t[n + k] = c[k]
    <3> TAKE k \in 1 .. BlockLen
    <3>1. n + k \in 1 .. n + BlockLen
      BY <1>1, Constants
    <3>2. QED
      BY <3>1, <2>4, <2>5
  <2>9. \A k \in 1 .. Len(message) : t[k] = message[k]
    <3> TAKE k \in 1 .. Len(message)
    <3>1. CASE k \in 1 .. n
      <4>1. k \in 1 .. n + BlockLen
        BY <3>1, <1>1, Constants
      <4>2. QED
        BY <3>1, <4>1, <2>4, <2>5, <1>2
    <3>2. CASE k \notin 1 .. n
      <4>1. k - n \in 1 .. m_blocklen /\ k - n \in 1 .. BlockLen /\ n + (k - n) = k
        BY <3>2, <1>1, Constants
      <4>2. QED
        BY <4>1, <2>2, <2>8
    <3>3. QED
      BY <3>1, <3>2
  <2>10. t[Len(message) + 1] = 128
    <3>1. m_blocklen + 1 \in 1 .. BlockLen /\ Len(message) + 1 = n + (m_blocklen + 1)
      BY <1>1, Constants
    <3>2. QED
      BY <3>1, <2>2, <2>8
  <2>11. \A k \in Len(message) + 2 .. end : t[k] = 0
    <3> TAKE k \in Len(message) + 2 .. end
    <3>1. CASE k <= n + BlockLen
      <4>1. k - n \in m_blocklen + 2 .. BlockLen /\ k - n \in 1 .. BlockLen /\ n + (k - n) = k
        BY <3>1, <1>1, Constants
      <4>2. QED
        BY <4>1, <2>2, <2>8
    <3>2. CASE ~(k <= n + BlockLen)
      <4> DEFINE j == k - (n + BlockLen)
      <4>1. j \in 1 .. Boundary /\ j \in 1 .. BlockLen /\ n + BlockLen + j = k
        BY <3>2, <1>1, Constants
      <4>2. QED
        BY <4>1, <2>3, <2>5
    <3>3. QED
      BY <3>1, <3>2
  <2>12. \A k \in 1 .. LengthLen : t[end + k] = L[k]
    <3> TAKE k \in 1 .. LengthLen
    <3>1. Boundary + k \in 1 .. BlockLen /\ end + k = n + BlockLen + (Boundary + k)
      BY <1>1, Constants
    <3>2. QED
      BY <3>1, <2>3, <2>5
  <2>13. QED
    BY <2>1, <2>6, <2>7, <2>9, <2>10, <2>11, <2>12, <1>1 DEF FollowsStandard, L
<1>7. QED
  BY <1>5, <1>6, <1>1, Constants

LEMMA NextHash == HashInv /\ [HashNext]_hashVars => HashInv'
<1> SUFFICES ASSUME HashInv, [HashNext]_hashVars PROVE HashInv'
  OBVIOUS
<1>1. CASE \E m \in Message : hash(m)
  BY <1>1, CallHash
<1>2. CASE CopyByte
  BY <1>2, CopyHash
<1>3. CASE EndOfMessage
  BY <1>3 DEF EndOfMessage, HashInv, Consumed, PaddingFollowsStandard
<1>4. CASE pad
  BY <1>4, PadHash DEF pad, HashInv, PaddingFollowsStandard
<1>5. CASE Sum
  BY <1>5 DEF Sum, HashInv, PaddingFollowsStandard
<1>6. CASE UNCHANGED hashVars
  BY <1>6 DEF hashVars, HashInv, Consumed, PaddingFollowsStandard, FollowsStandard
<1>7. QED
  BY <1>1, <1>2, <1>3, <1>4, <1>5, <1>6 DEF HashNext

\* The bytes that are transformed are the message padded as the standard says,
\* for messages of any length: no call reads a byte of the block that it has
\* not written, although the block is never initialised.
THEOREM PaddingCorrect == HashSpec => []PaddingFollowsStandard
<1>1. HashInv => PaddingFollowsStandard
  BY DEF HashInv
<1>2. QED
  BY <1>1, InitHash, NextHash, PTL DEF HashSpec

-----------------------------------------------------------------------------
(* Types. *)

\* The hypothesis: adding up the bytes of the state yields a number.
DigestIsNumber == \A s \in Seq(Byte \cup {Garbage}) : Digest(s) \in Nat

LEMMA LowByte == ASSUME NEW x \in Nat, NEW n \in Nat PROVE (x \div 256 ^ n) % 256 \in 0 .. 255
OBVIOUS

\* The blocks that pad adds.
LEMMA PaddedBlocks ==
  ASSUME m_data \in [1 .. BlockLen -> Byte \cup {Garbage}], m_bitlen \in Nat, m_blocklen \in Nat
  PROVE  /\ \A end \in Int : Closed(end) \in Seq(Byte \cup {Garbage})
         /\ \A data \in Seq(Byte \cup {Garbage}) :
              Len(data) = BlockLen => WithLength(data) \in Seq(Byte \cup {Garbage})
         /\ \A end \in Int : Len(Closed(end)) = BlockLen
<1> DEFINE S == Byte \cup {Garbage}
           bits == m_bitlen + m_blocklen * 8
<1>1. /\ 0 \in S /\ 128 \in S
      /\ \A n \in 0 .. 255 : n \in S
  BY DEF Byte
<1>2. \A end \in Int : Closed(end) \in [1 .. BlockLen -> S]
  BY <1>1 DEF Closed
<1>3. bits \in Nat
  OBVIOUS
<1> HIDE DEF bits
<1>4. ASSUME NEW k \in 1 .. LengthLen
      PROVE  LengthBytes(bits)[k] \in 0 .. 255
  <2>1. LengthLen - k \in Nat
    BY Constants
  <2>2. \A n \in Nat : (bits \div 256 ^ n) % 256 \in 0 .. 255
    BY <1>3, LowByte
  <2> QED BY <2>1, <2>2 DEF LengthBytes
<1> HIDE DEF S
<1>5. ASSUME NEW data \in Seq(S), Len(data) = BlockLen
      PROVE  WithLength(data) \in [1 .. BlockLen -> S]
  <2>1. ASSUME NEW k \in 1 .. BlockLen, k <= Boundary
        PROVE  data[k] \in S
    BY <1>5, <2>1
  <2>2. ASSUME NEW k \in 1 .. BlockLen, ~(k <= Boundary)
        PROVE  LengthBytes(bits)[k - Boundary] \in S
    <3>1. k - Boundary \in 1 .. LengthLen
      BY <2>2, Constants
    <3> QED BY <1>1, <1>4, <3>1
  <2> QED BY <2>1, <2>2 DEF WithLength, bits
<1>6. \A w \in [1 .. BlockLen -> S] : w \in Seq(S) /\ Len(w) = BlockLen
  BY Constants
<1> QED BY <1>2, <1>5, <1>6 DEF S

LEMMA Joined == ASSUME NEW S, NEW s \in Seq(S), NEW t \in Seq(S) PROVE s \o t \in Seq(S)
OBVIOUS

LEMMA PadTypes ==
  ASSUME HashTypeOK, pad
  PROVE  m_state' \in Seq(Byte \cup {Garbage})
<1> DEFINE S == Byte \cup {Garbage}
           c(end) == Closed(end)
           zero == [k \in 1 .. BlockLen |-> 0]
<1>1. /\ m_state \in Seq(S) /\ m_data \in [1 .. BlockLen -> S]
      /\ m_bitlen \in Nat /\ m_blocklen \in Nat /\ Boundary \in Int /\ BlockLen \in Nat
  BY Constants DEF HashTypeOK
<1>2. zero \in Seq(S) /\ Len(zero) = BlockLen
  <2>1. zero \in [1 .. BlockLen -> S]
    BY DEF Byte
  <2> HIDE DEF zero, S
  <2> QED BY <1>1, <2>1
<1>3. /\ c(Boundary) \in Seq(S) /\ c(BlockLen) \in Seq(S)
      /\ WithLength(c(Boundary)) \in Seq(S) /\ WithLength(zero) \in Seq(S)
  <2>1. /\ \A end \in Int : c(end) \in Seq(S) /\ Len(c(end)) = BlockLen
        /\ \A data \in Seq(S) : Len(data) = BlockLen => WithLength(data) \in Seq(S)
    BY <1>1, PaddedBlocks
  <2> HIDE DEF c, S, zero
  <2> QED BY <1>1, <1>2, <2>1
<1>4. \/ m_state' = m_state \o WithLength(c(Boundary))
      \/ m_state' = m_state \o c(BlockLen) \o WithLength(zero)
  BY Zenon DEF pad, Padded
<1> HIDE DEF S, c, zero
<1> DEFINE first == WithLength(c(Boundary))
           second == WithLength(zero)
           whole == m_state \o c(BlockLen)
<1> HIDE DEF first, second
<1>5. /\ whole \in Seq(S) /\ m_state \o first \in Seq(S)
  BY <1>1, <1>3, Joined DEF first
<1> HIDE DEF whole
<1>6. whole \o second \in Seq(S)
  BY <1>3, <1>5, Joined DEF second
<1> QED BY <1>4, <1>5, <1>6 DEF S, whole, first, second

LEMMA HashTypeStep ==
  ASSUME DigestIsNumber, HashInv, HashTypeOK, [HashNext]_hashVars, HashInv'
  PROVE  HashTypeOK'
<1>1. /\ pc' \in {"outside", "reading", "padding", "summing"}
      /\ m_data' \in [1 .. BlockLen -> Byte \cup {Garbage}]
      /\ m_blocklen' \in 0 .. BlockLen - 1 /\ m_bitlen' \in Nat
      /\ pc' \in {"reading", "padding"} => /\ i' \in 0 .. Len(message')
                                           /\ m_state' \in Seq(Byte \cup {Garbage})
  BY DEF HashInv, Consumed
<1>2. ASSUME NEW m \in Message, hash(m)
      PROVE  HashTypeOK'
  <2>1. pc' = "reading" /\ message' = m /\ calls' = calls + 1 /\ results' = results
    BY <1>2 DEF hash
  <2> QED BY <1>1, <2>1 DEF HashTypeOK
<1>3. CASE CopyByte \/ EndOfMessage
  <2>1. pc' \in {"reading", "padding"} /\ UNCHANGED <<message, results, calls>>
    BY <1>3 DEF CopyByte, EndOfMessage
  <2> QED BY <1>1, <2>1 DEF HashTypeOK
<1>4. CASE pad
  <2>1. UNCHANGED <<message, i, results, calls>>
    BY <1>4 DEF pad
  <2> QED BY <1>1, <1>4, <2>1, PadTypes DEF HashTypeOK
<1>5. CASE Sum
  <2>1. PICK hashd \in Leftover :
          results' = results \cup {<<message, (hashd + Digest(m_state)) % WordRange>>}
    BY <1>5 DEF Sum
  <2>2. UNCHANGED <<message, i, m_state, calls>>
    BY <1>5 DEF Sum
  <2>3. (hashd + Digest(m_state)) % WordRange \in 0 .. WordRange - 1
    <3>1. hashd \in Nat /\ Digest(m_state) \in Nat /\ WordRange \in Nat \ {0}
      BY HashAssumption DEF DigestIsNumber, HashTypeOK
    <3> DEFINE sum == hashd + Digest(m_state)
    <3>2. sum \in Nat
      BY <3>1
    <3> HIDE DEF sum
    <3> QED BY <3>1, <3>2 DEF sum
  <2> DEFINE value == (hashd + Digest(m_state)) % WordRange
  <2> HIDE DEF value
  <2>4. results' \subseteq Message \X (0 .. WordRange - 1)
    BY <2>1, <2>3 DEF HashTypeOK, value
  <2> QED BY <1>1, <2>2, <2>4 DEF HashTypeOK
<1>6. CASE UNCHANGED hashVars
  BY <1>6 DEF hashVars, HashTypeOK
<1> QED BY <1>2, <1>3, <1>4, <1>5, <1>6 DEF HashNext

\* hash never indexes beyond its 64-byte block, in the copying loop, in pad or behind the
\* message, and nothing but bytes reaches the state: whatever is hashed.
THEOREM HashTypes ==
  ASSUME DigestIsNumber
  PROVE  HashSpec => []HashTypeOK
<1>1. HashInit => HashTypeOK
  <2> SUFFICES ASSUME HashInit PROVE HashTypeOK
    OBVIOUS
  <2>1. Len(message) \in Nat /\ HashInv
    BY HashAssumption, InitHash DEF HashInit
  <2>2. m_state \in Seq(Byte \cup {Garbage})
    BY DEF HashInit
  <2> QED BY <2>1, <2>2 DEF HashInit, HashInv, HashTypeOK
<1>2. HashInv /\ HashTypeOK /\ [HashNext]_hashVars => HashInv' /\ HashTypeOK'
  BY NextHash, HashTypeStep
<1> QED BY <1>1, <1>2, InitHash, PTL DEF HashSpec

=============================================================================
