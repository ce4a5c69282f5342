---------------------------- MODULE Codec_proofs ----------------------------
(***************************************************************************)
(* What the codecs write is as long as they say, and reads back.           *)
(***************************************************************************)
EXTENDS Codec, SequenceTheorems, NaturalsInduction, WellFoundedInduction, TLAPS

\* A function of 1 .. n is a sequence of n elements.
LEMMA FunctionSeq ==
  ASSUME NEW S, NEW n \in Nat, NEW f \in [1 .. n -> S]
  PROVE  f \in Seq(S) /\ Len(f) = n
OBVIOUS

\* A set of numbers has a least element.
LEMMA LeastNumber ==
  ASSUME NEW S \in SUBSET Nat, S # {}
  PROVE  \E m \in S : \A k \in S : m <= k
<1>1. PICK m \in S : \A k \in S : ~(<<k, m>> \in OpToRel(<, Nat))
  BY NatLessThanWellFounded, WFMin, Zenon
<1>2. \A k \in S : ~(k < m)
  BY <1>1 DEF OpToRel
<1> QED BY <1>2

\* What the first number has, and each hands to the next, every number has.
LEMMA Upwards ==
  ASSUME NEW S, NEW n \in Nat, 0 \in S, \A i \in 0 .. n - 1 : i \in S => i + 1 \in S
  PROVE  \A i \in 0 .. n : i \in S
<1> SUFFICES ASSUME NEW x \in 0 .. n, x \notin S PROVE FALSE
  OBVIOUS
<1> DEFINE T == {i \in 0 .. n : i \notin S}
<1>1. T \in SUBSET Nat /\ T # {}
  OBVIOUS
<1> HIDE DEF T
<1>2. PICK m \in T : \A k \in T : m <= k
  BY <1>1, LeastNumber
<1>3. m \in 0 .. n /\ m \notin S
  BY <1>2 DEF T
<1>4. m # 0
  BY <1>3
<1>5. m - 1 \in 0 .. n - 1
  BY <1>3, <1>4
<1>6. m - 1 \notin T
  BY <1>2, <1>3
<1>7. m - 1 \in S
  BY <1>5, <1>6 DEF T
<1>8. (m - 1) + 1 \in S
  BY <1>5, <1>7
<1> QED BY <1>3, <1>8

-----------------------------------------------------------------------------
(* Recursive functions: they exist, because their graphs grow element by    *)
(* element.                                                                *)

\* The function in Sum.
Sums(numbers, n, f) ==
  f = [k \in 0 .. n |-> IF k = 0 THEN 0 ELSE f[k - 1] + numbers[k]]

LEMMA SumsExist ==
  ASSUME NEW numbers, NEW n \in Nat
  PROVE  \E f : Sums(numbers, n, f)
<1> DEFINE S == {k \in 0 .. n : \E f : Sums(numbers, k, f)}
<1>1. 0 \in S
  <2> DEFINE f == [k \in 0 .. 0 |-> 0]
  <2>1. Sums(numbers, 0, f)
    BY DEF Sums
  <2> QED BY <2>1
<1>2. ASSUME NEW k \in 0 .. n - 1, k \in S PROVE k + 1 \in S
  <2>1. PICK f : Sums(numbers, k, f)
    BY <1>2
  <2> DEFINE g == [j \in 0 .. k + 1 |-> IF j <= k THEN f[j] ELSE f[k] + numbers[k + 1]]
  <2>2. \A j \in 0 .. k : f[j] = IF j = 0 THEN 0 ELSE f[j - 1] + numbers[j]
    BY <2>1 DEF Sums
  <2>3. ASSUME NEW j \in 0 .. k + 1
        PROVE  g[j] = IF j = 0 THEN 0 ELSE g[j - 1] + numbers[j]
    <3>1. CASE j = 0
      BY <2>2, <3>1
    <3>2. CASE j # 0 /\ j <= k
      <4>1. j - 1 \in 0 .. k + 1 /\ j - 1 <= k /\ j \in 0 .. k
        BY <3>2
      <4>2. g[j] = f[j] /\ g[j - 1] = f[j - 1]
        BY <3>2, <4>1
      <4> QED BY <2>2, <3>2, <4>1, <4>2
    <3>3. CASE j = k + 1
      <4>1. j - 1 = k /\ k \in 0 .. k + 1 /\ j # 0 /\ ~(j <= k)
        BY <3>3
      <4>2. g[j] = f[k] + numbers[k + 1] /\ g[j - 1] = f[k]
        BY <4>1
      <4> QED BY <3>3, <4>1, <4>2
    <3> QED BY <3>1, <3>2, <3>3
  <2>4. g = [j \in 0 .. k + 1 |-> IF j = 0 THEN 0 ELSE g[j - 1] + numbers[j]]
    <3> HIDE DEF g
    <3>1. DOMAIN g = 0 .. k + 1 /\ g = [j \in DOMAIN g |-> g[j]]
      BY DEF g
    <3> QED BY <2>3, <3>1
  <2>5. Sums(numbers, k + 1, g)
    BY <2>4 DEF Sums
  <2>6. k + 1 \in 0 .. n
    OBVIOUS
  <2> QED BY <2>5, <2>6
<1> HIDE DEF S
<1>3. n \in S
  BY <1>1, <1>2, Upwards
<1> QED BY <1>3 DEF S

\* Sum has partial sums that begin with 0 and grow by one number at a time.
LEMMA SumIs ==
  ASSUME NEW numbers, Len(numbers) \in Nat
  PROVE  \E f : /\ DOMAIN f = 0 .. Len(numbers) /\ f[0] = 0
                /\ \A k \in 0 .. Len(numbers) - 1 : f[k + 1] = f[k] + numbers[k + 1]
                /\ Sum(numbers) = f[Len(numbers)]
<1> DEFINE n == Len(numbers)
           f == CHOOSE f : f = [k \in 0 .. n |-> IF k = 0 THEN 0 ELSE f[k - 1] + numbers[k]]
<1>1. f = [k \in 0 .. n |-> IF k = 0 THEN 0 ELSE f[k - 1] + numbers[k]]
  <2>1. \E g : Sums(numbers, n, g)
    BY SumsExist
  <2>2. \E g : g = [k \in 0 .. n |-> IF k = 0 THEN 0 ELSE g[k - 1] + numbers[k]]
    BY <2>1 DEF Sums
  <2> QED BY <2>2, Zenon
<1>2. Sum(numbers) = f[n]
  BY DEF Sum
<1> HIDE DEF f
<1>3. \A k \in 0 .. n : f[k] = IF k = 0 THEN 0 ELSE f[k - 1] + numbers[k]
  BY <1>1
<1>4. f[0] = 0
  BY <1>3
<1>5. ASSUME NEW k \in 0 .. n - 1 PROVE f[k + 1] = f[k] + numbers[k + 1]
  <2>1. k + 1 \in 0 .. n /\ k + 1 # 0 /\ (k + 1) - 1 = k
    OBVIOUS
  <2> QED BY <1>3, <2>1
<1>6. DOMAIN f = 0 .. n
  BY <1>1
<1> QED BY <1>2, <1>4, <1>5, <1>6

\* The function in FlattenSeq.
Flattened(seqs, n, f) ==
  f = [k \in 1 .. n |-> IF k = 1 THEN seqs[k] ELSE f[k - 1] \o seqs[k]]

LEMMA FlattenedExist ==
  ASSUME NEW seqs, NEW n \in Nat
  PROVE  \E f : Flattened(seqs, n + 1, f)
<1> DEFINE S == {k \in 0 .. n : \E f : Flattened(seqs, k + 1, f)}
<1>1. 0 \in S
  <2> DEFINE f == [k \in 1 .. 0 + 1 |-> seqs[k]]
  <2>1. Flattened(seqs, 0 + 1, f)
    BY DEF Flattened
  <2> QED BY <2>1
<1>2. ASSUME NEW i \in 0 .. n - 1, i \in S PROVE i + 1 \in S
  <2>1. PICK f : Flattened(seqs, i + 1, f)
    BY <1>2
  <2> DEFINE k == i + 1
             last == f[k] \o seqs[k + 1]
             g == [j \in 1 .. k + 1 |-> IF j <= k THEN f[j] ELSE last]
  <2>2. \A j \in 1 .. k : f[j] = IF j = 1 THEN seqs[j] ELSE f[j - 1] \o seqs[j]
    BY <2>1 DEF Flattened
  <2>3. ASSUME NEW j \in 1 .. k + 1
        PROVE  g[j] = IF j = 1 THEN seqs[j] ELSE g[j - 1] \o seqs[j]
    <3>1. CASE j = 1
      BY <2>2, <3>1
    <3>2. CASE j # 1 /\ j <= k
      <4>1. j - 1 \in 1 .. k + 1 /\ j - 1 <= k /\ j \in 1 .. k
        BY <3>2
      <4>2. g[j] = f[j] /\ g[j - 1] = f[j - 1]
        BY <3>2, <4>1
      <4> QED BY <2>2, <3>2, <4>1, <4>2
    <3>3. CASE j = k + 1
      <4>1. j - 1 = k /\ k \in 1 .. k + 1 /\ j # 1 /\ ~(j <= k)
        BY <3>3
      <4>2. g[j] = last /\ g[j - 1] = f[k]
        <5> HIDE DEF last
        <5> QED BY <4>1
      <4> QED BY <3>3, <4>1, <4>2
    <3> QED BY <3>1, <3>2, <3>3
  <2>4. g = [j \in 1 .. k + 1 |-> IF j = 1 THEN seqs[j] ELSE g[j - 1] \o seqs[j]]
    <3> HIDE DEF g
    <3>1. DOMAIN g = 1 .. k + 1 /\ g = [j \in DOMAIN g |-> g[j]]
      BY DEF g
    <3> QED BY <2>3, <3>1
  <2>5. Flattened(seqs, (i + 1) + 1, g)
    BY <2>4 DEF Flattened
  <2>6. i + 1 \in 0 .. n
    OBVIOUS
  <2> QED BY <2>5, <2>6
<1> HIDE DEF S
<1>3. n \in S
  BY <1>1, <1>2, Upwards
<1> QED BY <1>3 DEF S

\* Concatenations that begin with the empty one and grow by one sequence at a time;
\* FlattenSeq is the last of them.
Concatenations(seqs, f) ==
  /\ DOMAIN f = 0 .. Len(seqs) /\ f[0] = <<>>
  /\ \A k \in 0 .. Len(seqs) - 1 : f[k + 1] = f[k] \o seqs[k + 1]
  /\ FlattenSeq(seqs) = f[Len(seqs)]

LEMMA FlattenIs ==
  ASSUME NEW S, NEW seqs \in Seq(Seq(S))
  PROVE  \E f : Concatenations(seqs, f) /\ \A k \in 0 .. Len(seqs) : f[k] \in Seq(S)
<1> DEFINE n == Len(seqs)
           f == CHOOSE f : f = [i \in 1 .. n |-> IF i = 1 THEN seqs[i] ELSE f[i - 1] \o seqs[i]]
           g == [k \in 0 .. n |-> IF k = 0 THEN <<>> ELSE f[k]]
<1>0. n \in Nat /\ \A k \in 1 .. n : seqs[k] \in Seq(S)
  OBVIOUS
<1>1. n > 0 => f = [i \in 1 .. n |-> IF i = 1 THEN seqs[i] ELSE f[i - 1] \o seqs[i]]
  <2> HAVE n > 0
  <2>1. n - 1 \in Nat /\ (n - 1) + 1 = n
    BY <1>0
  <2>2. \E h : Flattened(seqs, n, h)
    BY <2>1, FlattenedExist
  <2>3. \E h : h = [i \in 1 .. n |-> IF i = 1 THEN seqs[i] ELSE h[i - 1] \o seqs[i]]
    BY <2>2 DEF Flattened
  <2> QED BY <2>3, Zenon
<1>2. n > 0 => FlattenSeq(seqs) = f[n]
  BY DEF FlattenSeq
<1>3. n = 0 => FlattenSeq(seqs) = <<>>
  BY DEF FlattenSeq
<1> HIDE DEF f, n
<1>4. ASSUME NEW k \in 1 .. n
      PROVE  f[k] = IF k = 1 THEN seqs[k] ELSE f[k - 1] \o seqs[k]
  <2>1. n > 0
    BY <1>0
  <2> QED BY <1>1, <2>1, Zenon
<1>5. DOMAIN g = 0 .. n /\ g[0] = <<>> /\ \A k \in 1 .. n : g[k] = f[k]
  BY <1>0
<1>6. FlattenSeq(seqs) = g[n]
  BY <1>0, <1>2, <1>3, <1>5
<1> HIDE DEF g
<1>7. ASSUME NEW k \in 0 .. n - 1 PROVE g[k + 1] = g[k] \o seqs[k + 1]
  <2>1. k + 1 \in 1 .. n
    BY <1>0
  <2>2. CASE k = 0
    <3>1. g[k + 1] = seqs[1] /\ g[k] = <<>>
      BY <1>4, <1>5, <2>1, <2>2
    <3>2. seqs[1] \in Seq(S)
      BY <1>0, <2>1, <2>2
    <3>3. <<>> \o seqs[1] = seqs[1]
      BY <3>2, ConcatEmptySeq
    <3> QED BY <2>2, <3>1, <3>3
  <2>3. CASE k # 0
    <3>1. k \in 1 .. n /\ k + 1 # 1 /\ (k + 1) - 1 = k
      BY <1>0, <2>3
    <3> QED BY <1>4, <1>5, <2>1, <3>1
  <2> QED BY <2>2, <2>3
<1>8. \A k \in 0 .. n : g[k] \in Seq(S)
  <2> DEFINE T == {k \in 0 .. n : g[k] \in Seq(S)}
  <2>1. 0 \in T
    <3>1. g[0] \in Seq(S)
      BY <1>5, EmptySeq
    <3> QED BY <1>0, <3>1
  <2>2. ASSUME NEW k \in 0 .. n - 1, k \in T PROVE k + 1 \in T
    <3>1. k + 1 \in 1 .. n
      BY <1>0
    <3>2. seqs[k + 1] \in Seq(S) /\ g[k] \in Seq(S)
      BY <1>0, <2>2, <3>1
    <3>3. g[k] \o seqs[k + 1] \in Seq(S)
      BY <3>2, ConcatProperties
    <3>4. g[k + 1] \in Seq(S)
      BY <1>7, <3>3, Zenon
    <3>5. k + 1 \in 0 .. n
      BY <1>0
    <3> QED BY <3>4, <3>5
  <2> HIDE DEF T
  <2>3. \A k \in 0 .. n : k \in T
    BY <1>0, <2>1, <2>2, Upwards
  <2> QED BY <2>3 DEF T
<1>9. Concatenations(seqs, g)
  BY <1>5, <1>6, <1>7 DEF Concatenations, n
<1> QED BY <1>8, <1>9 DEF n

\* What FlattenSeq returns is as long as its sequences together, and each of them.
LEMMA FlattenLength ==
  ASSUME NEW S, NEW seqs \in Seq(Seq(S)), NEW sizes, Len(sizes) = Len(seqs),
         \A k \in 1 .. Len(seqs) : sizes[k] = Len(seqs[k])
  PROVE  /\ FlattenSeq(seqs) \in Seq(S)
         /\ Len(FlattenSeq(seqs)) = Sum(sizes) /\ Sum(sizes) \in Nat
         /\ \A k \in 1 .. Len(seqs) : sizes[k] <= Sum(sizes)
<1> DEFINE n == Len(seqs)
<1>0. n \in Nat /\ \A k \in 1 .. n : seqs[k] \in Seq(S)
  OBVIOUS
<1>1. PICK f : Concatenations(seqs, f) /\ \A k \in 0 .. n : f[k] \in Seq(S)
  BY FlattenIs
<1>2. PICK g : /\ DOMAIN g = 0 .. n /\ g[0] = 0
               /\ \A k \in 0 .. n - 1 : g[k + 1] = g[k] + sizes[k + 1]
               /\ Sum(sizes) = g[n]
  BY <1>0, SumIs
<1> HIDE DEF n
<1> DEFINE T == {k \in 0 .. n : Len(f[k]) = g[k] /\ \A i \in 1 .. k : sizes[i] <= g[k]}
<1>3. f[0] = <<>> /\ FlattenSeq(seqs) = f[n]
  BY <1>1 DEF Concatenations, n
<1>4. 0 \in T
  <2>1. Len(f[0]) = 0
    BY <1>3
  <2> QED BY <1>0, <1>2, <2>1
<1>5. ASSUME NEW k \in 0 .. n - 1, k \in T PROVE k + 1 \in T
  <2>1. k + 1 \in 1 .. n /\ k \in 0 .. n
    BY <1>0
  <2>2. f[k + 1] = f[k] \o seqs[k + 1]
    BY <1>1 DEF Concatenations, n
  <2>3. f[k] \in Seq(S) /\ seqs[k + 1] \in Seq(S)
    BY <1>0, <1>1, <2>1
  <2>4. Len(f[k + 1]) = Len(f[k]) + Len(seqs[k + 1])
    BY <2>2, <2>3, ConcatProperties
  <2>5. Len(f[k]) \in Nat /\ Len(seqs[k + 1]) \in Nat /\ sizes[k + 1] = Len(seqs[k + 1])
    BY <2>1, <2>3, LenProperties DEF n
  <2>6. g[k + 1] = g[k] + sizes[k + 1]
    BY <1>2
  <2>7. Len(f[k]) = g[k] /\ \A i \in 1 .. k : sizes[i] <= g[k]
    BY <1>5
  <2>8. Len(f[k + 1]) = g[k + 1]
    BY <2>4, <2>5, <2>6, <2>7
  <2>9. \A i \in 1 .. k + 1 : sizes[i] <= g[k + 1]
    <3> TAKE i \in 1 .. k + 1
    <3>1. CASE i = k + 1
      BY <2>5, <2>6, <2>7, <3>1
    <3>2. CASE i # k + 1
      <4>1. i \in 1 .. k /\ i \in 1 .. n
        BY <1>0, <2>1, <3>2
      <4>2. sizes[i] = Len(seqs[i]) /\ seqs[i] \in Seq(S)
        BY <1>0, <4>1 DEF n
      <4>3. sizes[i] \in Nat /\ sizes[i] <= g[k]
        BY <2>7, <4>1, <4>2, LenProperties
      <4> QED BY <2>5, <2>6, <2>7, <4>3
    <3> QED BY <3>1, <3>2
  <2>10. k + 1 \in 0 .. n
    BY <2>1
  <2> QED BY <2>8, <2>9, <2>10
<1> HIDE DEF T
<1>6. n \in T
  <2>1. \A k \in 0 .. n : k \in T
    BY <1>0, <1>4, <1>5, Upwards
  <2> QED BY <1>0, <2>1
<1>7. f[n] \in Seq(S) /\ Len(f[n]) = g[n] /\ \A i \in 1 .. n : sizes[i] <= g[n]
  BY <1>0, <1>1, <1>6 DEF T
<1>8. Len(f[n]) \in Nat
  BY <1>7, LenProperties
<1> QED BY <1>2, <1>3, <1>7, <1>8 DEF n

SizesOf(seqs, sizes) ==
  /\ seqs \in Seq(Seq(Nat)) /\ Len(sizes) = Len(seqs)
  /\ \A k \in 1 .. Len(seqs) : sizes[k] = Len(seqs[k])

LEMMA SizesOfAll ==
  ASSUME NEW seqs, NEW sizes, SizesOf(seqs, sizes)
  PROVE  /\ FlattenSeq(seqs) \in Seq(Nat)
         /\ Len(FlattenSeq(seqs)) = Sum(sizes) /\ Sum(sizes) \in Nat
         /\ \A k \in 1 .. Len(seqs) : sizes[k] <= Sum(sizes)
<1>1. /\ seqs \in Seq(Seq(Nat)) /\ Len(sizes) = Len(seqs)
      /\ \A k \in 1 .. Len(seqs) : sizes[k] = Len(seqs[k])
  BY DEF SizesOf
<1> QED BY <1>1, FlattenLength, Zenon

-----------------------------------------------------------------------------
(* Writing. *)

\* A varint has one to five bytes.
LEMMA VarintType ==
  ASSUME NEW n \in Nat
  PROVE  /\ Varint(n) \in Seq(Nat) /\ Len(Varint(n)) = UInt32Size(n)
         /\ UInt32Size(n) \in 1 .. 5
<1>1. UInt32Size(n) \in 1 .. 5
  BY DEF UInt32Size
<1>2. \A k \in 1 .. 5 : Septets(n)[k] \in Nat
  BY DEF Septets
<1>3. ASSUME NEW k \in 1 .. UInt32Size(n)
      PROVE  Septets(n)[k] + (IF k < UInt32Size(n) THEN 128 ELSE 0) \in Nat
  <2>1. k \in 1 .. 5
    BY <1>1
  <2>2. PICK x \in Nat : Septets(n)[k] = x
    BY <1>2, <2>1
  <2> QED BY <2>2
<1>4. Varint(n) \in [1 .. UInt32Size(n) -> Nat]
  BY <1>3 DEF Varint
<1>5. Varint(n) \in Seq(Nat) /\ Len(Varint(n)) = UInt32Size(n)
  BY <1>1, <1>4
<1> QED BY <1>1, <1>5

LEMMA Joined ==
  ASSUME NEW s \in Seq(Nat), NEW t \in Seq(Nat)
  PROVE  /\ s \o t \in Seq(Nat) /\ Len(s \o t) = Len(s) + Len(t)
         /\ Len(s) \in Nat /\ Len(t) \in Nat
<1>1. s \o t \in Seq(Nat) /\ Len(s \o t) = Len(s) + Len(t)
  BY ConcatProperties
<1>2. Len(s) \in Nat /\ Len(t) \in Nat
  BY LenProperties
<1> QED BY <1>1, <1>2

LEMMA WriteUInt32Type ==
  ASSUME NEW field \in Nat, NEW n \in Nat
  PROVE  /\ WriteUInt32(field, n) \in Seq(Nat)
         /\ Len(WriteUInt32(field, n)) = UInt32FieldSize(n) /\ UInt32FieldSize(n) \in Nat
<1>1. CASE n = 0
  <2>1. WriteUInt32(field, n) = <<>> /\ UInt32FieldSize(n) = 0
    BY <1>1 DEF WriteUInt32, UInt32FieldSize
  <2> QED BY <2>1
<1>2. CASE n # 0
  <2>1. WriteUInt32(field, n) = <<8 * field>> \o Varint(n)
    BY <1>2 DEF WriteUInt32
  <2>2. UInt32FieldSize(n) = 1 + UInt32Size(n)
    BY <1>2 DEF UInt32FieldSize
  <2>3. <<8 * field>> \in Seq(Nat) /\ Len(<<8 * field>>) = 1
    OBVIOUS
  <2>4. /\ <<8 * field>> \o Varint(n) \in Seq(Nat)
        /\ Len(<<8 * field>> \o Varint(n)) = Len(<<8 * field>>) + Len(Varint(n))
    BY <2>3, VarintType, Joined
  <2>5. Len(WriteUInt32(field, n)) = 1 + UInt32Size(n)
    BY <2>1, <2>3, <2>4, VarintType, Zenon
  <2>6. UInt32Size(n) \in 1 .. 5
    BY VarintType
  <2>7. 1 + UInt32Size(n) \in Nat
    BY <2>6
  <2> QED BY <2>1, <2>2, <2>4, <2>5, <2>7, Zenon
<1> QED BY <1>1, <1>2

LEMMA WriteBoolType ==
  ASSUME NEW field \in Nat, NEW flag \in BOOLEAN
  PROVE  /\ WriteBool(field, flag) \in Seq(Nat)
         /\ Len(WriteBool(field, flag)) = BoolFieldSize(flag) /\ BoolFieldSize(flag) \in Nat
BY DEF WriteBool, BoolFieldSize

\* What has its length before it is two bytes longer, at least.
LEMMA WriteBytesType ==
  ASSUME NEW field \in Nat, NEW s \in Seq(Nat)
  PROVE  /\ WriteBytes(field, Len(s), s) \in Seq(Nat)
         /\ Len(WriteBytes(field, Len(s), s)) = LengthDelimitedSize(Len(s))
         /\ LengthDelimitedSize(Len(s)) \in Nat /\ Len(s) + 2 <= LengthDelimitedSize(Len(s))
<1> DEFINE tag == <<8 * field + 2>>
           size == Varint(Len(s))
<1>1. Len(s) \in Nat
  BY LenProperties
<1>2. tag \in Seq(Nat) /\ Len(tag) = 1
  OBVIOUS
<1>3. size \in Seq(Nat) /\ Len(size) = UInt32Size(Len(s)) /\ UInt32Size(Len(s)) \in 1 .. 5
  BY <1>1, VarintType
<1>4. WriteBytes(field, Len(s), s) = tag \o size \o s
  BY DEF WriteBytes
<1>5. LengthDelimitedSize(Len(s)) = 1 + UInt32Size(Len(s)) + Len(s)
  BY DEF LengthDelimitedSize
<1> HIDE DEF tag, size
<1>6. tag \o size \in Seq(Nat) /\ Len(tag \o size) = Len(tag) + Len(size)
  BY <1>2, <1>3, Joined
<1>7. tag \o size \o s \in Seq(Nat) /\ Len(tag \o size \o s) = Len(tag \o size) + Len(s)
  BY <1>6, Joined
<1>8. Len(WriteBytes(field, Len(s), s)) = LengthDelimitedSize(Len(s))
  <2>1. Len(tag \o size \o s) = 1 + UInt32Size(Len(s)) + Len(s)
    BY <1>2, <1>3, <1>6, <1>7, Zenon
  <2> QED BY <1>4, <1>5, <2>1, Zenon
<1>9. LengthDelimitedSize(Len(s)) \in Nat /\ Len(s) + 2 <= LengthDelimitedSize(Len(s))
  BY <1>1, <1>3, <1>5
<1> QED BY <1>4, <1>7, <1>8, <1>9, Zenon

LEMMA WriteStringType ==
  ASSUME NEW field \in Nat, NEW s \in Seq(Nat)
  PROVE  /\ WriteString(field, s) \in Seq(Nat)
         /\ Len(WriteString(field, s)) = StringFieldSize(s) /\ StringFieldSize(s) \in Nat
         /\ Len(s) <= StringFieldSize(s)
<1>1. CASE s = <<>>
  <2>1. WriteString(field, s) = <<>> /\ StringFieldSize(s) = 0
    BY <1>1 DEF WriteString, StringFieldSize
  <2>2. Len(s) = 0
    BY <1>1
  <2>3. WriteString(field, s) \in Seq(Nat) /\ Len(WriteString(field, s)) = 0
    BY <2>1
  <2> QED BY <2>1, <2>2, <2>3
<1>2. CASE s # <<>>
  <2>1. /\ WriteString(field, s) = WriteBytes(field, Len(s), s)
        /\ StringFieldSize(s) = LengthDelimitedSize(Len(s))
    BY <1>2 DEF WriteString, StringFieldSize
  <2>2. Len(s) \in Nat
    BY LenProperties
  <2> DEFINE w == WriteBytes(field, Len(s), s)
             size == LengthDelimitedSize(Len(s))
  <2>3. w \in Seq(Nat) /\ Len(w) = size /\ size \in Nat /\ Len(s) + 2 <= size
    BY WriteBytesType
  <2> HIDE DEF w, size
  <2>4. Len(s) <= size
    BY <2>2, <2>3
  <2>5. WriteString(field, s) = w /\ StringFieldSize(s) = size
    BY <2>1 DEF w, size
  <2> QED BY <2>3, <2>4, <2>5, Zenon
<1> QED BY <1>1, <1>2

\* A packed list: the varints one after the other, behind their length.
Varints(list) == [k \in DOMAIN list |-> Varint(list[k])]

LEMMA VarintsType ==
  ASSUME NEW list \in Seq(Nat)
  PROVE  /\ Varints(list) \in Seq(Seq(Nat)) /\ Len(Varints(list)) = Len(list)
         /\ \A k \in 1 .. Len(list) : Varints(list)[k] = Varint(list[k])
         /\ FlattenSeq(Varints(list)) \in Seq(Nat)
         /\ Len(FlattenSeq(Varints(list))) = SumOfSizes(list, UInt32Size)
<1> DEFINE n == Len(list)
           sizes == [k \in DOMAIN list |-> UInt32Size(list[k])]
<1>1. n \in Nat /\ DOMAIN list = 1 .. n /\ \A k \in 1 .. n : list[k] \in Nat
  BY LenProperties, ElementOfSeq
<1>2. \A k \in 1 .. n : Varint(list[k]) \in Seq(Nat) /\ Len(Varint(list[k])) = UInt32Size(list[k])
  BY <1>1, VarintType
<1> HIDE DEF n
<1>3. Varints(list) = [k \in 1 .. n |-> Varint(list[k])] /\ sizes = [k \in 1 .. n |-> UInt32Size(list[k])]
  BY <1>1 DEF Varints
<1>4. Varints(list) \in [1 .. n -> Seq(Nat)]
  BY <1>2, <1>3
<1>5. Varints(list) \in Seq(Seq(Nat)) /\ Len(Varints(list)) = n
  BY <1>1, <1>4
<1>6. Len(sizes) = n
  BY <1>1, <1>3
<1>7. \A k \in 1 .. n : Varints(list)[k] = Varint(list[k]) /\ sizes[k] = UInt32Size(list[k])
  BY <1>3
<1>8. \A k \in 1 .. n : sizes[k] = Len(Varints(list)[k])
  BY <1>2, <1>7
<1>9. SumOfSizes(list, UInt32Size) = Sum(sizes)
  BY DEF SumOfSizes
<1> HIDE DEF sizes
<1>10. FlattenSeq(Varints(list)) \in Seq(Nat) /\ Len(FlattenSeq(Varints(list))) = Sum(sizes)
  <2>1. SizesOf(Varints(list), sizes)
    BY <1>5, <1>6, <1>8 DEF SizesOf
  <2> QED BY <2>1, SizesOfAll
<1> QED BY <1>5, <1>7, <1>9, <1>10 DEF n

LEMMA WritePackedType ==
  ASSUME NEW field \in Nat, NEW list \in Seq(Nat)
  PROVE  /\ WriteUInt32Packed(field, list) \in Seq(Nat)
         /\ Len(WriteUInt32Packed(field, list)) = PackedFieldSize(list)
         /\ PackedFieldSize(list) \in Nat
         /\ Len(FlattenSeq(Varints(list))) \in Nat
         /\ list # <<>> => Len(FlattenSeq(Varints(list))) <= PackedFieldSize(list)
<1> DEFINE s == FlattenSeq(Varints(list))
<1>0. s \in Seq(Nat) /\ Len(s) = SumOfSizes(list, UInt32Size)
  BY VarintsType
<1>1. Len(s) \in Nat
  BY <1>0, LenProperties
<1>2. CASE list = <<>>
  <2>1. WriteUInt32Packed(field, list) = <<>> /\ PackedFieldSize(list) = 0
    BY <1>2 DEF WriteUInt32Packed, PackedFieldSize
  <2>2. WriteUInt32Packed(field, list) \in Seq(Nat) /\ Len(WriteUInt32Packed(field, list)) = 0
    BY <2>1
  <2> HIDE DEF s
  <2>3. Len(FlattenSeq(Varints(list))) \in Nat
    BY <1>1 DEF s
  <2> QED BY <1>2, <2>1, <2>2, <2>3
<1>3. CASE list # <<>>
  <2> DEFINE w == WriteBytes(field, Len(s), s)
             size == LengthDelimitedSize(Len(s))
  <2>1. WriteUInt32Packed(field, list) = w
    BY <1>3 DEF WriteUInt32Packed, Varints
  <2>2. PackedFieldSize(list) = LengthDelimitedSize(SumOfSizes(list, UInt32Size))
    BY <1>3 DEF PackedFieldSize
  <2>3. PackedFieldSize(list) = size
    BY <1>0, <2>2, Zenon
  <2> HIDE DEF s
  <2>4. w \in Seq(Nat) /\ Len(w) = size /\ size \in Nat /\ Len(s) + 2 <= size
    BY <1>0, WriteBytesType
  <2> HIDE DEF w, size
  <2>5. Len(s) <= size
    BY <1>1, <2>4
  <2> QED BY <1>1, <2>1, <2>3, <2>4, <2>5 DEF s
<1> QED BY <1>2, <1>3

\* The messages of a list, each behind its length.  list is what is written for them.
Delimited(field, list) == [k \in DOMAIN list |-> WriteBytes(field, Len(list[k]), list[k])]

DelimitedSizes(list, sizes) ==
  /\ list \in Seq(Seq(Nat)) /\ Len(sizes) = Len(list)
  /\ \A k \in 1 .. Len(list) : sizes[k] = LengthDelimitedSize(Len(list[k]))

LEMMA DelimitedType ==
  ASSUME NEW field \in Nat, NEW list, NEW sizes, DelimitedSizes(list, sizes)
  PROVE  /\ Delimited(field, list) \in Seq(Seq(Nat))
         /\ Len(Delimited(field, list)) = Len(list)
         /\ FlattenSeq(Delimited(field, list)) \in Seq(Nat)
         /\ Len(FlattenSeq(Delimited(field, list))) = Sum(sizes) /\ Sum(sizes) \in Nat
         /\ \A k \in 1 .. Len(list) : Len(list[k]) <= Sum(sizes)
<1> DEFINE n == Len(list)
           w(k) == WriteBytes(field, Len(list[k]), list[k])
           seqs == Delimited(field, list)
<1>0. /\ list \in Seq(Seq(Nat)) /\ Len(sizes) = Len(list)
      /\ \A k \in 1 .. Len(list) : sizes[k] = LengthDelimitedSize(Len(list[k]))
  BY DEF DelimitedSizes
<1>1. n \in Nat /\ DOMAIN list = 1 .. n /\ \A k \in 1 .. n : list[k] \in Seq(Nat)
  BY <1>0, LenProperties, ElementOfSeq
<1>2. ASSUME NEW k \in 1 .. n
      PROVE  /\ w(k) \in Seq(Nat) /\ Len(w(k)) = LengthDelimitedSize(Len(list[k]))
             /\ LengthDelimitedSize(Len(list[k])) \in Nat
             /\ Len(list[k]) + 2 <= LengthDelimitedSize(Len(list[k])) /\ Len(list[k]) \in Nat
  BY <1>1, WriteBytesType, LenProperties
<1>3. seqs = [k \in 1 .. n |-> w(k)]
  BY <1>1 DEF Delimited
<1> HIDE DEF n, w
<1>4. seqs \in [1 .. n -> Seq(Nat)]
  BY <1>2, <1>3
<1> HIDE DEF seqs
<1>5. seqs \in Seq(Seq(Nat)) /\ Len(seqs) = n
  BY <1>1, <1>4
<1>6. Len(sizes) = n /\ \A k \in 1 .. n : sizes[k] = LengthDelimitedSize(Len(list[k]))
  BY <1>0 DEF n
<1>8. \A k \in 1 .. n : sizes[k] = Len(seqs[k])
  BY <1>2, <1>3, <1>6
<1>9. /\ FlattenSeq(seqs) \in Seq(Nat) /\ Len(FlattenSeq(seqs)) = Sum(sizes)
      /\ Sum(sizes) \in Nat /\ \A k \in 1 .. n : sizes[k] <= Sum(sizes)
  <2>1. SizesOf(seqs, sizes)
    BY <1>5, <1>6, <1>8 DEF SizesOf
  <2>2. /\ FlattenSeq(seqs) \in Seq(Nat) /\ Len(FlattenSeq(seqs)) = Sum(sizes)
        /\ Sum(sizes) \in Nat /\ \A k \in 1 .. Len(seqs) : sizes[k] <= Sum(sizes)
    BY <2>1, SizesOfAll
  <2> QED BY <1>5, <2>2
<1>10. ASSUME NEW k \in 1 .. n PROVE Len(list[k]) <= Sum(sizes)
  <2>1. PICK x \in Nat : x = sizes[k] /\ x <= Sum(sizes) /\ Len(list[k]) + 2 <= x
    BY <1>2, <1>6, <1>9
  <2> QED BY <1>2, <1>9, <2>1
<1> QED BY <1>5, <1>9, <1>10 DEF n, seqs

-----------------------------------------------------------------------------
(* Messages: what is written is as long as ByteSizeLong says.              *)

PBlockHeaders ==
  [version : UInt32Type, previous_block_hash : UInt32Type, merkle_root : UInt32Type,
   difficulty_target : UInt32Type, nonce : UInt32Type, timestamp : UInt32Type]

PTransactionInputs ==
  [reference_transaction_hash : UInt32Type, utxo_index : UInt32Type, signature : UInt32Type]

PTransactionOutputs == [amount : UInt32Type, public_key : UInt32Type]

PTransactions ==
  [version : UInt32Type, transaction_inputs : Seq(PTransactionInputs),
   transaction_outputs : Seq(PTransactionOutputs), lock_time : UInt32Type]

PBlocks ==
  [block_header : Seq(PBlockHeaders), transactions : Seq(PTransactions),
   hash : UInt32Type, calculate_fees : UInt32Type, obtain_merkle_root : UInt32Type]

PBlockRecords ==
  [block_header : Seq(PBlockHeaders), height : UInt32Type, num_transactions : UInt32Type,
   block_file_stored : Seq(Nat), block_offset_start : UInt32Type,
   block_offset_end : UInt32Type, undo_file_stored : Seq(Nat),
   undo_offset_start : UInt32Type, undo_offset_end : UInt32Type]

PCoinRecords ==
  [version : UInt32Type, is_coin_base : {FALSE}, height : UInt32Type,
   utxo : Seq(UInt32Type), amounts : Seq(UInt32Type), public_keys : Seq(UInt32Type)]

PUndoBlocks ==
  [transaction_hashes : Seq(UInt32Type), undo_coin_records : Seq(PCoinRecords)]

LEMMA UInt32Numbers == UInt32Type \subseteq Nat /\ Seq(UInt32Type) \subseteq Seq(Nat)
<1>1. UInt32Type \subseteq Nat
  BY DEF UInt32Type
<1>2. ASSUME NEW s \in Seq(UInt32Type) PROVE s \in Seq(Nat)
  BY <1>1, SeqMonotonic
<1> QED BY <1>1, <1>2

\* A field is so many bytes.
Writes(s, size) == s \in Seq(Nat) /\ Len(s) = size /\ size \in Nat

LEMMA Joined3 ==
  ASSUME NEW s, NEW t, NEW u, NEW k, NEW l, NEW m,
         Writes(s, k), Writes(t, l), Writes(u, m)
  PROVE  Writes(s \o t \o u, k + l + m)
<1>1. s \in Seq(Nat) /\ t \in Seq(Nat) /\ u \in Seq(Nat)
  BY DEF Writes
<1>2. Len(s) = k /\ Len(t) = l /\ Len(u) = m /\ k \in Nat /\ l \in Nat /\ m \in Nat
  BY DEF Writes
<1>3. s \o t \in Seq(Nat) /\ Len(s \o t) = Len(s) + Len(t)
  BY <1>1, Joined
<1>4. s \o t \o u \in Seq(Nat) /\ Len(s \o t \o u) = Len(s \o t) + Len(u)
  BY <1>1, <1>3, Joined
<1>5. Len(s \o t \o u) = k + l + m
  BY <1>2, <1>3, <1>4, Zenon
<1>6. k + l + m \in Nat
  BY <1>2
<1> QED BY <1>4, <1>5, <1>6, Zenon DEF Writes

LEMMA Joined2 ==
  ASSUME NEW s, NEW t, NEW k, NEW l, Writes(s, k), Writes(t, l)
  PROVE  Writes(s \o t, k + l)
<1>1. s \in Seq(Nat) /\ t \in Seq(Nat)
  BY DEF Writes
<1>2. Len(s) = k /\ Len(t) = l /\ k \in Nat /\ l \in Nat
  BY DEF Writes
<1>3. s \o t \in Seq(Nat) /\ Len(s \o t) = Len(s) + Len(t)
  BY <1>1, Joined
<1>4. Len(s \o t) = k + l
  BY <1>2, <1>3, Zenon
<1>5. k + l \in Nat
  BY <1>2
<1> QED BY <1>3, <1>4, <1>5, Zenon DEF Writes

LEMMA UInt32Writes ==
  ASSUME NEW field \in Nat, NEW n \in UInt32Type
  PROVE  Writes(WriteUInt32(field, n), UInt32FieldSize(n))
BY WriteUInt32Type, UInt32Numbers DEF Writes

LEMMA PackedWrites ==
  ASSUME NEW field \in Nat, NEW list \in Seq(UInt32Type)
  PROVE  Writes(WriteUInt32Packed(field, list), PackedFieldSize(list))
<1>1. list \in Seq(Nat)
  BY UInt32Numbers
<1> QED BY <1>1, WritePackedType DEF Writes

LEMMA BlockHeaderSize ==
  ASSUME NEW m \in PBlockHeaders
  PROVE  Writes(PBlockHeader_InternalSerialize(m), PBlockHeader_ByteSizeLong(m))
<1> DEFINE w1 == WriteUInt32(1, m.version)
           w2 == WriteUInt32(2, m.previous_block_hash)
           w3 == WriteUInt32(3, m.merkle_root)
           w4 == WriteUInt32(4, m.difficulty_target)
           w5 == WriteUInt32(5, m.nonce)
           w6 == WriteUInt32(6, m.timestamp)
           k1 == UInt32FieldSize(m.version)
           k2 == UInt32FieldSize(m.previous_block_hash)
           k3 == UInt32FieldSize(m.merkle_root)
           k4 == UInt32FieldSize(m.difficulty_target)
           k5 == UInt32FieldSize(m.nonce)
           k6 == UInt32FieldSize(m.timestamp)
<1>0. /\ m.version \in UInt32Type /\ m.previous_block_hash \in UInt32Type
      /\ m.merkle_root \in UInt32Type /\ m.difficulty_target \in UInt32Type
      /\ m.nonce \in UInt32Type /\ m.timestamp \in UInt32Type
  BY DEF PBlockHeaders
<1>1. Writes(w1, k1) /\ Writes(w2, k2) /\ Writes(w3, k3)
  BY <1>0, UInt32Writes
<1>2. Writes(w4, k4) /\ Writes(w5, k5) /\ Writes(w6, k6)
  BY <1>0, UInt32Writes
<1>3. /\ PBlockHeader_InternalSerialize(m) = w1 \o w2 \o w3 \o w4 \o w5 \o w6
      /\ PBlockHeader_ByteSizeLong(m) = k1 + k2 + k3 + k4 + k5 + k6
  BY DEF PBlockHeader_InternalSerialize, PBlockHeader_ByteSizeLong
<1> HIDE DEF w1, w2, w3, w4, w5, w6, k1, k2, k3, k4, k5, k6
<1>4. Writes(w1 \o w2 \o w3, k1 + k2 + k3)
  BY <1>1, Joined3
<1>5. Writes(w1 \o w2 \o w3 \o w4 \o w5, k1 + k2 + k3 + k4 + k5)
  BY <1>2, <1>4, Joined3
<1>6. Writes(w1 \o w2 \o w3 \o w4 \o w5 \o w6, k1 + k2 + k3 + k4 + k5 + k6)
  BY <1>2, <1>5, Joined2
<1> QED BY <1>3, <1>6

LEMMA TransactionInputSize ==
  ASSUME NEW m \in PTransactionInputs
  PROVE  Writes(PTransactionInput_InternalSerialize(m), PTransactionInput_ByteSizeLong(m))
<1>0. /\ m.reference_transaction_hash \in UInt32Type /\ m.utxo_index \in UInt32Type
      /\ m.signature \in UInt32Type
  BY DEF PTransactionInputs
<1>1. /\ Writes(WriteUInt32(1, m.reference_transaction_hash),
           UInt32FieldSize(m.reference_transaction_hash))
      /\ Writes(WriteUInt32(2, m.utxo_index), UInt32FieldSize(m.utxo_index))
      /\ Writes(WriteUInt32(3, m.signature), UInt32FieldSize(m.signature))
  BY <1>0, UInt32Writes
<1> QED BY <1>1, Joined3 DEF PTransactionInput_InternalSerialize, PTransactionInput_ByteSizeLong

LEMMA TransactionOutputSize ==
  ASSUME NEW m \in PTransactionOutputs
  PROVE  Writes(PTransactionOutput_InternalSerialize(m), PTransactionOutput_ByteSizeLong(m))
<1>0. m.amount \in UInt32Type /\ m.public_key \in UInt32Type
  BY DEF PTransactionOutputs
<1>1. /\ Writes(WriteUInt32(1, m.amount), UInt32FieldSize(m.amount))
      /\ Writes(WriteUInt32(2, m.public_key), UInt32FieldSize(m.public_key))
  BY <1>0, UInt32Writes
<1> QED BY <1>1, Joined2
        DEF PTransactionOutput_InternalSerialize, PTransactionOutput_ByteSizeLong

\* A function, whatever its values.
FunctionOn(n, f) == f = [k \in 1 .. n |-> f[k]]

\* The messages of a list with the sizes they say they have, the fields written for
\* them and the sizes of these.
FieldsOf(field, n, list, sizes, fields, all) ==
  /\ FunctionOn(n, list) /\ FunctionOn(n, fields) /\ FunctionOn(n, all)
  /\ \A k \in 1 .. n :
       /\ Writes(list[k], sizes[k])
       /\ fields[k] = WriteBytes(field, sizes[k], list[k])
       /\ all[k] = LengthDelimitedSize(sizes[k])

LEMMA ListWrites ==
  ASSUME NEW field \in Nat, NEW n \in Nat, NEW list, NEW sizes, NEW fields, NEW all,
         FieldsOf(field, n, list, sizes, fields, all)
  PROVE  /\ list \in Seq(Seq(Nat)) /\ Len(list) = n
         /\ fields = Delimited(field, list) /\ Writes(FlattenSeq(fields), Sum(all))
         /\ \A k \in 1 .. n : Len(list[k]) <= Sum(all)
<1>1. \A k \in 1 .. n :
        /\ list[k] \in Seq(Nat) /\ Len(list[k]) = sizes[k] /\ sizes[k] \in Nat
        /\ fields[k] = WriteBytes(field, Len(list[k]), list[k])
        /\ all[k] = LengthDelimitedSize(Len(list[k]))
  BY DEF FieldsOf, Writes
<1>2. list \in [1 .. n -> Seq(Nat)]
  BY <1>1 DEF FunctionOn, FieldsOf
<1>3. list \in Seq(Seq(Nat)) /\ Len(list) = n /\ DOMAIN list = 1 .. n
  BY <1>2
<1>4. Len(all) = n /\ \A k \in 1 .. n : all[k] = LengthDelimitedSize(Len(list[k]))
  BY <1>1 DEF FunctionOn, FieldsOf
<1>5. fields = Delimited(field, list)
  BY <1>1, <1>3 DEF Delimited, FunctionOn, FieldsOf
<1>6. /\ FlattenSeq(Delimited(field, list)) \in Seq(Nat)
      /\ Len(FlattenSeq(Delimited(field, list))) = Sum(all) /\ Sum(all) \in Nat
      /\ \A k \in 1 .. Len(list) : Len(list[k]) <= Sum(all)
  <2>1. DelimitedSizes(list, all)
    BY <1>3, <1>4 DEF DelimitedSizes
  <2> QED BY <2>1, DelimitedType
<1>7. Writes(FlattenSeq(fields), Sum(all))
  BY <1>5, <1>6 DEF Writes
<1> QED BY <1>3, <1>5, <1>6, <1>7

HeadersWritten(list) == [k \in DOMAIN list |-> PBlockHeader_InternalSerialize(list[k])]

InputsWritten(list) == [k \in DOMAIN list |-> PTransactionInput_InternalSerialize(list[k])]

OutputsWritten(list) == [k \in DOMAIN list |-> PTransactionOutput_InternalSerialize(list[k])]

TransactionsWritten(list) == [k \in DOMAIN list |-> PTransaction_InternalSerialize(list[k])]

CoinsWritten(list) == [k \in DOMAIN list |-> PUndoCoinRecord_InternalSerialize(list[k])]

\* What the five lists of messages have in common.  whole is what is written.
ListOf(field, n, list, whole, size) ==
  /\ list \in Seq(Seq(Nat)) /\ Len(list) = n
  /\ whole = FlattenSeq(Delimited(field, list)) /\ Writes(whole, size)
  /\ \A k \in 1 .. n : Len(list[k]) <= size

LEMMA HeaderList ==
  ASSUME NEW field \in Nat, NEW list \in Seq(PBlockHeaders)
  PROVE  ListOf(field, Len(list), HeadersWritten(list),
           WriteMessages(field, list, PBlockHeader_ByteSizeLong, PBlockHeader_InternalSerialize),
           SizeOfMessages(list, PBlockHeader_ByteSizeLong))
<1> DEFINE n == Len(list)
           sizes == [k \in DOMAIN list |-> PBlockHeader_ByteSizeLong(list[k])]
           written == HeadersWritten(list)
           fields == [k \in DOMAIN list |-> WriteBytes(field, PBlockHeader_ByteSizeLong(list[k]),
                                              PBlockHeader_InternalSerialize(list[k]))]
           all == [k \in DOMAIN list |-> LengthDelimitedSize(PBlockHeader_ByteSizeLong(list[k]))]
<1>1. n \in Nat /\ DOMAIN list = 1 .. n /\ \A k \in 1 .. n : list[k] \in PBlockHeaders
  BY LenProperties, ElementOfSeq
<1>2. /\ WriteMessages(field, list, PBlockHeader_ByteSizeLong, PBlockHeader_InternalSerialize)
           = FlattenSeq(fields)
      /\ SizeOfMessages(list, PBlockHeader_ByteSizeLong) = Sum(all)
  BY DEF WriteMessages, InternalWriteMessage, SizeOfMessages, SumOfSizes
<1>3. FunctionOn(n, written) /\ FunctionOn(n, fields) /\ FunctionOn(n, all)
  BY <1>1 DEF HeadersWritten, FunctionOn
<1>4. \A k \in 1 .. n :
        /\ Writes(written[k], sizes[k])
        /\ fields[k] = WriteBytes(field, sizes[k], written[k])
        /\ all[k] = LengthDelimitedSize(sizes[k])
  BY <1>1, BlockHeaderSize DEF HeadersWritten
<1> HIDE DEF n, sizes, written, fields, all
<1>5. /\ written \in Seq(Seq(Nat)) /\ Len(written) = n
      /\ fields = Delimited(field, written) /\ Writes(FlattenSeq(fields), Sum(all))
      /\ \A k \in 1 .. n : Len(written[k]) <= Sum(all)
  <2>1. FieldsOf(field, n, written, sizes, fields, all)
    BY <1>3, <1>4 DEF FieldsOf
  <2> QED BY <1>1, <2>1, ListWrites
<1> QED BY <1>2, <1>5, Zenon DEF ListOf, n, written

LEMMA InputList ==
  ASSUME NEW field \in Nat, NEW list \in Seq(PTransactionInputs)
  PROVE  ListOf(field, Len(list), InputsWritten(list),
           WriteMessages(field, list, PTransactionInput_ByteSizeLong, PTransactionInput_InternalSerialize),
           SizeOfMessages(list, PTransactionInput_ByteSizeLong))
<1> DEFINE n == Len(list)
           sizes == [k \in DOMAIN list |-> PTransactionInput_ByteSizeLong(list[k])]
           written == InputsWritten(list)
           fields == [k \in DOMAIN list |-> WriteBytes(field, PTransactionInput_ByteSizeLong(list[k]),
                                              PTransactionInput_InternalSerialize(list[k]))]
           all == [k \in DOMAIN list |-> LengthDelimitedSize(PTransactionInput_ByteSizeLong(list[k]))]
<1>1. n \in Nat /\ DOMAIN list = 1 .. n /\ \A k \in 1 .. n : list[k] \in PTransactionInputs
  BY LenProperties, ElementOfSeq
<1>2. /\ WriteMessages(field, list, PTransactionInput_ByteSizeLong, PTransactionInput_InternalSerialize)
           = FlattenSeq(fields)
      /\ SizeOfMessages(list, PTransactionInput_ByteSizeLong) = Sum(all)
  BY DEF WriteMessages, InternalWriteMessage, SizeOfMessages, SumOfSizes
<1>3. FunctionOn(n, written) /\ FunctionOn(n, fields) /\ FunctionOn(n, all)
  BY <1>1 DEF InputsWritten, FunctionOn
<1>4. \A k \in 1 .. n :
        /\ Writes(written[k], sizes[k])
        /\ fields[k] = WriteBytes(field, sizes[k], written[k])
        /\ all[k] = LengthDelimitedSize(sizes[k])
  BY <1>1, TransactionInputSize DEF InputsWritten
<1> HIDE DEF n, sizes, written, fields, all
<1>5. /\ written \in Seq(Seq(Nat)) /\ Len(written) = n
      /\ fields = Delimited(field, written) /\ Writes(FlattenSeq(fields), Sum(all))
      /\ \A k \in 1 .. n : Len(written[k]) <= Sum(all)
  <2>1. FieldsOf(field, n, written, sizes, fields, all)
    BY <1>3, <1>4 DEF FieldsOf
  <2> QED BY <1>1, <2>1, ListWrites
<1> QED BY <1>2, <1>5, Zenon DEF ListOf, n, written

LEMMA OutputList ==
  ASSUME NEW field \in Nat, NEW list \in Seq(PTransactionOutputs)
  PROVE  ListOf(field, Len(list), OutputsWritten(list),
           WriteMessages(field, list, PTransactionOutput_ByteSizeLong, PTransactionOutput_InternalSerialize),
           SizeOfMessages(list, PTransactionOutput_ByteSizeLong))
<1> DEFINE n == Len(list)
           sizes == [k \in DOMAIN list |-> PTransactionOutput_ByteSizeLong(list[k])]
           written == OutputsWritten(list)
           fields == [k \in DOMAIN list |-> WriteBytes(field, PTransactionOutput_ByteSizeLong(list[k]),
                                              PTransactionOutput_InternalSerialize(list[k]))]
           all == [k \in DOMAIN list |-> LengthDelimitedSize(PTransactionOutput_ByteSizeLong(list[k]))]
<1>1. n \in Nat /\ DOMAIN list = 1 .. n /\ \A k \in 1 .. n : list[k] \in PTransactionOutputs
  BY LenProperties, ElementOfSeq
<1>2. /\ WriteMessages(field, list, PTransactionOutput_ByteSizeLong, PTransactionOutput_InternalSerialize)
           = FlattenSeq(fields)
      /\ SizeOfMessages(list, PTransactionOutput_ByteSizeLong) = Sum(all)
  BY DEF WriteMessages, InternalWriteMessage, SizeOfMessages, SumOfSizes
<1>3. FunctionOn(n, written) /\ FunctionOn(n, fields) /\ FunctionOn(n, all)
  BY <1>1 DEF OutputsWritten, FunctionOn
<1>4. \A k \in 1 .. n :
        /\ Writes(written[k], sizes[k])
        /\ fields[k] = WriteBytes(field, sizes[k], written[k])
        /\ all[k] = LengthDelimitedSize(sizes[k])
  BY <1>1, TransactionOutputSize DEF OutputsWritten
<1> HIDE DEF n, sizes, written, fields, all
<1>5. /\ written \in Seq(Seq(Nat)) /\ Len(written) = n
      /\ fields = Delimited(field, written) /\ Writes(FlattenSeq(fields), Sum(all))
      /\ \A k \in 1 .. n : Len(written[k]) <= Sum(all)
  <2>1. FieldsOf(field, n, written, sizes, fields, all)
    BY <1>3, <1>4 DEF FieldsOf
  <2> QED BY <1>1, <2>1, ListWrites
<1> QED BY <1>2, <1>5, Zenon DEF ListOf, n, written

LEMMA TransactionSize ==
  ASSUME NEW m \in PTransactions
  PROVE  Writes(PTransaction_InternalSerialize(m), PTransaction_ByteSizeLong(m))
<1> DEFINE w1 == WriteUInt32(1, m.version)
           w2 == WriteMessages(2, m.transaction_inputs,
                   PTransactionInput_ByteSizeLong, PTransactionInput_InternalSerialize)
           w3 == WriteMessages(3, m.transaction_outputs,
                   PTransactionOutput_ByteSizeLong, PTransactionOutput_InternalSerialize)
           w4 == WriteUInt32(4, m.lock_time)
           k1 == UInt32FieldSize(m.version)
           k2 == SizeOfMessages(m.transaction_inputs, PTransactionInput_ByteSizeLong)
           k3 == SizeOfMessages(m.transaction_outputs, PTransactionOutput_ByteSizeLong)
           k4 == UInt32FieldSize(m.lock_time)
<1>0. /\ m.version \in UInt32Type /\ m.transaction_inputs \in Seq(PTransactionInputs)
      /\ m.transaction_outputs \in Seq(PTransactionOutputs) /\ m.lock_time \in UInt32Type
  BY DEF PTransactions
<1>1. Writes(w1, k1) /\ Writes(w4, k4)
  BY <1>0, UInt32Writes
<1>2. Writes(w2, k2)
  BY <1>0, InputList DEF ListOf
<1>3. Writes(w3, k3)
  BY <1>0, OutputList DEF ListOf
<1>4. /\ PTransaction_InternalSerialize(m) = w1 \o w2 \o w3 \o w4
      /\ PTransaction_ByteSizeLong(m) = k2 + k3 + k1 + k4
  BY DEF PTransaction_InternalSerialize, PTransaction_ByteSizeLong
<1> HIDE DEF w1, w2, w3, w4, k1, k2, k3, k4
<1>5. Writes(w1 \o w2 \o w3, k1 + k2 + k3)
  BY <1>1, <1>2, <1>3, Joined3
<1>6. Writes(w1 \o w2 \o w3 \o w4, k1 + k2 + k3 + k4)
  BY <1>1, <1>5, Joined2
<1>7. k1 + k2 + k3 + k4 = k2 + k3 + k1 + k4
  BY <1>1, <1>2, <1>3 DEF Writes
<1> QED BY <1>4, <1>6, <1>7, Zenon

LEMMA TransactionList ==
  ASSUME NEW field \in Nat, NEW list \in Seq(PTransactions)
  PROVE  ListOf(field, Len(list), TransactionsWritten(list),
           WriteMessages(field, list, PTransaction_ByteSizeLong, PTransaction_InternalSerialize),
           SizeOfMessages(list, PTransaction_ByteSizeLong))
<1> DEFINE n == Len(list)
           sizes == [k \in DOMAIN list |-> PTransaction_ByteSizeLong(list[k])]
           written == TransactionsWritten(list)
           fields == [k \in DOMAIN list |-> WriteBytes(field, PTransaction_ByteSizeLong(list[k]),
                                              PTransaction_InternalSerialize(list[k]))]
           all == [k \in DOMAIN list |-> LengthDelimitedSize(PTransaction_ByteSizeLong(list[k]))]
<1>1. n \in Nat /\ DOMAIN list = 1 .. n /\ \A k \in 1 .. n : list[k] \in PTransactions
  BY LenProperties, ElementOfSeq
<1>2. /\ WriteMessages(field, list, PTransaction_ByteSizeLong, PTransaction_InternalSerialize)
           = FlattenSeq(fields)
      /\ SizeOfMessages(list, PTransaction_ByteSizeLong) = Sum(all)
  BY DEF WriteMessages, InternalWriteMessage, SizeOfMessages, SumOfSizes
<1>3. FunctionOn(n, written) /\ FunctionOn(n, fields) /\ FunctionOn(n, all)
  BY <1>1 DEF TransactionsWritten, FunctionOn
<1>4. \A k \in 1 .. n :
        /\ Writes(written[k], sizes[k])
        /\ fields[k] = WriteBytes(field, sizes[k], written[k])
        /\ all[k] = LengthDelimitedSize(sizes[k])
  BY <1>1, TransactionSize DEF TransactionsWritten
<1> HIDE DEF n, sizes, written, fields, all
<1>5. /\ written \in Seq(Seq(Nat)) /\ Len(written) = n
      /\ fields = Delimited(field, written) /\ Writes(FlattenSeq(fields), Sum(all))
      /\ \A k \in 1 .. n : Len(written[k]) <= Sum(all)
  <2>1. FieldsOf(field, n, written, sizes, fields, all)
    BY <1>3, <1>4 DEF FieldsOf
  <2> QED BY <1>1, <2>1, ListWrites
<1> QED BY <1>2, <1>5, Zenon DEF ListOf, n, written

LEMMA BlockSize ==
  ASSUME NEW m \in PBlocks
  PROVE  Writes(PBlock_InternalSerialize(m), PBlock_ByteSizeLong(m))
<1> DEFINE w1 == WriteMessages(1, m.block_header,
                   PBlockHeader_ByteSizeLong, PBlockHeader_InternalSerialize)
           w2 == WriteMessages(2, m.transactions,
                   PTransaction_ByteSizeLong, PTransaction_InternalSerialize)
           w3 == WriteUInt32(3, m.hash)
           w4 == WriteUInt32(4, m.calculate_fees)
           w5 == WriteUInt32(5, m.obtain_merkle_root)
           k1 == SizeOfMessages(m.block_header, PBlockHeader_ByteSizeLong)
           k2 == SizeOfMessages(m.transactions, PTransaction_ByteSizeLong)
           k3 == UInt32FieldSize(m.hash)
           k4 == UInt32FieldSize(m.calculate_fees)
           k5 == UInt32FieldSize(m.obtain_merkle_root)
<1>0. /\ m.block_header \in Seq(PBlockHeaders) /\ m.transactions \in Seq(PTransactions)
      /\ m.hash \in UInt32Type /\ m.calculate_fees \in UInt32Type
      /\ m.obtain_merkle_root \in UInt32Type
  BY DEF PBlocks
<1>1. Writes(w1, k1)
  BY <1>0, HeaderList DEF ListOf
<1>2. Writes(w2, k2)
  BY <1>0, TransactionList DEF ListOf
<1>3. Writes(w3, k3) /\ Writes(w4, k4) /\ Writes(w5, k5)
  BY <1>0, UInt32Writes
<1>4. /\ PBlock_InternalSerialize(m) = w1 \o w2 \o w3 \o w4 \o w5
      /\ PBlock_ByteSizeLong(m) = k2 + k1 + k3 + k4 + k5
  BY DEF PBlock_InternalSerialize, PBlock_ByteSizeLong
<1> HIDE DEF w1, w2, w3, w4, w5, k1, k2, k3, k4, k5
<1>5. Writes(w1 \o w2 \o w3, k1 + k2 + k3)
  BY <1>1, <1>2, <1>3, Joined3
<1>6. Writes(w1 \o w2 \o w3 \o w4 \o w5, k1 + k2 + k3 + k4 + k5)
  BY <1>3, <1>5, Joined3
<1>7. k1 + k2 + k3 + k4 + k5 = k2 + k1 + k3 + k4 + k5
  BY <1>1, <1>2, <1>3 DEF Writes
<1> QED BY <1>4, <1>6, <1>7, Zenon

LEMMA BlockRecordSize ==
  ASSUME NEW m \in PBlockRecords
  PROVE  Writes(PBlockRecord_InternalSerialize(m), PBlockRecord_ByteSizeLong(m))
<1> DEFINE w1 == WriteMessages(1, m.block_header,
                   PBlockHeader_ByteSizeLong, PBlockHeader_InternalSerialize)
           w2 == WriteUInt32(2, m.height)
           w3 == WriteUInt32(3, m.num_transactions)
           w4 == WriteString(4, m.block_file_stored)
           w5 == WriteUInt32(5, m.block_offset_start)
           w6 == WriteUInt32(6, m.block_offset_end)
           w7 == WriteString(7, m.undo_file_stored)
           w8 == WriteUInt32(8, m.undo_offset_start)
           w9 == WriteUInt32(9, m.undo_offset_end)
           k1 == SizeOfMessages(m.block_header, PBlockHeader_ByteSizeLong)
           k2 == UInt32FieldSize(m.height)
           k3 == UInt32FieldSize(m.num_transactions)
           k4 == StringFieldSize(m.block_file_stored)
           k5 == UInt32FieldSize(m.block_offset_start)
           k6 == UInt32FieldSize(m.block_offset_end)
           k7 == StringFieldSize(m.undo_file_stored)
           k8 == UInt32FieldSize(m.undo_offset_start)
           k9 == UInt32FieldSize(m.undo_offset_end)
<1>0. /\ m.block_header \in Seq(PBlockHeaders) /\ m.height \in UInt32Type
      /\ m.num_transactions \in UInt32Type /\ m.block_file_stored \in Seq(Nat)
      /\ m.block_offset_start \in UInt32Type /\ m.block_offset_end \in UInt32Type
      /\ m.undo_file_stored \in Seq(Nat)
      /\ m.undo_offset_start \in UInt32Type /\ m.undo_offset_end \in UInt32Type
  BY DEF PBlockRecords
<1>1. Writes(w1, k1)
  BY <1>0, HeaderList DEF ListOf
<1>2. Writes(w2, k2) /\ Writes(w3, k3) /\ Writes(w5, k5)
  BY <1>0, UInt32Writes
<1>3. Writes(w6, k6) /\ Writes(w8, k8) /\ Writes(w9, k9)
  BY <1>0, UInt32Writes
<1>4. Writes(w4, k4) /\ Writes(w7, k7)
  BY <1>0, WriteStringType DEF Writes
<1>5. /\ PBlockRecord_InternalSerialize(m) = w1 \o w2 \o w3 \o w4 \o w5 \o w6 \o w7 \o w8 \o w9
      /\ PBlockRecord_ByteSizeLong(m) = k4 + k7 + k1 + k2 + k3 + k5 + k6 + k8 + k9
  BY DEF PBlockRecord_InternalSerialize, PBlockRecord_ByteSizeLong
<1> HIDE DEF w1, w2, w3, w4, w5, w6, w7, w8, w9, k1, k2, k3, k4, k5, k6, k7, k8, k9
<1>6. Writes(w1 \o w2 \o w3, k1 + k2 + k3)
  BY <1>1, <1>2, Joined3
<1>7. Writes(w1 \o w2 \o w3 \o w4 \o w5, k1 + k2 + k3 + k4 + k5)
  BY <1>2, <1>4, <1>6, Joined3
<1>8. Writes(w1 \o w2 \o w3 \o w4 \o w5 \o w6 \o w7, k1 + k2 + k3 + k4 + k5 + k6 + k7)
  BY <1>3, <1>4, <1>7, Joined3
<1>9. Writes(w1 \o w2 \o w3 \o w4 \o w5 \o w6 \o w7 \o w8 \o w9,
        k1 + k2 + k3 + k4 + k5 + k6 + k7 + k8 + k9)
  BY <1>3, <1>8, Joined3
<1>10. k1 + k2 + k3 + k4 + k5 + k6 + k7 + k8 + k9 = k4 + k7 + k1 + k2 + k3 + k5 + k6 + k8 + k9
  BY <1>1, <1>2, <1>3, <1>4 DEF Writes
<1> QED BY <1>5, <1>9, <1>10, Zenon

LEMMA CoinRecordSize ==
  ASSUME NEW m \in PCoinRecords
  PROVE  Writes(PCoinRecord_InternalSerialize(m), PCoinRecord_ByteSizeLong(m))
<1> DEFINE w1 == WriteUInt32(1, m.version)
           w2 == WriteBool(2, m.is_coin_base)
           w3 == WriteUInt32(3, m.height)
           w4 == WriteUInt32Packed(4, m.utxo)
           w5 == WriteUInt32Packed(5, m.amounts)
           w6 == WriteUInt32Packed(6, m.public_keys)
           k1 == UInt32FieldSize(m.version)
           k2 == BoolFieldSize(m.is_coin_base)
           k3 == UInt32FieldSize(m.height)
           k4 == PackedFieldSize(m.utxo)
           k5 == PackedFieldSize(m.amounts)
           k6 == PackedFieldSize(m.public_keys)
<1>0. /\ m.version \in UInt32Type /\ m.is_coin_base \in BOOLEAN /\ m.height \in UInt32Type
      /\ m.utxo \in Seq(UInt32Type) /\ m.amounts \in Seq(UInt32Type)
      /\ m.public_keys \in Seq(UInt32Type)
  BY DEF PCoinRecords
<1>1. Writes(w1, k1) /\ Writes(w3, k3)
  BY <1>0, UInt32Writes
<1>2. Writes(w2, k2)
  BY <1>0, WriteBoolType DEF Writes
<1>3. Writes(w4, k4) /\ Writes(w5, k5) /\ Writes(w6, k6)
  BY <1>0, PackedWrites
<1>4. /\ PCoinRecord_InternalSerialize(m) = w1 \o w2 \o w3 \o w4 \o w5 \o w6
      /\ PCoinRecord_ByteSizeLong(m) = k4 + k5 + k6 + k1 + k2 + k3
  BY DEF PCoinRecord_InternalSerialize, PCoinRecord_ByteSizeLong
<1> HIDE DEF w1, w2, w3, w4, w5, w6, k1, k2, k3, k4, k5, k6
<1>5. Writes(w1 \o w2 \o w3, k1 + k2 + k3)
  BY <1>1, <1>2, Joined3
<1>6. Writes(w1 \o w2 \o w3 \o w4 \o w5, k1 + k2 + k3 + k4 + k5)
  BY <1>3, <1>5, Joined3
<1>7. Writes(w1 \o w2 \o w3 \o w4 \o w5 \o w6, k1 + k2 + k3 + k4 + k5 + k6)
  BY <1>3, <1>6, Joined2
<1>8. k1 + k2 + k3 + k4 + k5 + k6 = k4 + k5 + k6 + k1 + k2 + k3
  BY <1>1, <1>2, <1>3 DEF Writes
<1> QED BY <1>4, <1>7, <1>8, Zenon

LEMMA UndoCoinRecordSize ==
  ASSUME NEW m \in PCoinRecords
  PROVE  Writes(PUndoCoinRecord_InternalSerialize(m), PUndoCoinRecord_ByteSizeLong(m))
BY CoinRecordSize DEF PUndoCoinRecord_InternalSerialize, PUndoCoinRecord_ByteSizeLong

LEMMA CoinList ==
  ASSUME NEW field \in Nat, NEW list \in Seq(PCoinRecords)
  PROVE  ListOf(field, Len(list), CoinsWritten(list),
           WriteMessages(field, list, PUndoCoinRecord_ByteSizeLong, PUndoCoinRecord_InternalSerialize),
           SizeOfMessages(list, PUndoCoinRecord_ByteSizeLong))
<1> DEFINE n == Len(list)
           sizes == [k \in DOMAIN list |-> PUndoCoinRecord_ByteSizeLong(list[k])]
           written == CoinsWritten(list)
           fields == [k \in DOMAIN list |-> WriteBytes(field, PUndoCoinRecord_ByteSizeLong(list[k]),
                                              PUndoCoinRecord_InternalSerialize(list[k]))]
           all == [k \in DOMAIN list |-> LengthDelimitedSize(PUndoCoinRecord_ByteSizeLong(list[k]))]
<1>1. n \in Nat /\ DOMAIN list = 1 .. n /\ \A k \in 1 .. n : list[k] \in PCoinRecords
  BY LenProperties, ElementOfSeq
<1>2. /\ WriteMessages(field, list, PUndoCoinRecord_ByteSizeLong, PUndoCoinRecord_InternalSerialize)
           = FlattenSeq(fields)
      /\ SizeOfMessages(list, PUndoCoinRecord_ByteSizeLong) = Sum(all)
  BY DEF WriteMessages, InternalWriteMessage, SizeOfMessages, SumOfSizes
<1>3. FunctionOn(n, written) /\ FunctionOn(n, fields) /\ FunctionOn(n, all)
  BY <1>1 DEF CoinsWritten, FunctionOn
<1>4. \A k \in 1 .. n :
        /\ Writes(written[k], sizes[k])
        /\ fields[k] = WriteBytes(field, sizes[k], written[k])
        /\ all[k] = LengthDelimitedSize(sizes[k])
  BY <1>1, UndoCoinRecordSize DEF CoinsWritten
<1> HIDE DEF n, sizes, written, fields, all
<1>5. /\ written \in Seq(Seq(Nat)) /\ Len(written) = n
      /\ fields = Delimited(field, written) /\ Writes(FlattenSeq(fields), Sum(all))
      /\ \A k \in 1 .. n : Len(written[k]) <= Sum(all)
  <2>1. FieldsOf(field, n, written, sizes, fields, all)
    BY <1>3, <1>4 DEF FieldsOf
  <2> QED BY <1>1, <2>1, ListWrites
<1> QED BY <1>2, <1>5, Zenon DEF ListOf, n, written

LEMMA UndoBlockSize ==
  ASSUME NEW m \in PUndoBlocks
  PROVE  Writes(PUndoBlock_InternalSerialize(m), PUndoBlock_ByteSizeLong(m))
<1>0. m.transaction_hashes \in Seq(UInt32Type) /\ m.undo_coin_records \in Seq(PCoinRecords)
  BY DEF PUndoBlocks
<1>1. Writes(WriteUInt32Packed(1, m.transaction_hashes), PackedFieldSize(m.transaction_hashes))
  BY <1>0, PackedWrites
<1>2. Writes(
        WriteMessages(2, m.undo_coin_records,
          PUndoCoinRecord_ByteSizeLong, PUndoCoinRecord_InternalSerialize),
        SizeOfMessages(m.undo_coin_records, PUndoCoinRecord_ByteSizeLong))
  BY <1>0, CoinList DEF ListOf
<1> QED BY <1>1, <1>2, Joined2 DEF PUndoBlock_InternalSerialize, PUndoBlock_ByteSizeLong

-----------------------------------------------------------------------------
(* The messages that stand for the objects, and the objects made of them.  *)

LEMMA SmallNumbers ==
  /\ Byte \subseteq UInt32Type /\ UInt16Type \subseteq UInt32Type /\ 0 \in UInt32Type
  /\ \A n \in Nat : n <= INT_MAX => n \in UInt32Type
  /\ \A n \in Byte : UInt8(n) = n
  /\ \A n \in UInt16Type : UInt16(n) = n
BY DEF Byte, UInt16Type, UInt32Type, INT_MAX, UInt8, UInt16

LEMMA TransactionInputConverted ==
  ASSUME NEW o \in TransactionInputType
  PROVE  /\ ToPTransactionInput(o) \in PTransactionInputs
         /\ ToTransactionInput(ToPTransactionInput(o)) = o
<1>1. /\ o.reference_transaction_hash \in UInt32Type /\ o.utxo_index \in Byte
      /\ o.signature \in UInt32Type
      /\ o = [reference_transaction_hash |-> o.reference_transaction_hash,
              utxo_index |-> o.utxo_index, signature |-> o.signature]
  BY DEF TransactionInputType
<1>2. ToPTransactionInput(o) = [reference_transaction_hash |-> o.reference_transaction_hash,
         utxo_index |-> o.utxo_index, signature |-> o.signature]
  <2> DEFINE q == ToPTransactionInput(o)
  <2>1. /\ q.reference_transaction_hash = o.reference_transaction_hash
        /\ q.utxo_index = o.utxo_index
        /\ q.signature = o.signature
    BY DEF ToPTransactionInput, PTransactionInput_Clear
  <2>2. /\ DOMAIN q = {"reference_transaction_hash", "utxo_index", "signature"}
        /\ q = [member \in DOMAIN q |-> q[member]]
    BY DEF ToPTransactionInput, PTransactionInput_Clear
  <2> HIDE DEF q
  <2>3. q = [reference_transaction_hash |-> o.reference_transaction_hash,
         utxo_index |-> o.utxo_index, signature |-> o.signature]
    BY <2>1, <2>2
  <2> QED BY <2>3 DEF q
<1>3. o.utxo_index \in UInt32Type /\ UInt8(o.utxo_index) = o.utxo_index
  BY <1>1, SmallNumbers
<1>4. ToPTransactionInput(o) \in PTransactionInputs
  BY <1>1, <1>2, <1>3 DEF PTransactionInputs
<1>5. ToTransactionInput(ToPTransactionInput(o)) = o
  BY <1>1, <1>2, <1>3 DEF ToTransactionInput
<1> QED BY <1>4, <1>5

LEMMA TransactionOutputConverted ==
  ASSUME NEW o \in TransactionOutputType
  PROVE  /\ ToPTransactionOutput(o) \in PTransactionOutputs
         /\ ToTransactionOutput(ToPTransactionOutput(o)) = o
<1>1. /\ o.amount \in UInt32Type /\ o.public_key \in UInt32Type
      /\ o = [amount |-> o.amount, public_key |-> o.public_key]
  BY DEF TransactionOutputType
<1>2. ToPTransactionOutput(o) = [amount |-> o.amount, public_key |-> o.public_key]
  <2> DEFINE q == ToPTransactionOutput(o)
  <2>1. /\ q.amount = o.amount
        /\ q.public_key = o.public_key
    BY DEF ToPTransactionOutput, PTransactionOutput_Clear
  <2>2. /\ DOMAIN q = {"amount", "public_key"}
        /\ q = [member \in DOMAIN q |-> q[member]]
    BY DEF ToPTransactionOutput, PTransactionOutput_Clear
  <2> HIDE DEF q
  <2>3. q = [amount |-> o.amount, public_key |-> o.public_key]
    BY <2>1, <2>2
  <2> QED BY <2>3 DEF q
<1> QED BY <1>1, <1>2 DEF PTransactionOutputs, ToTransactionOutput

LEMMA BlockHeaderConverted ==
  ASSUME NEW o \in BlockHeaderType
  PROVE  ToPBlockHeader(o) \in PBlockHeaders /\ ToBlockHeader(ToPBlockHeader(o)) = o
<1> DEFINE p == [version |-> o.version, previous_block_hash |-> o.previous_block_hash,
                 merkle_root |-> o.merkle_root, difficulty_target |-> o.difficulty_target,
                 nonce |-> o.nonce, timestamp |-> o.timestamp]
<1>1. /\ o.version \in Byte /\ o.previous_block_hash \in UInt32Type
      /\ o.merkle_root \in UInt32Type /\ o.difficulty_target \in UInt32Type
      /\ o.nonce \in UInt32Type /\ o.timestamp \in UInt32Type /\ o = p
  BY DEF BlockHeaderType
<1>2. ToPBlockHeader(o) = p
  <2> DEFINE q == ToPBlockHeader(o)
  <2>1. /\ q.version = o.version
        /\ q.previous_block_hash = o.previous_block_hash
        /\ q.merkle_root = o.merkle_root
        /\ q.difficulty_target = o.difficulty_target
        /\ q.nonce = o.nonce
        /\ q.timestamp = o.timestamp
    BY DEF ToPBlockHeader, PBlockHeader_Clear
  <2>2. /\ DOMAIN q = {"version", "previous_block_hash", "merkle_root",
                       "difficulty_target", "nonce", "timestamp"}
        /\ q = [member \in DOMAIN q |-> q[member]]
    BY DEF ToPBlockHeader, PBlockHeader_Clear
  <2> HIDE DEF q
  <2>3. q = p
    BY <2>1, <2>2
  <2> QED BY <2>3 DEF q
<1>3. o.version \in UInt32Type /\ UInt8(o.version) = o.version
  BY <1>1, SmallNumbers
<1>4. p \in PBlockHeaders
  BY <1>1, <1>3 DEF PBlockHeaders
<1>5. ToBlockHeader(p) = o
  BY <1>1, <1>3 DEF ToBlockHeader
<1> QED BY <1>2, <1>4, <1>5

LEMMA TransactionConverted ==
  ASSUME NEW o \in TransactionType
  PROVE  ToPTransaction(o) \in PTransactions /\ ToTransaction(ToPTransaction(o)) = o
<1> DEFINE ins == Each(ToPTransactionInput, o.transaction_inputs)
           outs == Each(ToPTransactionOutput, o.transaction_outputs)
           p == [version |-> o.version, transaction_inputs |-> ins,
                 transaction_outputs |-> outs, lock_time |-> o.lock_time]
<1>1. /\ o.version \in Byte /\ o.transaction_inputs \in Seq(TransactionInputType)
      /\ o.transaction_outputs \in Seq(TransactionOutputType) /\ o.lock_time \in UInt32Type
      /\ o = [transaction_inputs |-> o.transaction_inputs,
              transaction_outputs |-> o.transaction_outputs,
              version |-> o.version, lock_time |-> o.lock_time]
  BY DEF TransactionType
<1>2. ToPTransaction(o) = p
  <2> DEFINE q == ToPTransaction(o)
  <2>1. /\ q.version = o.version
        /\ q.transaction_inputs = ins
        /\ q.transaction_outputs = outs
        /\ q.lock_time = o.lock_time
    BY DEF ToPTransaction, PTransaction_Clear
  <2>2. /\ DOMAIN q = {"version", "transaction_inputs", "transaction_outputs",
                       "lock_time"}
        /\ q = [member \in DOMAIN q |-> q[member]]
    BY DEF ToPTransaction, PTransaction_Clear
  <2> HIDE DEF q
  <2>3. q = p
    BY <2>1, <2>2
  <2> QED BY <2>3 DEF q
<1>3. o.version \in UInt32Type /\ UInt8(o.version) = o.version
  BY <1>1, SmallNumbers
<1>4. /\ ins \in Seq(PTransactionInputs)
      /\ Each(ToTransactionInput, ins) = o.transaction_inputs
  BY <1>1, TransactionInputConverted DEF Each
<1>5. /\ outs \in Seq(PTransactionOutputs)
      /\ Each(ToTransactionOutput, outs) = o.transaction_outputs
  BY <1>1, TransactionOutputConverted DEF Each
<1> HIDE DEF ins, outs
<1>6. p \in PTransactions
  BY <1>1, <1>3, <1>4, <1>5 DEF PTransactions
<1>7. ToTransaction(p) = o
  BY <1>1, <1>3, <1>4, <1>5 DEF ToTransaction
<1> QED BY <1>2, <1>6, <1>7

LEMMA BlockConverted ==
  ASSUME NEW o \in BlockType
  PROVE  /\ ToPBlock(o) \in PBlocks
         /\ ToPBlock(o) = [PBlock_Clear EXCEPT
              !.block_header = <<ToPBlockHeader(o.block_header)>>,
              !.transactions = Each(ToPTransaction, o.transactions)]
         /\ HeaderOf(ToPBlock(o)) = o.block_header
         /\ Each(ToTransaction, ToPBlock(o).transactions) = o.transactions
<1> DEFINE h == ToPBlockHeader(o.block_header)
           txs == Each(ToPTransaction, o.transactions)
           p == [block_header |-> <<h>>, transactions |-> txs, hash |-> 0,
                 calculate_fees |-> 0, obtain_merkle_root |-> 0]
<1>1. o.block_header \in BlockHeaderType /\ o.transactions \in Seq(TransactionType)
  BY DEF BlockType
<1>2. ToPBlock(o) = p
  <2> DEFINE q == ToPBlock(o)
  <2>1. /\ q.block_header = <<h>>
        /\ q.transactions = txs
        /\ q.hash = 0
        /\ q.calculate_fees = 0
        /\ q.obtain_merkle_root = 0
    BY DEF ToPBlock, PBlock_Clear
  <2>2. /\ DOMAIN q = {"block_header", "transactions", "hash", "calculate_fees",
                       "obtain_merkle_root"}
        /\ q = [member \in DOMAIN q |-> q[member]]
    BY DEF ToPBlock, PBlock_Clear
  <2> HIDE DEF q
  <2>3. q = p
    BY <2>1, <2>2
  <2> QED BY <2>3 DEF q
<1>3. h \in PBlockHeaders /\ ToBlockHeader(h) = o.block_header
  BY <1>1, BlockHeaderConverted
<1>4. txs \in Seq(PTransactions) /\ Each(ToTransaction, txs) = o.transactions
  <2> DEFINE list == o.transactions
             n == Len(list)
  <2>1. n \in Nat /\ list = [k \in 1 .. n |-> list[k]] /\ DOMAIN list = 1 .. n
    BY <1>1
  <2>2. \A k \in 1 .. n : /\ ToPTransaction(list[k]) \in PTransactions
                          /\ ToTransaction(ToPTransaction(list[k])) = list[k]
    BY <1>1, <2>1, ElementOfSeq, TransactionConverted
  <2>3. txs = [k \in 1 .. n |-> ToPTransaction(list[k])]
    BY <2>1 DEF Each
  <2>4. Each(ToTransaction, txs) = [k \in DOMAIN txs |-> ToTransaction(txs[k])]
    BY DEF Each
  <2> HIDE DEF n, txs, list
  <2>5. txs \in [1 .. n -> PTransactions]
    BY <2>2, <2>3
  <2>6. txs \in Seq(PTransactions) /\ DOMAIN txs = 1 .. n
    BY <2>1, <2>5
  <2>7. Each(ToTransaction, txs) = list
    BY <2>1, <2>2, <2>3, <2>4, <2>6
  <2> QED BY <2>6, <2>7 DEF list
<1> HIDE DEF h, txs
<1>5. p \in PBlocks
  BY <1>3, <1>4, SmallNumbers DEF PBlocks
<1>6. HeaderOf(p) = o.block_header
  BY <1>3 DEF HeaderOf
<1>7. Each(ToTransaction, p.transactions) = o.transactions
  BY <1>4
<1> QED BY <1>2, <1>5, <1>6, <1>7 DEF ToPBlock

LEMMA BlockRecordConverted ==
  ASSUME NEW o \in BlockRecordType
  PROVE  /\ ToPBlockRecord(o) \in PBlockRecords
         /\ HeaderOf(ToPBlockRecord(o)) = o.block_header
         /\ \A member \in {"height", "num_transactions", "block_file_stored",
                           "block_offset_start", "block_offset_end", "undo_file_stored",
                           "undo_offset_start", "undo_offset_end"} :
              ToPBlockRecord(o)[member] = o[member]
<1> DEFINE h == ToPBlockHeader(o.block_header)
           p == [block_header |-> <<h>>, height |-> o.height,
                 num_transactions |-> o.num_transactions,
                 block_file_stored |-> o.block_file_stored,
                 block_offset_start |-> o.block_offset_start,
                 block_offset_end |-> o.block_offset_end,
                 undo_file_stored |-> o.undo_file_stored,
                 undo_offset_start |-> o.undo_offset_start,
                 undo_offset_end |-> o.undo_offset_end]
<1>1. /\ o.block_header \in BlockHeaderType /\ o.num_transactions \in UInt32Type
      /\ o.height \in UInt32Type /\ o.block_file_stored \in FileName
      /\ o.block_offset_start \in UInt16Type /\ o.block_offset_end \in UInt16Type
      /\ o.undo_file_stored \in FileName
      /\ o.undo_offset_start \in UInt16Type /\ o.undo_offset_end \in UInt16Type
  BY DEF BlockRecordType
<1>2. ToPBlockRecord(o) = p
  <2> DEFINE q == ToPBlockRecord(o)
  <2>1. /\ q.block_header = <<h>>
        /\ q.height = o.height
        /\ q.num_transactions = o.num_transactions
        /\ q.block_file_stored = o.block_file_stored
        /\ q.block_offset_start = o.block_offset_start
        /\ q.block_offset_end = o.block_offset_end
        /\ q.undo_file_stored = o.undo_file_stored
        /\ q.undo_offset_start = o.undo_offset_start
        /\ q.undo_offset_end = o.undo_offset_end
    BY DEF ToPBlockRecord, PBlockRecord_Clear
  <2>2. /\ DOMAIN q = {"block_header", "height", "num_transactions",
                       "block_file_stored", "block_offset_start", "block_offset_end",
                       "undo_file_stored", "undo_offset_start", "undo_offset_end"}
        /\ q = [member \in DOMAIN q |-> q[member]]
    BY DEF ToPBlockRecord, PBlockRecord_Clear
  <2> HIDE DEF q
  <2>3. q = p
    BY <2>1, <2>2
  <2> QED BY <2>3 DEF q
<1>3. h \in PBlockHeaders /\ ToBlockHeader(h) = o.block_header
  BY <1>1, BlockHeaderConverted
<1>4. o.block_file_stored \in Seq(Nat) /\ o.undo_file_stored \in Seq(Nat)
  <2>1. 0 .. 127 \subseteq Nat
    OBVIOUS
  <2> QED BY <1>1, <2>1, SeqMonotonic DEF FileName
<1> HIDE DEF h
<1>5. p \in PBlockRecords
  BY <1>1, <1>3, <1>4, SmallNumbers DEF PBlockRecords
<1>6. HeaderOf(p) = o.block_header
  BY <1>3 DEF HeaderOf
<1> QED BY <1>2, <1>5, <1>6

\* A record that is written without reading past the end of a list: its lists are as
\* long as that of its indices.
LEMMA CoinRecordConverted ==
  ASSUME NEW o \in CoinRecordType, ~ReadsPast(o)
  PROVE  /\ ToPCoinRecord(o) \in PCoinRecords /\ ToCoinRecord(ToPCoinRecord(o)) = Listed(o)
         /\ ~ReadsPast(ToPCoinRecord(o)) /\ (Complete(o) => Listed(o) = o)
<1> DEFINE n == Len(o.utxo)
           amounts == SubSeq(o.amounts, 1, n)
           keys == SubSeq(o.public_keys, 1, n)
           p == [version |-> o.version, is_coin_base |-> FALSE, height |-> 0, utxo |-> o.utxo,
                 amounts |-> amounts, public_keys |-> keys]
           l == [version |-> o.version, utxo |-> o.utxo, amounts |-> amounts, public_keys |-> keys]
<1>1. /\ o.version \in Byte /\ o.utxo \in Seq(UInt32Type) /\ o.amounts \in Seq(UInt32Type)
      /\ o.public_keys \in Seq(UInt32Type)
      /\ o = [version |-> o.version, utxo |-> o.utxo, amounts |-> o.amounts,
              public_keys |-> o.public_keys]
  BY DEF CoinRecordType
<1>2. n \in Nat /\ n <= Len(o.amounts) /\ n <= Len(o.public_keys)
  BY <1>1, LenProperties DEF ReadsPast
<1>3. Listed(o) = l
  BY DEF Listed
<1>4. /\ amounts \in Seq(UInt32Type) /\ Len(amounts) = n
      /\ keys \in Seq(UInt32Type) /\ Len(keys) = n
  BY <1>1, <1>2
<1>5. SubSeq(amounts, 1, n) = amounts /\ SubSeq(keys, 1, n) = keys
  BY <1>4, SubSeqFull
<1>6. Complete(o) => amounts = o.amounts /\ keys = o.public_keys
  BY <1>1, SubSeqFull DEF Complete
<1> HIDE DEF amounts, keys
<1>7. ToPCoinRecord(o) = p
  <2> DEFINE q == ToPCoinRecord(o)
  <2>1. q = [PCoinRecord_Clear EXCEPT !.version = o.version, !.utxo = o.utxo,
                                     !.amounts = amounts, !.public_keys = keys]
    BY <1>3 DEF ToPCoinRecord
  <2>2. /\ q.version = o.version /\ q.is_coin_base = FALSE /\ q.height = 0
        /\ q.utxo = o.utxo /\ q.amounts = amounts /\ q.public_keys = keys
    BY <2>1 DEF PCoinRecord_Clear
  <2>3. /\ DOMAIN q = {"version", "is_coin_base", "height", "utxo", "amounts", "public_keys"}
        /\ q = [member \in DOMAIN q |-> q[member]]
    BY <2>1 DEF PCoinRecord_Clear
  <2> HIDE DEF q
  <2>4. q = p
    BY <2>2, <2>3
  <2> QED BY <2>4 DEF q
<1>8. p \in PCoinRecords
  BY <1>1, <1>4, SmallNumbers DEF PCoinRecords
<1>9. Listed(p) = l
  BY <1>5 DEF Listed
<1>10. ToCoinRecord(p) = l
  <2>1. UInt8(o.version) = o.version
    BY <1>1, SmallNumbers
  <2> DEFINE q == ToCoinRecord(p)
  <2>2. q = [l EXCEPT !.version = UInt8(l.version)]
    BY <1>9 DEF ToCoinRecord
  <2>3. /\ q.version = UInt8(o.version) /\ q.utxo = o.utxo /\ q.amounts = amounts
        /\ q.public_keys = keys
    BY <2>2
  <2>4. /\ DOMAIN q = {"version", "utxo", "amounts", "public_keys"}
        /\ q = [member \in DOMAIN q |-> q[member]]
    BY <2>2
  <2> HIDE DEF q
  <2>5. q = l
    BY <2>1, <2>3, <2>4
  <2> QED BY <2>5 DEF q
<1>11. ~ReadsPast(p)
  BY <1>2, <1>4 DEF ReadsPast
<1>12. Complete(o) => l = o
  BY <1>1, <1>6
<1> QED BY <1>3, <1>7, <1>8, <1>10, <1>11, <1>12

-----------------------------------------------------------------------------
(* Undo blocks. *)

\* A list of transactions has the inputs, and the outputs, of each of them.
InputsOf(txs) == FlattenSeq([k \in DOMAIN txs |-> txs[k].transaction_inputs])

OutputsOf(txs) == FlattenSeq([k \in DOMAIN txs |-> txs[k].transaction_outputs])

LEMMA InputsListed ==
  ASSUME NEW txs \in Seq(TransactionType), NEW sizes, Len(sizes) = Len(txs),
         \A k \in 1 .. Len(txs) : sizes[k] = Len(txs[k].transaction_inputs)
  PROVE  /\ InputsOf(txs) \in Seq(TransactionInputType)
         /\ Len(InputsOf(txs)) = Sum(sizes) /\ Sum(sizes) \in Nat
<1> DEFINE n == Len(txs)
           lists == [k \in DOMAIN txs |-> txs[k].transaction_inputs]
<1>1. n \in Nat /\ DOMAIN txs = 1 .. n /\ \A k \in 1 .. n : txs[k] \in TransactionType
  BY LenProperties, ElementOfSeq
<1>2. \A k \in 1 .. n : txs[k].transaction_inputs \in Seq(TransactionInputType)
  BY <1>1 DEF TransactionType
<1>3. lists \in [1 .. n -> Seq(TransactionInputType)]
  BY <1>1, <1>2
<1>4. lists \in Seq(Seq(TransactionInputType)) /\ Len(lists) = n
  BY <1>1, <1>3
<1>5. \A k \in 1 .. Len(lists) : sizes[k] = Len(lists[k])
  BY <1>1, <1>4
<1> HIDE DEF lists
<1>6. Len(sizes) = Len(lists)
  BY <1>4
<1>7. /\ FlattenSeq(lists) \in Seq(TransactionInputType)
      /\ Len(FlattenSeq(lists)) = Sum(sizes) /\ Sum(sizes) \in Nat
  <2>1. lists \in Seq(Seq(TransactionInputType))
    BY <1>4
  <2> QED BY <1>5, <1>6, <2>1, FlattenLength, Zenon
<1> QED BY <1>7 DEF InputsOf, lists

LEMMA OutputsListed ==
  ASSUME NEW txs \in Seq(TransactionType), NEW sizes, Len(sizes) = Len(txs),
         \A k \in 1 .. Len(txs) : sizes[k] = Len(txs[k].transaction_outputs)
  PROVE  /\ OutputsOf(txs) \in Seq(TransactionOutputType)
         /\ Len(OutputsOf(txs)) = Sum(sizes) /\ Sum(sizes) \in Nat
<1> DEFINE n == Len(txs)
           lists == [k \in DOMAIN txs |-> txs[k].transaction_outputs]
<1>1. n \in Nat /\ DOMAIN txs = 1 .. n /\ \A k \in 1 .. n : txs[k] \in TransactionType
  BY LenProperties, ElementOfSeq
<1>2. \A k \in 1 .. n : txs[k].transaction_outputs \in Seq(TransactionOutputType)
  BY <1>1 DEF TransactionType
<1>3. lists \in [1 .. n -> Seq(TransactionOutputType)]
  BY <1>1, <1>2
<1>4. lists \in Seq(Seq(TransactionOutputType)) /\ Len(lists) = n
  BY <1>1, <1>3
<1>5. \A k \in 1 .. Len(lists) : sizes[k] = Len(lists[k])
  BY <1>1, <1>4
<1> HIDE DEF lists
<1>6. Len(sizes) = Len(lists)
  BY <1>4
<1>7. /\ FlattenSeq(lists) \in Seq(TransactionOutputType)
      /\ Len(FlattenSeq(lists)) = Sum(sizes) /\ Sum(sizes) \in Nat
  <2>1. lists \in Seq(Seq(TransactionOutputType))
    BY <1>4
  <2> QED BY <1>5, <1>6, <2>1, FlattenLength, Zenon
<1> QED BY <1>7 DEF OutputsOf, lists

\* The record of a list of transactions, with the version of the last.
RecordOf(version, txs) ==
  [version |-> version,
   utxo |-> Each(LAMBDA txi : txi.utxo_index, InputsOf(txs)),
   amounts |-> Each(LAMBDA txo : txo.amount, OutputsOf(txs)),
   public_keys |-> Each(LAMBDA txo : txo.public_key, OutputsOf(txs))]

LEMMA RecordType ==
  ASSUME NEW version \in Byte, NEW txs \in Seq(TransactionType)
  PROVE  /\ RecordOf(version, txs) \in CoinRecordType
         /\ Len(RecordOf(version, txs).utxo) = Len(InputsOf(txs))
         /\ Len(RecordOf(version, txs).amounts) = Len(OutputsOf(txs))
         /\ Len(RecordOf(version, txs).public_keys) = Len(OutputsOf(txs))
<1> DEFINE ins == InputsOf(txs)
           outs == OutputsOf(txs)
           utxo == Each(LAMBDA txi : txi.utxo_index, ins)
           amounts == Each(LAMBDA txo : txo.amount, outs)
           keys == Each(LAMBDA txo : txo.public_key, outs)
<1>1. ins \in Seq(TransactionInputType)
  <2> DEFINE sizes == [k \in 1 .. Len(txs) |-> Len(txs[k].transaction_inputs)]
  <2>1. /\ Len(sizes) = Len(txs)
        /\ \A k \in 1 .. Len(txs) : sizes[k] = Len(txs[k].transaction_inputs)
    BY LenProperties
  <2> HIDE DEF sizes
  <2> QED BY <2>1, InputsListed
<1>2. outs \in Seq(TransactionOutputType)
  <2> DEFINE sizes == [k \in 1 .. Len(txs) |-> Len(txs[k].transaction_outputs)]
  <2>1. /\ Len(sizes) = Len(txs)
        /\ \A k \in 1 .. Len(txs) : sizes[k] = Len(txs[k].transaction_outputs)
    BY LenProperties
  <2> HIDE DEF sizes
  <2> QED BY <2>1, OutputsListed
<1> HIDE DEF ins, outs
<1>3. ASSUME NEW k \in 1 .. Len(ins) PROVE ins[k].utxo_index \in UInt32Type
  <2>1. ins[k] \in TransactionInputType
    BY <1>1, ElementOfSeq
  <2>2. ins[k].utxo_index \in Byte
    BY <2>1 DEF TransactionInputType
  <2> QED BY <2>2, SmallNumbers
<1>4. ASSUME NEW k \in 1 .. Len(outs)
      PROVE  outs[k].amount \in UInt32Type /\ outs[k].public_key \in UInt32Type
  <2>1. outs[k] \in TransactionOutputType
    BY <1>2, ElementOfSeq
  <2> QED BY <2>1 DEF TransactionOutputType
<1>5. /\ Len(ins) \in Nat /\ DOMAIN ins = 1 .. Len(ins)
      /\ Len(outs) \in Nat /\ DOMAIN outs = 1 .. Len(outs)
  BY <1>1, <1>2, LenProperties
<1>6. utxo \in [1 .. Len(ins) -> UInt32Type]
  BY <1>3, <1>5 DEF Each
<1>7. amounts \in [1 .. Len(outs) -> UInt32Type] /\ keys \in [1 .. Len(outs) -> UInt32Type]
  BY <1>4, <1>5 DEF Each
<1> HIDE DEF utxo, amounts, keys
<1>8. /\ utxo \in Seq(UInt32Type) /\ Len(utxo) = Len(ins)
      /\ amounts \in Seq(UInt32Type) /\ Len(amounts) = Len(outs)
      /\ keys \in Seq(UInt32Type) /\ Len(keys) = Len(outs)
  BY <1>5, <1>6, <1>7, FunctionSeq
<1> DEFINE record == [version |-> version, utxo |-> utxo, amounts |-> amounts,
                      public_keys |-> keys]
<1>9. RecordOf(version, txs) = record
  BY DEF RecordOf, utxo, amounts, keys, ins, outs
<1>10. /\ record \in CoinRecordType /\ Len(record.utxo) = Len(ins)
       /\ Len(record.amounts) = Len(outs) /\ Len(record.public_keys) = Len(outs)
  BY <1>8 DEF CoinRecordType
<1> HIDE DEF record
<1> QED BY <1>9, <1>10 DEF ins, outs

LEMMA UndoBlockMade ==
  ASSUME NEW block \in BlockType
  PROVE  LET txs == block.transactions
             undo == make_undo_block(block)
         IN  /\ Len(txs) \in Nat /\ DOMAIN txs = 1 .. Len(txs)
             /\ undo = [transaction_hashes |-> undo.transaction_hashes,
                        undo_coin_records |-> undo.undo_coin_records]
             /\ undo.transaction_hashes = [i \in 1 .. Len(txs) |-> Hash(Transaction_serialize(txs[i]))]
             /\ undo.undo_coin_records \in Seq(CoinRecordType)
             /\ Len(undo.undo_coin_records) = Len(txs)
             /\ \A i \in 1 .. Len(txs) :
                  /\ txs[i].version \in Byte /\ SubSeq(txs, 1, i) \in Seq(TransactionType)
                  /\ Len(SubSeq(txs, 1, i)) = i
                  /\ \A k \in 1 .. i : SubSeq(txs, 1, i)[k] = txs[k]
                  /\ undo.undo_coin_records[i] = RecordOf(txs[i].version, SubSeq(txs, 1, i))
<1> DEFINE txs == block.transactions
           n == Len(txs)
           hashes == [i \in 1 .. n |-> Hash(Transaction_serialize(txs[i]))]
           record(i) == RecordOf(txs[i].version, SubSeq(txs, 1, i))
           records == [i \in 1 .. n |-> record(i)]
           undo == make_undo_block(block)
<1>1. txs \in Seq(TransactionType)
  BY DEF BlockType
<1>2. n \in Nat /\ DOMAIN txs = 1 .. n
  BY <1>1, LenProperties
<1>3. undo = [transaction_hashes |-> hashes, undo_coin_records |-> records]
  BY <1>2 DEF make_undo_block, RecordOf, InputsOf, OutputsOf, Each
<1>4. ASSUME NEW i \in 1 .. n
      PROVE  /\ txs[i].version \in Byte /\ SubSeq(txs, 1, i) \in Seq(TransactionType)
             /\ Len(SubSeq(txs, 1, i)) = i
             /\ \A k \in 1 .. i : SubSeq(txs, 1, i)[k] = txs[k]
  <2>1. txs[i] \in TransactionType
    BY <1>1, <1>2, ElementOfSeq
  <2>2. txs[i].version \in Byte
    BY <2>1 DEF TransactionType
  <2> HIDE DEF txs
  <2>3. /\ SubSeq(txs, 1, i) \in Seq(TransactionType) /\ Len(SubSeq(txs, 1, i)) = i
        /\ \A k \in 1 .. i : SubSeq(txs, 1, i)[k] = txs[k]
    BY <1>1, <1>2
  <2> QED BY <2>2, <2>3
<1>5. \A i \in 1 .. n : record(i) \in CoinRecordType
  BY <1>4, RecordType
<1> HIDE DEF record, n
<1>6. records \in [1 .. n -> CoinRecordType]
  BY <1>5
<1>7. records \in Seq(CoinRecordType) /\ Len(records) = n
  BY <1>2, <1>6
<1>8. \A i \in 1 .. n : records[i] = record(i)
  OBVIOUS
<1> HIDE DEF records, hashes, undo
<1>9. /\ undo = [transaction_hashes |-> undo.transaction_hashes,
                 undo_coin_records |-> undo.undo_coin_records]
      /\ undo.transaction_hashes = hashes /\ undo.undo_coin_records = records
  BY <1>3
<1> QED BY <1>2, <1>4, <1>7, <1>8, <1>9, Zenon DEF undo, record, n, hashes

\* It reads past the end of a list where there are more inputs so far than outputs.
LEMMA SumOfDifferences ==
  ASSUME NEW n \in Nat, NEW f, NEW g, NEW d, Len(f) = n, Len(g) = n, Len(d) = n,
         \A k \in 1 .. n : f[k] \in Nat /\ g[k] \in Nat /\ d[k] = f[k] - g[k]
  PROVE  Sum(d) = Sum(f) - Sum(g)
<1>1. PICK F : /\ DOMAIN F = 0 .. n /\ F[0] = 0
               /\ \A k \in 0 .. n - 1 : F[k + 1] = F[k] + f[k + 1]
               /\ Sum(f) = F[n]
  BY SumIs
<1>2. PICK G : /\ DOMAIN G = 0 .. n /\ G[0] = 0
               /\ \A k \in 0 .. n - 1 : G[k + 1] = G[k] + g[k + 1]
               /\ Sum(g) = G[n]
  BY SumIs
<1>3. PICK D : /\ DOMAIN D = 0 .. n /\ D[0] = 0
               /\ \A k \in 0 .. n - 1 : D[k + 1] = D[k] + d[k + 1]
               /\ Sum(d) = D[n]
  BY SumIs
<1> DEFINE T == {k \in 0 .. n : F[k] \in Nat /\ G[k] \in Nat /\ D[k] = F[k] - G[k]}
<1>4. 0 \in T
  BY <1>1, <1>2, <1>3
<1>5. ASSUME NEW k \in 0 .. n - 1, k \in T PROVE k + 1 \in T
  <2>1. k + 1 \in 1 .. n
    OBVIOUS
  <2>2. PICK x \in Nat, y \in Nat : f[k + 1] = x /\ g[k + 1] = y /\ d[k + 1] = x - y
    BY <2>1
  <2>3. PICK u \in Nat, v \in Nat : F[k] = u /\ G[k] = v /\ D[k] = u - v
    BY <1>5
  <2>4. F[k + 1] = u + x /\ G[k + 1] = v + y /\ D[k + 1] = (u - v) + (x - y)
    BY <1>1, <1>2, <1>3, <2>2, <2>3
  <2>5. (u - v) + (x - y) = (u + x) - (v + y) /\ u + x \in Nat /\ v + y \in Nat
    OBVIOUS
  <2> QED BY <2>1, <2>4, <2>5
<1> HIDE DEF T
<1>6. \A k \in 0 .. n : k \in T
  BY <1>4, <1>5, Upwards
<1> QED BY <1>1, <1>2, <1>3, <1>6 DEF T

LEMMA UndoReadsPast ==
  ASSUME NEW block \in BlockType
  PROVE  SomeReadsPast(make_undo_block(block).undo_coin_records) <=>
           \E i \in DOMAIN block.transactions :
             SumOfSizes(SubSeq(block.transactions, 1, i), LAMBDA tx :
               Len(tx.transaction_inputs) - Len(tx.transaction_outputs)) > 0
<1> DEFINE txs == block.transactions
           records == make_undo_block(block).undo_coin_records
           upto(i) == SubSeq(txs, 1, i)
           excess(i) == SumOfSizes(upto(i), LAMBDA tx :
                          Len(tx.transaction_inputs) - Len(tx.transaction_outputs))
<1>1. /\ Len(txs) \in Nat /\ DOMAIN txs = 1 .. Len(txs) /\ DOMAIN records = 1 .. Len(txs)
      /\ \A i \in 1 .. Len(txs) :
           /\ txs[i].version \in Byte /\ upto(i) \in Seq(TransactionType) /\ Len(upto(i)) = i
           /\ records[i] = RecordOf(txs[i].version, upto(i))
  <2>1. records \in Seq(CoinRecordType) /\ Len(records) = Len(txs)
    BY UndoBlockMade
  <2>2. DOMAIN records = 1 .. Len(txs)
    BY <2>1, LenProperties
  <2> QED BY <2>2, UndoBlockMade
<1>2. ASSUME NEW i \in 1 .. Len(txs)
      PROVE  ReadsPast(records[i]) <=> excess(i) > 0
  <2> DEFINE list == upto(i)
             ins == [k \in 1 .. i |-> Len(list[k].transaction_inputs)]
             outs == [k \in 1 .. i |-> Len(list[k].transaction_outputs)]
             more == [k \in DOMAIN list |-> Len(list[k].transaction_inputs)
                                            - Len(list[k].transaction_outputs)]
  <2>1. list \in Seq(TransactionType) /\ Len(list) = i /\ i \in Nat
    BY <1>1
  <2>2. excess(i) = Sum(more)
    BY DEF SumOfSizes
  <2>3. ReadsPast(records[i]) <=> Len(InputsOf(list)) > Len(OutputsOf(list))
    <3>1. /\ records[i] = RecordOf(txs[i].version, list)
          /\ Len(records[i].utxo) = Len(InputsOf(list))
          /\ Len(records[i].amounts) = Len(OutputsOf(list))
          /\ Len(records[i].public_keys) = Len(OutputsOf(list))
      <4>1. txs[i].version \in Byte /\ records[i] = RecordOf(txs[i].version, list)
        BY <1>1
      <4> DEFINE record == RecordOf(txs[i].version, list)
      <4>2. /\ Len(record.utxo) = Len(InputsOf(list))
            /\ Len(record.amounts) = Len(OutputsOf(list))
            /\ Len(record.public_keys) = Len(OutputsOf(list))
        <5> HIDE DEF list
        <5> QED BY <2>1, <4>1, RecordType
      <4> QED BY <4>1, <4>2, Zenon
    <3> HIDE DEF records
    <3> QED BY <3>1 DEF ReadsPast
  <2> HIDE DEF list
  <2>4. DOMAIN list = 1 .. i /\ \A k \in 1 .. i : list[k] \in TransactionType
    BY <2>1, LenProperties, ElementOfSeq
  <2>5. ASSUME NEW k \in 1 .. i
        PROVE  /\ Len(list[k].transaction_inputs) \in Nat
               /\ Len(list[k].transaction_outputs) \in Nat
    <3>1. /\ list[k].transaction_inputs \in Seq(TransactionInputType)
          /\ list[k].transaction_outputs \in Seq(TransactionOutputType)
      BY <2>4 DEF TransactionType
    <3> QED BY <3>1, LenProperties
  <2>6. /\ Len(ins) = i /\ Len(outs) = i /\ Len(more) = i
        /\ \A k \in 1 .. i : /\ ins[k] = Len(list[k].transaction_inputs)
                             /\ outs[k] = Len(list[k].transaction_outputs)
                             /\ more[k] = ins[k] - outs[k]
    BY <2>1, <2>4
  <2> HIDE DEF ins, outs, more
  <2>7. \A k \in 1 .. i : ins[k] \in Nat /\ outs[k] \in Nat /\ more[k] = ins[k] - outs[k]
    BY <2>5, <2>6
  <2>8. Sum(more) = Sum(ins) - Sum(outs)
    <3>1. i \in Nat /\ Len(ins) = i /\ Len(outs) = i /\ Len(more) = i
      BY <2>1, <2>6
    <3> QED BY <2>7, <3>1, SumOfDifferences, Zenon
  <2>9. Len(InputsOf(list)) = Sum(ins) /\ Sum(ins) \in Nat
    <3>1. Len(ins) = Len(list) /\ \A k \in 1 .. Len(list) : ins[k] = Len(list[k].transaction_inputs)
      BY <2>1, <2>6
    <3> QED BY <2>1, <3>1, InputsListed
  <2>10. Len(OutputsOf(list)) = Sum(outs) /\ Sum(outs) \in Nat
    <3>1. Len(outs) = Len(list) /\ \A k \in 1 .. Len(list) : outs[k] = Len(list[k].transaction_outputs)
      BY <2>1, <2>6
    <3> QED BY <2>1, <3>1, OutputsListed
  <2> HIDE DEF excess
  <2> QED BY <2>2, <2>3, <2>8, <2>9, <2>10
<1> HIDE DEF records, excess, upto
<1>3. SomeReadsPast(records) <=> \E i \in DOMAIN txs : excess(i) > 0
  BY <1>1, <1>2 DEF SomeReadsPast
<1> QED BY <1>3 DEF records, excess, upto

\* Elsewhere the message that stands for it has the same hashes, and its records.
LEMMA UndoBlockConverted ==
  ASSUME NEW undo, NEW hashes \in Seq(UInt32Type), NEW records \in Seq(CoinRecordType),
         undo = [transaction_hashes |-> hashes, undo_coin_records |-> records],
         ~SomeReadsPast(records)
  PROVE  LET p == ToPUndoBlock(undo)
         IN  /\ p \in PUndoBlocks /\ p.transaction_hashes = hashes
             /\ DOMAIN p.undo_coin_records = DOMAIN records
             /\ Len(p.undo_coin_records) = Len(records)
             /\ ~SomeReadsPast(p.undo_coin_records)
             /\ \A i \in DOMAIN records : ToCoinRecord(p.undo_coin_records[i]) = Listed(records[i])
<1> DEFINE coins == Each(ToPCoinRecord, records)
           n == Len(records)
           p == [transaction_hashes |-> hashes, undo_coin_records |-> coins]
<1>1. ToPUndoBlock(undo) = p
  <2> DEFINE q == ToPUndoBlock(undo)
  <2>1. q = [PUndoBlock_Clear EXCEPT !.transaction_hashes = hashes, !.undo_coin_records = coins]
    BY DEF ToPUndoBlock
  <2> HIDE DEF coins
  <2>2. q.transaction_hashes = hashes /\ q.undo_coin_records = coins
    BY <2>1 DEF PUndoBlock_Clear
  <2>3. /\ DOMAIN q = {"transaction_hashes", "undo_coin_records"}
        /\ q = [member \in DOMAIN q |-> q[member]]
    BY <2>1 DEF PUndoBlock_Clear
  <2> HIDE DEF q
  <2>4. q = p
    BY <2>2, <2>3
  <2> QED BY <2>4 DEF q
<1>2. n \in Nat /\ DOMAIN records = 1 .. n
  BY LenProperties
<1>3. ASSUME NEW i \in 1 .. n
      PROVE  /\ ToPCoinRecord(records[i]) \in PCoinRecords
             /\ ToCoinRecord(ToPCoinRecord(records[i])) = Listed(records[i])
             /\ ~ReadsPast(ToPCoinRecord(records[i]))
  <2>1. records[i] \in CoinRecordType /\ ~ReadsPast(records[i])
    BY <1>2, ElementOfSeq DEF SomeReadsPast
  <2> QED BY <2>1, CoinRecordConverted
<1>4. coins = [i \in 1 .. n |-> ToPCoinRecord(records[i])]
  BY <1>2 DEF Each
<1> HIDE DEF n, coins
<1>5. coins \in [1 .. n -> PCoinRecords]
  BY <1>3, <1>4
<1>6. coins \in Seq(PCoinRecords) /\ Len(coins) = n /\ DOMAIN coins = 1 .. n
  BY <1>2, <1>5
<1>7. \A i \in 1 .. n : coins[i] = ToPCoinRecord(records[i])
  BY <1>4
<1>8. ~SomeReadsPast(coins)
  BY <1>3, <1>6, <1>7 DEF SomeReadsPast
<1>9. \A i \in 1 .. n : ToCoinRecord(coins[i]) = Listed(records[i])
  BY <1>3, <1>7
<1>10. p \in PUndoBlocks
  BY <1>6 DEF PUndoBlocks
<1>11. p.transaction_hashes = hashes /\ p.undo_coin_records = coins
  OBVIOUS
<1> HIDE DEF p
<1> QED BY <1>1, <1>2, <1>6, <1>8, <1>9, <1>10, <1>11 DEF n

-----------------------------------------------------------------------------
(* The kinds of objects: what CASE says of each.                            *)

LEMMA SerializedIs ==
  /\ kind = "TransactionInput" => Serialized = TransactionInput_serialize(object)
  /\ kind = "TransactionOutput" => Serialized = TransactionOutput_serialize(object)
  /\ kind = "Transaction" => Serialized = Transaction_serialize(object)
  /\ kind = "BlockHeader" => Serialized = BlockHeader_serialize(object)
  /\ kind = "Block" => Serialized = Block_serialize(object)
  /\ kind = "BlockRecord" => Serialized = BlockRecord_serialize(object)
  /\ kind = "CoinRecord" => Serialized = CoinRecord_serialize(object)
  /\ kind = "UndoBlock" => Serialized = UndoBlock_serialize(make_undo_block(object))
BY DEF Serialized

LEMMA DeserializedIs ==
  /\ kind = "TransactionInput" => Deserialized = TransactionInput_deserialize(bytes)
  /\ kind = "TransactionOutput" => Deserialized = TransactionOutput_deserialize(bytes)
  /\ kind = "Transaction" => Deserialized = Transaction_deserialize(bytes)
  /\ kind = "BlockHeader" => Deserialized = BlockHeader_deserialize(bytes)
  /\ kind = "Block" => Deserialized = Block_deserialize(bytes)
  /\ kind = "BlockRecord" => Deserialized = BlockRecord_deserialize(bytes)
  /\ kind = "CoinRecord" => Deserialized = CoinRecord_deserialize(bytes)
  /\ kind = "UndoBlock" => Deserialized = UndoBlock_deserialize(bytes)
BY DEF Deserialized

LEMMA ByteSizeIs ==
  ASSUME NEW o
  PROVE  /\ ByteSizeLong("TransactionInput", o) = PTransactionInput_ByteSizeLong(ToPTransactionInput(o))
         /\ ByteSizeLong("TransactionOutput", o) = PTransactionOutput_ByteSizeLong(ToPTransactionOutput(o))
         /\ ByteSizeLong("Transaction", o) = PTransaction_ByteSizeLong(ToPTransaction(o))
         /\ ByteSizeLong("BlockHeader", o) = PBlockHeader_ByteSizeLong(ToPBlockHeader(o))
         /\ ByteSizeLong("Block", o) = PBlock_ByteSizeLong(ToPBlock(o))
         /\ ByteSizeLong("BlockRecord", o) = PBlockRecord_ByteSizeLong(ToPBlockRecord(o))
         /\ ByteSizeLong("CoinRecord", o) = PCoinRecord_ByteSizeLong(ToPCoinRecord(o))
         /\ ByteSizeLong("UndoBlock", o) = PUndoBlock_ByteSizeLong(ToPUndoBlock(make_undo_block(o)))
BY DEF ByteSizeLong

\* The objects that can be: their types, and the undo blocks that are written.
LEMMA ObjectTypes ==
  ASSUME NEW o
  PROVE  /\ o \in Object["TransactionInput"] => o \in TransactionInputType
         /\ o \in Object["TransactionOutput"] => o \in TransactionOutputType
         /\ o \in Object["Transaction"] => o \in TransactionType
         /\ o \in Object["BlockHeader"] => o \in BlockHeaderType
         /\ o \in Object["Block"] => o \in BlockType
         /\ o \in Object["BlockRecord"] => o \in BlockRecordType
         /\ o \in Object["CoinRecord"] => o \in CoinRecordType /\ Complete(o)
         /\ o \in Object["UndoBlock"] => o \in BlockType
BY CodecAssumption

LEMMA CompleteIsWritten ==
  ASSUME NEW o \in CoinRecordType, Complete(o)
  PROVE  ~ReadsPast(o)
BY DEF CoinRecordType, Complete, ReadsPast

LEMMA UndoBlockWritten ==
  ASSUME NEW o \in Object["UndoBlock"], ~SomeReadsPast(make_undo_block(o).undo_coin_records)
  PROVE  LET undo == make_undo_block(o)
             p == ToPUndoBlock(undo)
         IN  /\ undo.transaction_hashes \in Seq(UInt32Type)
             /\ undo.undo_coin_records \in Seq(CoinRecordType)
             /\ undo = [transaction_hashes |-> undo.transaction_hashes,
                        undo_coin_records |-> undo.undo_coin_records]
             /\ Len(undo.undo_coin_records) = Len(undo.transaction_hashes)
             /\ p \in PUndoBlocks /\ p.transaction_hashes = undo.transaction_hashes
             /\ DOMAIN p.undo_coin_records = DOMAIN undo.undo_coin_records
             /\ Len(p.undo_coin_records) = Len(undo.undo_coin_records)
             /\ ~SomeReadsPast(p.undo_coin_records)
             /\ \A i \in DOMAIN undo.undo_coin_records :
                  ToCoinRecord(p.undo_coin_records[i]) = Listed(undo.undo_coin_records[i])
<1> DEFINE undo == make_undo_block(o)
           hashes == undo.transaction_hashes
           records == undo.undo_coin_records
           n == Len(o.transactions)
<1>1. o \in BlockType
  BY ObjectTypes
<1>2. /\ n \in Nat /\ DOMAIN o.transactions = 1 .. n
      /\ undo = [transaction_hashes |-> hashes, undo_coin_records |-> records]
      /\ hashes = [i \in 1 .. n |-> Hash(Transaction_serialize(o.transactions[i]))]
      /\ records \in Seq(CoinRecordType) /\ Len(records) = n
  BY <1>1, UndoBlockMade
<1>3. \A i \in 1 .. n : Hash(Transaction_serialize(o.transactions[i])) \in UInt32Type
  BY <1>2, CodecAssumption
<1> HIDE DEF hashes, records, n, undo
<1>4. hashes \in [1 .. n -> UInt32Type]
  BY <1>2, <1>3
<1>5. hashes \in Seq(UInt32Type) /\ Len(hashes) = n
  BY <1>2, <1>4
<1>6. ~SomeReadsPast(records)
  BY DEF records, undo
<1>7. /\ ToPUndoBlock(undo) \in PUndoBlocks
      /\ ToPUndoBlock(undo).transaction_hashes = hashes
      /\ DOMAIN ToPUndoBlock(undo).undo_coin_records = DOMAIN records
      /\ Len(ToPUndoBlock(undo).undo_coin_records) = Len(records)
      /\ ~SomeReadsPast(ToPUndoBlock(undo).undo_coin_records)
      /\ \A i \in DOMAIN records :
           ToCoinRecord(ToPUndoBlock(undo).undo_coin_records[i]) = Listed(records[i])
  BY <1>2, <1>5, <1>6, UndoBlockConverted
<1> QED BY <1>2, <1>5, <1>7 DEF hashes, records, undo

\* What is written of an object is as long as its size.
LEMMA SerializedSize ==
  ASSUME kind \in Kind, object \in Object[kind], ~SerializeReadsPast
  PROVE  Writes(Serialized, ByteSizeLong(kind, object))
<1>1. CASE kind = "TransactionInput"
  BY <1>1, ObjectTypes, SerializedIs, ByteSizeIs, TransactionInputConverted, TransactionInputSize
     DEF TransactionInput_serialize
<1>2. CASE kind = "TransactionOutput"
  BY <1>2, ObjectTypes, SerializedIs, ByteSizeIs, TransactionOutputConverted, TransactionOutputSize
     DEF TransactionOutput_serialize
<1>3. CASE kind = "Transaction"
  BY <1>3, ObjectTypes, SerializedIs, ByteSizeIs, TransactionConverted, TransactionSize
     DEF Transaction_serialize
<1>4. CASE kind = "BlockHeader"
  BY <1>4, ObjectTypes, SerializedIs, ByteSizeIs, BlockHeaderConverted, BlockHeaderSize
     DEF BlockHeader_serialize
<1>5. CASE kind = "Block"
  <2>1. ToPBlock(object) \in PBlocks
    BY <1>5, ObjectTypes, BlockConverted
  <2> QED BY <1>5, <2>1, SerializedIs, ByteSizeIs, BlockSize DEF Block_serialize
<1>6. CASE kind = "BlockRecord"
  <2>1. ToPBlockRecord(object) \in PBlockRecords
    BY <1>6, ObjectTypes, BlockRecordConverted
  <2> QED BY <1>6, <2>1, SerializedIs, ByteSizeIs, BlockRecordSize DEF BlockRecord_serialize
<1>7. CASE kind = "CoinRecord"
  <2>1. ToPCoinRecord(object) \in PCoinRecords
    BY <1>7, ObjectTypes, CompleteIsWritten, CoinRecordConverted
  <2> QED BY <1>7, <2>1, SerializedIs, ByteSizeIs, CoinRecordSize DEF CoinRecord_serialize
<1>8. CASE kind = "UndoBlock"
  <2>1. ToPUndoBlock(make_undo_block(object)) \in PUndoBlocks
    BY <1>8, UndoBlockWritten DEF SerializeReadsPast
  <2> QED BY <1>8, <2>1, SerializedIs, ByteSizeIs, UndoBlockSize DEF UndoBlock_serialize
<1> QED BY <1>1, <1>2, <1>3, <1>4, <1>5, <1>6, <1>7, <1>8 DEF Kind

\* A buffer has these bytes behind ptr.
Holds(b, ptr, s) ==
  /\ b \in Seq(Nat) /\ ptr \in Nat /\ s \in Seq(Nat)
  /\ ptr + Len(s) <= Len(b) /\ \A k \in 1 .. Len(s) : b[ptr + k] = s[k]

LEMMA HoldsJoined ==
  ASSUME NEW b, NEW ptr, NEW s \in Seq(Nat), NEW t \in Seq(Nat), Holds(b, ptr, s \o t)
  PROVE  /\ Holds(b, ptr, s) /\ Holds(b, ptr + Len(s), t)
         /\ ptr \in Nat /\ Len(s) \in Nat /\ Len(t) \in Nat /\ Len(s \o t) = Len(s) + Len(t)
<1>1. Len(s) \in Nat /\ Len(t) \in Nat
  BY LenProperties
<1>2. /\ Len(s \o t) = Len(s) + Len(t)
      /\ \A k \in 1 .. Len(s) : (s \o t)[k] = s[k]
      /\ \A k \in 1 .. Len(t) : (s \o t)[Len(s) + k] = t[k]
  <2>1. /\ Len(s \o t) = Len(s) + Len(t)
        /\ \A i \in 1 .. Len(s) + Len(t) :
             (s \o t)[i] = IF i <= Len(s) THEN s[i] ELSE t[i - Len(s)]
    BY ConcatProperties
  <2>2. ASSUME NEW k \in 1 .. Len(s) PROVE (s \o t)[k] = s[k]
    <3>1. k \in 1 .. Len(s) + Len(t) /\ k <= Len(s)
      BY <1>1
    <3> QED BY <2>1, <3>1
  <2>3. ASSUME NEW k \in 1 .. Len(t) PROVE (s \o t)[Len(s) + k] = t[k]
    <3>1. /\ Len(s) + k \in 1 .. Len(s) + Len(t) /\ ~(Len(s) + k <= Len(s))
          /\ (Len(s) + k) - Len(s) = k
      BY <1>1
    <3> QED BY <2>1, <3>1
  <2> QED BY <2>1, <2>2, <2>3
<1> DEFINE st == s \o t
<1> HIDE DEF st
<1>3. /\ Len(st) = Len(s) + Len(t)
      /\ \A k \in 1 .. Len(s) : st[k] = s[k]
      /\ \A k \in 1 .. Len(t) : st[Len(s) + k] = t[k]
  BY <1>2 DEF st
<1>4. /\ b \in Seq(Nat) /\ ptr \in Nat
      /\ ptr + Len(st) <= Len(b) /\ \A k \in 1 .. Len(st) : b[ptr + k] = st[k]
  BY DEF Holds, st
<1>5. Len(b) \in Nat
  BY <1>4, LenProperties
<1>6. Holds(b, ptr, s)
  <2>1. ptr + Len(s) <= Len(b)
    BY <1>1, <1>3, <1>4, <1>5
  <2>2. \A k \in 1 .. Len(s) : k \in 1 .. Len(st)
    BY <1>1, <1>3
  <2> QED BY <1>3, <1>4, <2>1, <2>2 DEF Holds
<1>7. Holds(b, ptr + Len(s), t)
  <2>1. ptr + Len(s) \in Nat /\ (ptr + Len(s)) + Len(t) <= Len(b)
    BY <1>1, <1>3, <1>4, <1>5
  <2>2. ASSUME NEW k \in 1 .. Len(t) PROVE b[(ptr + Len(s)) + k] = t[k]
    <3>1. Len(s) + k \in 1 .. Len(st) /\ (ptr + Len(s)) + k = ptr + (Len(s) + k)
      BY <1>1, <1>3, <1>4
    <3> QED BY <1>3, <1>4, <3>1
  <2> QED BY <1>4, <2>1, <2>2 DEF Holds
<1> QED BY <1>1, <1>3, <1>4, <1>6, <1>7 DEF st

LEMMA ByteHeld ==
  ASSUME NEW b, NEW ptr, NEW s, Holds(b, ptr, s), NEW k \in 1 .. Len(s)
  PROVE  ByteAt(b, ptr + k - 1) = s[k]
<1>1. /\ ptr \in Nat /\ ptr + Len(s) <= Len(b) /\ b[ptr + k] = s[k]
      /\ Len(s) \in Nat /\ Len(b) \in Nat
  BY LenProperties DEF Holds
<1>2. ptr + k - 1 < Len(b) /\ (ptr + k - 1) + 1 = ptr + k
  BY <1>1
<1> QED BY <1>1, <1>2 DEF ByteAt

LEMMA SeptetsOf ==
  ASSUME NEW n \in UInt32Type
  PROVE  /\ \A k \in 1 .. 5 : Septets(n)[k] \in 0 .. 127
         /\ \A k \in 1 .. 5 : k > UInt32Size(n) => Septets(n)[k] = 0
         /\ Septets(n)[5] % 16 = Septets(n)[5]
         /\ n = Septets(n)[1] + 128 * Septets(n)[2] + 128 ^ 2 * Septets(n)[3]
                + 128 ^ 3 * Septets(n)[4] + 128 ^ 4 * Septets(n)[5]
<1>1. n \in Nat /\ n \div 128 ^ 4 < 16
  BY DEF UInt32Type
<1>2. \A k \in 1 .. 5 : Septets(n)[k] \in 0 .. 127
  BY <1>1 DEF Septets
<1>3. \A k \in 1 .. 5 : k > UInt32Size(n) => Septets(n)[k] = 0
  BY <1>1 DEF Septets, UInt32Size
<1>4. Septets(n)[5] % 16 = Septets(n)[5]
  BY <1>1 DEF Septets
<1>5. n = Septets(n)[1] + 128 * Septets(n)[2] + 128 ^ 2 * Septets(n)[3]
                + 128 ^ 3 * Septets(n)[4] + 128 ^ 4 * Septets(n)[5]
  BY <1>1 DEF Septets
<1> QED BY <1>2, <1>3, <1>4, <1>5

\* Behind ptr is a varint with this value that goes up to end.
VarintAt(b, ptr, n, end) ==
  ~Malformed(b, ptr) /\ ReadVarint(b, ptr) = [value |-> n, ptr |-> end]

\* A varint is read as the number it was written for.
LEMMA VarintRead ==
  ASSUME NEW b, NEW ptr, NEW n \in UInt32Type, Holds(b, ptr, Varint(n))
  PROVE  VarintAt(b, ptr, n, ptr + UInt32Size(n))
<1> DEFINE size == UInt32Size(n)
           septet(k) == IF k <= size THEN ByteAt(b, ptr + k - 1) % 128 ELSE 0
<1>1. n \in Nat /\ size \in 1 .. 5 /\ Len(Varint(n)) = size
  BY VarintType DEF UInt32Type
<1>2. ASSUME NEW k \in 1 .. size
      PROVE  ByteAt(b, ptr + k - 1) = Septets(n)[k] + (IF k < size THEN 128 ELSE 0)
  <2>1. ByteAt(b, ptr + k - 1) = Varint(n)[k]
    BY <1>1, ByteHeld
  <2> QED BY <2>1 DEF Varint
<1> HIDE DEF size
<1>3. \A k \in 1 .. size : Septets(n)[k] \in 0 .. 127
  <2>1. \A k \in 1 .. 5 : Septets(n)[k] \in 0 .. 127
    BY SeptetsOf
  <2>2. \A k \in 1 .. size : k \in 1 .. 5
    BY <1>1
  <2> QED BY <2>1, <2>2
<1>4. size \in VarintEnds(b, ptr)
  <2>1. PICK x \in 0 .. 127 : Septets(n)[size] = x
    BY <1>1, <1>3
  <2>2. ByteAt(b, ptr + size - 1) = x
    BY <1>1, <1>2, <2>1
  <2> QED BY <1>1, <2>2 DEF VarintEnds, MaxVarintBytes
<1>5. ASSUME NEW k \in VarintEnds(b, ptr) PROVE size <= k
  <2> SUFFICES ASSUME k < size PROVE FALSE
    BY <1>1 DEF VarintEnds, MaxVarintBytes
  <2>1. k \in 1 .. size /\ ByteAt(b, ptr + k - 1) < 128
    BY <1>1 DEF VarintEnds, MaxVarintBytes
  <2>2. ByteAt(b, ptr + k - 1) = Septets(n)[k] + 128 /\ Septets(n)[k] \in 0 .. 127
    BY <1>2, <1>3, <2>1
  <2> QED BY <2>1, <2>2
<1>6. Min(VarintEnds(b, ptr)) = size
  <2>1. \A k \in VarintEnds(b, ptr) : k \in Nat
    BY DEF VarintEnds, MaxVarintBytes
  <2> QED BY <1>4, <1>5, <2>1 DEF Min
<1>7. ASSUME NEW k \in 1 .. 5 PROVE septet(k) = Septets(n)[k]
  <2>1. CASE k <= size
    <3>1. PICK x \in 0 .. 127 : Septets(n)[k] = x
      BY <1>1, <1>3, <2>1
    <3>2. ByteAt(b, ptr + k - 1) = x + (IF k < size THEN 128 ELSE 0)
      BY <1>1, <1>2, <2>1, <3>1
    <3>3. ByteAt(b, ptr + k - 1) % 128 = x
      BY <3>2
    <3> QED BY <2>1, <3>1, <3>3
  <2>2. CASE ~(k <= size)
    <3>1. k > size
      BY <1>1, <2>2
    <3> QED BY <2>2, <3>1, SeptetsOf DEF size
  <2> QED BY <2>1, <2>2
<1>8. ReadVarint(b, ptr) =
        [value |-> septet(1) + 128 * septet(2) + 128 ^ 2 * septet(3) + 128 ^ 3 * septet(4)
                   + 128 ^ 4 * (septet(5) % 16),
         ptr |-> ptr + size]
  BY <1>6 DEF ReadVarint
<1> HIDE DEF septet
<1>9. septet(1) + 128 * septet(2) + 128 ^ 2 * septet(3) + 128 ^ 3 * septet(4)
        + 128 ^ 4 * (septet(5) % 16) = n
  BY <1>7, SeptetsOf
<1>10. ~Malformed(b, ptr)
  BY <1>4 DEF Malformed
<1> QED BY <1>8, <1>9, <1>10 DEF size, VarintAt

\* A tag is a varint of one byte.
LEMMA TagRead ==
  ASSUME NEW b, NEW ptr, NEW tag \in 0 .. 127, Holds(b, ptr, <<tag>>)
  PROVE  VarintAt(b, ptr, tag, ptr + 1)
<1>1. UInt32Size(tag) = 1 /\ tag \in UInt32Type
  BY DEF UInt32Size, UInt32Type
<1>2. Septets(tag)[1] + 0 = tag
  BY DEF Septets
<1>3. Varint(tag) = [k \in 1 .. 1 |-> Septets(tag)[k] + IF k < 1 THEN 128 ELSE 0]
  BY <1>1 DEF Varint
<1>4. Varint(tag) = <<tag>>
  <2>1. \A k \in 1 .. 1 : k = 1 /\ ~(k < 1)
    OBVIOUS
  <2>2. Varint(tag) = [k \in 1 .. 1 |-> tag]
    BY <1>2, <1>3, <2>1
  <2> QED BY <2>2
<1> QED BY <1>1, <1>4, VarintRead

-----------------------------------------------------------------------------
(* The iterations, as long as nothing fails. *)

RunOf(b, run) == \A k \in 0 .. MaxIterations(b) - 1 : run[k + 1] = InternalParse(b, run[k])

IsList(s) == \E S : s \in Seq(S)

\* Some iteration, not too late, has read msg up to ptr.
At(b, run, type, limit, ptr, msg, callers) ==
  /\ b \in Seq(Nat) /\ RunOf(b, run) /\ IsList(callers)
  /\ limit \in Nat /\ ptr \in Nat /\ ptr <= limit /\ ptr <= Len(b)
  /\ \E j \in 0 .. MaxIterations(b) :
       /\ run[j] = ParseCall(type, limit, CursorAt(ptr, msg), callers)
       /\ j + Len(callers) <= ptr

LEMMA Step ==
  ASSUME NEW b, NEW run, NEW type, NEW limit, NEW ptr, NEW msg, NEW callers,
         NEW type2, NEW limit2, NEW ptr2, NEW msg2, NEW callers2,
         At(b, run, type, limit, ptr, msg, callers),
         InternalParse(b, ParseCall(type, limit, CursorAt(ptr, msg), callers))
           = ParseCall(type2, limit2, CursorAt(ptr2, msg2), callers2),
         limit2 \in Nat, ptr2 \in Nat, ptr2 <= limit2, ptr2 <= Len(b), IsList(callers2),
         ptr + 1 + Len(callers2) <= ptr2 + Len(callers)
  PROVE  At(b, run, type2, limit2, ptr2, msg2, callers2)
<1>1. PICK j \in 0 .. MaxIterations(b) :
        /\ run[j] = ParseCall(type, limit, CursorAt(ptr, msg), callers)
        /\ j + Len(callers) <= ptr
  BY DEF At
<1>2. Len(callers) \in Nat /\ Len(callers2) \in Nat /\ Len(b) \in Nat
  BY LenProperties DEF IsList, At
<1>3. ptr \in Nat /\ limit \in Nat /\ ptr <= limit /\ ptr <= Len(b)
  BY DEF At
<1>4. MaxIterations(b) = Len(b) + 2
  BY DEF MaxIterations
<1>5. j \in 0 .. MaxIterations(b) - 1 /\ j + 1 \in 0 .. MaxIterations(b)
  BY <1>1, <1>2, <1>3, <1>4
<1>6. run[j + 1] = ParseCall(type2, limit2, CursorAt(ptr2, msg2), callers2)
  <2>1. run[j + 1] = InternalParse(b, run[j])
    BY <1>5 DEF At, RunOf
  <2> QED BY <1>1, <2>1, Zenon
<1>7. (j + 1) + Len(callers2) <= ptr2
  BY <1>1, <1>2, <1>3
<1> QED BY <1>5, <1>6, <1>7 DEF At

LEMMA CursorIs ==
  ASSUME NEW ptr, NEW msg
  PROVE  /\ CursorAt(ptr, msg).ptr = ptr /\ CursorAt(ptr, msg).msg = msg
         /\ CursorAt(ptr, msg).failed = FALSE /\ CursorAt(ptr, msg).ended = FALSE
BY DEF CursorAt

LEMMA CursorMoves ==
  ASSUME NEW ptr, NEW msg, NEW ptr2
  PROVE  [CursorAt(ptr, msg) EXCEPT !.ptr = ptr2] = CursorAt(ptr2, msg)
<1> DEFINE q == [CursorAt(ptr, msg) EXCEPT !.ptr = ptr2]
<1>1. q.ptr = ptr2 /\ q.msg = msg /\ q.failed = FALSE /\ q.ended = FALSE
  BY DEF CursorAt
<1>2. DOMAIN q = {"ptr", "msg", "failed", "ended"} /\ q = [m \in DOMAIN q |-> q[m]]
  BY DEF CursorAt
<1> HIDE DEF q
<1>3. q = CursorAt(ptr2, msg)
  BY <1>1, <1>2 DEF CursorAt
<1> QED BY <1>3 DEF q

\* What a reader does to the cursor.
ReadInto(cursor, member, value, ptr) == [cursor EXCEPT !.msg[member] = value, !.ptr = ptr]

LEMMA CursorReads ==
  ASSUME NEW ptr, NEW msg, NEW ptr2, NEW member, NEW value
  PROVE  ReadInto(CursorAt(ptr, msg), member, value, ptr2)
           = CursorAt(ptr2, [msg EXCEPT ![member] = value])
<1> DEFINE q == ReadInto(CursorAt(ptr, msg), member, value, ptr2)
<1>1. q.ptr = ptr2 /\ q.msg = [msg EXCEPT ![member] = value] /\ q.failed = FALSE /\ q.ended = FALSE
  BY DEF CursorAt, ReadInto
<1>2. DOMAIN q = {"ptr", "msg", "failed", "ended"} /\ q = [m \in DOMAIN q |-> q[m]]
  BY DEF CursorAt, ReadInto
<1> HIDE DEF q
<1>3. q = CursorAt(ptr2, [msg EXCEPT ![member] = value])
  BY <1>1, <1>2 DEF CursorAt
<1> QED BY <1>3 DEF q

LEMMA CallIs ==
  ASSUME NEW type, NEW limit, NEW cursor, NEW callers
  PROVE  LET call == ParseCall(type, limit, cursor, callers)
         IN  /\ call.type = type /\ call.limit = limit /\ call.cursor = cursor
             /\ call.callers = callers
BY DEF ParseCall

LEMMA CallGoesOn ==
  ASSUME NEW type, NEW limit, NEW cursor, NEW callers, NEW cursor2
  PROVE  [ParseCall(type, limit, cursor, callers) EXCEPT !.cursor = cursor2]
           = ParseCall(type, limit, cursor2, callers)
<1> DEFINE q == [ParseCall(type, limit, cursor, callers) EXCEPT !.cursor = cursor2]
<1>1. q.type = type /\ q.limit = limit /\ q.cursor = cursor2 /\ q.callers = callers
  BY DEF ParseCall
<1>2. DOMAIN q = {"type", "limit", "cursor", "callers"} /\ q = [m \in DOMAIN q |-> q[m]]
  BY DEF ParseCall
<1> HIDE DEF q
<1>3. q = ParseCall(type, limit, cursor2, callers)
  BY <1>1, <1>2 DEF ParseCall
<1> QED BY <1>3 DEF q

\* Behind ptr is the tag of a field, and behind that no malformed varint.
FieldAt(b, ptr, type, field) ==
  /\ field # NoField /\ ~Malformed(b, ptr + 1)
  /\ \E tag \in 1 .. 127 : FieldOf(type, tag) = field /\ Holds(b, ptr, <<tag>>)

OfMessage(field) == field.reader \in {"message", "another message"}

LEMMA TagIsThere ==
  ASSUME NEW b, NEW ptr, NEW type, NEW field, FieldAt(b, ptr, type, field)
  PROVE  ptr < Len(b)
<1>1. PICK tag \in 1 .. 127 : Holds(b, ptr, <<tag>>)
  BY DEF FieldAt
<1>2. b \in Seq(Nat) /\ ptr \in Nat /\ ptr + Len(<<tag>>) <= Len(b)
  BY <1>1 DEF Holds
<1>3. Len(<<tag>>) = 1 /\ Len(b) \in Nat
  BY <1>2, LenProperties
<1> QED BY <1>2, <1>3

\* Such a field is read.
LEMMA AtField ==
  ASSUME NEW b, NEW run, NEW type, NEW limit, NEW ptr, NEW msg, NEW callers, NEW field,
         At(b, run, type, limit, ptr, msg, callers), FieldAt(b, ptr, type, field), ptr < limit
  PROVE  /\ OfMessage(field) =>
              InternalParse(b, ParseCall(type, limit, CursorAt(ptr, msg), callers))
                = ParseMessage(b, ParseCall(type, limit, CursorAt(ptr, msg), callers), field,
                    CursorAt(ptr + 1, msg))
         /\ ~OfMessage(field) =>
              InternalParse(b, ParseCall(type, limit, CursorAt(ptr, msg), callers))
                = ParseCall(type, limit, ReadField(field, b, CursorAt(ptr + 1, msg)), callers)
<1> DEFINE cursor == CursorAt(ptr, msg)
           call == ParseCall(type, limit, cursor, callers)
           read == ReadVarint(b, ptr)
           at == CursorAt(ptr + 1, msg)
<1>1. /\ call.type = type /\ call.limit = limit /\ call.cursor = cursor
      /\ call.callers = callers
  BY CallIs
<1>2. cursor.ptr = ptr /\ cursor.msg = msg /\ cursor.failed = FALSE /\ cursor.ended = FALSE
  BY DEF CursorAt
<1>3. ~Done(b, cursor, limit)
  <2>1. ptr < limit /\ ptr < Len(b) /\ ptr \in Nat /\ limit \in Nat /\ Len(b) \in Nat
    BY TagIsThere, LenProperties DEF At
  <2> HIDE DEF cursor
  <2> QED BY <1>2, <2>1 DEF Done
<1>4. PICK tag \in 1 .. 127 : FieldOf(type, tag) = field /\ Holds(b, ptr, <<tag>>)
  BY DEF FieldAt
<1>5. ~Malformed(b, ptr) /\ read = [value |-> tag, ptr |-> ptr + 1]
  <2>1. tag \in 0 .. 127 /\ Holds(b, ptr, <<tag>>)
    BY <1>4
  <2> QED BY <2>1, TagRead DEF VarintAt
<1>6. FieldOf(type, read.value) = field /\ read.ptr = ptr + 1
  BY <1>4, <1>5
<1>7. [cursor EXCEPT !.ptr = ptr + 1] = at
  BY CursorMoves
<1>8. at.ptr = ptr + 1
  BY CursorIs
<1>9. [call EXCEPT !.cursor = ReadField(field, b, at)]
        = ParseCall(type, limit, ReadField(field, b, at), callers)
  BY CallGoesOn
<1> HIDE DEF cursor, call, read, at
<1>10. field # NoField /\ ~Malformed(b, at.ptr)
  BY <1>8 DEF FieldAt
<1>11. InternalParse(b, call) =
        IF field.reader \in {"message", "another message"}
        THEN ParseMessage(b, call, field, at)
        ELSE [call EXCEPT !.cursor = ReadField(field, b, at)]
  <2>1. at = [cursor EXCEPT !.ptr = read.ptr]
    BY <1>6, <1>7, Zenon
  <2>2. InternalParse(b, call) =
          IF call.callers = <<>> /\ Done(b, cursor, limit) THEN call
          ELSE IF Done(b, cursor, limit) THEN Return(b, call)
          ELSE IF Malformed(b, ptr) THEN [call EXCEPT !.cursor = Failed(cursor)]
          ELSE IF field = NoField THEN [call EXCEPT !.cursor = Unusual(read.value, b, at)]
          ELSE IF Malformed(b, at.ptr) THEN [call EXCEPT !.cursor = Failed(at)]
          ELSE IF field.reader \in {"message", "another message"}
               THEN ParseMessage(b, call, field, at)
          ELSE [call EXCEPT !.cursor = ReadField(field, b, at)]
    BY <1>1, <1>2, <1>6, <2>1, Zenon DEF InternalParse, read
  <2> QED BY <1>3, <1>5, <1>10, <2>2, Zenon
<1> QED BY <1>9, <1>11, Zenon DEF call, cursor, at, OfMessage

\* Not a message, and it ends there.
Reads(field, b, ptr, msg, end, msg2) ==
  /\ ~OfMessage(field) /\ ReadField(field, b, CursorAt(ptr, msg)) = CursorAt(end, msg2)

LEMMA FieldRead ==
  ASSUME NEW b, NEW run, NEW type, NEW limit, NEW ptr, NEW msg, NEW callers, NEW field,
         At(b, run, type, limit, ptr, msg, callers), FieldAt(b, ptr, type, field),
         NEW end \in Nat, ptr + 2 <= end, end <= limit, end <= Len(b), NEW msg2,
         Reads(field, b, ptr + 1, msg, end, msg2)
  PROVE  At(b, run, type, limit, end, msg2, callers)
<1>1. ptr \in Nat /\ limit \in Nat /\ IsList(callers)
  BY DEF At
<1>2. ptr < limit
  BY <1>1
<1>3. InternalParse(b, ParseCall(type, limit, CursorAt(ptr, msg), callers)) =
        ParseCall(type, limit, CursorAt(end, msg2), callers)
  BY <1>2, AtField DEF Reads
<1>4. ptr + 1 + Len(callers) <= end + Len(callers)
  <2>1. Len(callers) \in Nat
    BY <1>1, LenProperties DEF IsList
  <2> QED BY <1>1, <2>1
<1> QED BY <1>1, <1>3, <1>4, Step

\* What ReadField makes of a field is up to its reader.
LEMMA ReadFieldIs ==
  ASSUME NEW member, NEW b, NEW cursor
  PROVE  /\ ReadField(UInt32(member), b, cursor) = ReadUInt32(b, cursor, member)
         /\ ReadField(Boolean(member), b, cursor) = ReadBool(b, cursor, member)
         /\ ReadField(String(member), b, cursor) = ReadString(b, cursor, member)
         /\ ReadField(PackedUInt32(member), b, cursor) = ReadPacked(b, cursor, member)
<1>1. ReadField(UInt32(member), b, cursor) = ReadUInt32(b, cursor, member)
  BY DEF ReadField, UInt32
<1>2. ReadField(Boolean(member), b, cursor) = ReadBool(b, cursor, member)
  BY DEF ReadField, Boolean
<1>3. ReadField(String(member), b, cursor) = ReadString(b, cursor, member)
  BY DEF ReadField, String
<1>4. ReadField(PackedUInt32(member), b, cursor) = ReadPacked(b, cursor, member)
  BY DEF ReadField, PackedUInt32
<1> QED BY <1>1, <1>2, <1>3, <1>4

LEMMA FieldKinds ==
  ASSUME NEW member, NEW type
  PROVE  /\ UInt32(member) # NoField /\ ~OfMessage(UInt32(member))
         /\ Boolean(member) # NoField /\ ~OfMessage(Boolean(member))
         /\ String(member) # NoField /\ ~OfMessage(String(member))
         /\ PackedUInt32(member) # NoField /\ ~OfMessage(PackedUInt32(member))
         /\ Message(type, member) # NoField /\ OfMessage(Message(type, member))
         /\ Messages(type, member) # NoField /\ OfMessage(Messages(type, member))
<1>1. /\ UInt32(member) # NoField /\ ~OfMessage(UInt32(member))
      /\ Boolean(member) # NoField /\ ~OfMessage(Boolean(member))
  BY DEF UInt32, Boolean, NoField, OfMessage
<1>2. /\ String(member) # NoField /\ ~OfMessage(String(member))
      /\ PackedUInt32(member) # NoField /\ ~OfMessage(PackedUInt32(member))
  BY DEF String, PackedUInt32, NoField, OfMessage
<1>3. /\ Message(type, member) # NoField /\ OfMessage(Message(type, member))
      /\ Messages(type, member) # NoField /\ OfMessage(Messages(type, member))
  BY DEF Message, Messages, NoField, OfMessage
<1> QED BY <1>1, <1>2, <1>3

\* A field whose tag and length are there begins with a tag that is read.
LEMMA TagAt ==
  ASSUME NEW b, NEW ptr, NEW tag \in 1 .. 127, NEW s \in Seq(Nat), NEW n \in UInt32Type,
         Holds(b, ptr, <<tag>> \o Varint(n) \o s)
  PROVE  /\ ptr \in Nat /\ Holds(b, ptr, <<tag>>)
         /\ VarintAt(b, ptr + 1, n, ptr + 1 + UInt32Size(n))
         /\ Holds(b, ptr + 1 + UInt32Size(n), s)
<1> DEFINE v == Varint(n)
           t == <<tag>>
<1>1. v \in Seq(Nat) /\ Len(v) = UInt32Size(n) /\ UInt32Size(n) \in 1 .. 5
  BY VarintType, UInt32Numbers
<1>2. t \in Seq(Nat) /\ Len(t) = 1 /\ Holds(b, ptr, t \o v \o s)
  OBVIOUS
<1>3. Holds(b, ptr + 1, v) => VarintAt(b, ptr + 1, n, ptr + 1 + UInt32Size(n))
  BY VarintRead
<1> HIDE DEF v, t
<1>4. t \o v \in Seq(Nat) /\ Len(t \o v) = 1 + UInt32Size(n)
  <2>1. t \o v \in Seq(Nat) /\ Len(t \o v) = Len(t) + Len(v)
    BY <1>1, <1>2, ConcatProperties
  <2> QED BY <1>1, <1>2, <2>1, Zenon
<1>5. /\ Holds(b, ptr, t \o v) /\ Holds(b, ptr + Len(t \o v), s) /\ ptr \in Nat
  BY <1>2, <1>4, HoldsJoined
<1>6. Holds(b, ptr, t) /\ Holds(b, ptr + 1, v)
  BY <1>1, <1>2, <1>5, HoldsJoined
<1>7. ptr + Len(t \o v) = ptr + 1 + UInt32Size(n)
  BY <1>1, <1>4, <1>5
<1> QED BY <1>3, <1>5, <1>6, <1>7 DEF t

LEMMA FieldFound ==
  ASSUME NEW b, NEW ptr, NEW type, NEW tag \in 1 .. 127, NEW n, NEW end, NEW field,
         Holds(b, ptr, <<tag>>), VarintAt(b, ptr + 1, n, end), FieldOf(type, tag) = field,
         field # NoField
  PROVE  FieldAt(b, ptr, type, field)
BY DEF FieldAt, VarintAt

\* A member is a number that is written behind its tag.
LEMMA UInt32Read ==
  ASSUME NEW b, NEW run, NEW type, NEW limit, NEW ptr, NEW msg, NEW callers,
         At(b, run, type, limit, ptr, msg, callers),
         NEW field \in 1 .. 15, NEW member, FieldOf(type, 8 * field) = UInt32(member),
         NEW n \in UInt32Type, n # 0, Holds(b, ptr, WriteUInt32(field, n)),
         ptr + UInt32FieldSize(n) <= limit
  PROVE  At(b, run, type, limit, ptr + UInt32FieldSize(n), [msg EXCEPT ![member] = n], callers)
<1> DEFINE tag == 8 * field
           end == ptr + UInt32FieldSize(n)
<1>1. tag \in 1 .. 127
  OBVIOUS
<1>2. WriteUInt32(field, n) = <<tag>> \o Varint(n) \o <<>>
  <2>1. <<tag>> \in Seq(Nat) /\ Varint(n) \in Seq(Nat)
    BY <1>1, VarintType, UInt32Numbers
  <2>2. <<tag>> \o Varint(n) \o <<>> = <<tag>> \o Varint(n)
    BY <2>1, ConcatProperties, ConcatEmptySeq
  <2>3. WriteUInt32(field, n) = <<tag>> \o Varint(n)
    BY DEF WriteUInt32
  <2> QED BY <2>2, <2>3, Zenon
<1> HIDE DEF tag
<1>3. /\ ptr \in Nat /\ Holds(b, ptr, <<tag>>)
      /\ VarintAt(b, ptr + 1, n, ptr + 1 + UInt32Size(n))
  <2>1. <<>> \in Seq(Nat) /\ Holds(b, ptr, <<tag>> \o Varint(n) \o <<>>)
    BY <1>2
  <2> QED BY <1>1, <2>1, TagAt, Zenon
<1>4. end \in Nat /\ ptr + 2 <= end /\ end = ptr + 1 + UInt32Size(n)
  <2>1. UInt32Size(n) \in 1 .. 5 /\ UInt32FieldSize(n) = 1 + UInt32Size(n)
    BY VarintType, UInt32Numbers DEF UInt32FieldSize
  <2> QED BY <1>3, <2>1
<1> HIDE DEF end
<1>5. ReadUInt32(b, CursorAt(ptr + 1, msg), member) = CursorAt(end, [msg EXCEPT ![member] = n])
  <2> DEFINE cursor == CursorAt(ptr + 1, msg)
             read == ReadVarint(b, ptr + 1)
  <2>1. cursor.ptr = ptr + 1
    BY CursorIs
  <2>2. read.value = n /\ read.ptr = end
    BY <1>3, <1>4 DEF VarintAt
  <2>3. ReadInto(cursor, member, n, end) = CursorAt(end, [msg EXCEPT ![member] = n])
    BY CursorReads
  <2> HIDE DEF read, cursor
  <2>4. ReadUInt32(b, cursor, member)
          = ReadInto(cursor, member, ReadVarint(b, cursor.ptr).value, ReadVarint(b, cursor.ptr).ptr)
    BY DEF ReadUInt32, ReadInto
  <2>5. ReadUInt32(b, cursor, member) = ReadInto(cursor, member, n, end)
    BY <2>1, <2>2, <2>4, Zenon DEF read
  <2> QED BY <2>3, <2>5, Zenon DEF cursor
<1>6. Reads(UInt32(member), b, ptr + 1, msg, end, [msg EXCEPT ![member] = n])
  BY <1>5, ReadFieldIs, FieldKinds, Zenon DEF Reads
<1>7. FieldAt(b, ptr, type, UInt32(member))
  <2>1. FieldOf(type, tag) = UInt32(member)
    BY DEF tag
  <2>2. UInt32(member) # NoField
    BY FieldKinds, Zenon
  <2> QED BY <1>1, <1>3, <2>1, <2>2, FieldFound
<1>8. end <= limit /\ end <= Len(b)
  <2>1. ptr + Len(WriteUInt32(field, n)) <= Len(b)
    BY DEF Holds
  <2>2. Len(WriteUInt32(field, n)) = UInt32FieldSize(n)
    BY UInt32Writes DEF Writes
  <2> QED BY <2>1, <2>2 DEF end
<1>9. At(b, run, type, limit, end, [msg EXCEPT ![member] = n], callers)
  <2> DEFINE msg2 == [msg EXCEPT ![member] = n]
             f == UInt32(member)
  <2>1. Reads(f, b, ptr + 1, msg, end, msg2) /\ FieldAt(b, ptr, type, f)
    BY <1>6, <1>7
  <2> HIDE DEF msg2, f
  <2>2. At(b, run, type, limit, end, msg2, callers)
    BY <1>4, <1>8, <2>1, FieldRead
  <2> QED BY <2>2 DEF msg2
<1> QED BY <1>9 DEF end

\* So is one that has its length before it.
LEMMA StringRead ==
  ASSUME NEW b, NEW run, NEW type, NEW limit, NEW ptr, NEW msg, NEW callers,
         At(b, run, type, limit, ptr, msg, callers),
         NEW field \in 1 .. 15, NEW member, FieldOf(type, 8 * field + 2) = String(member),
         NEW s \in Seq(Nat), s # <<>>, Len(s) \in UInt32Type, Holds(b, ptr, WriteString(field, s)),
         ptr + StringFieldSize(s) <= limit
  PROVE  At(b, run, type, limit, ptr + StringFieldSize(s), [msg EXCEPT ![member] = s], callers)
<1> DEFINE tag == 8 * field + 2
           end == ptr + StringFieldSize(s)
           n == Len(s)
           start == ptr + 1 + UInt32Size(n)
<1>1. tag \in 1 .. 127
  OBVIOUS
<1>2. n \in Nat /\ UInt32Size(n) \in 1 .. 5 /\ StringFieldSize(s) = 1 + UInt32Size(n) + n
  BY UInt32Numbers, VarintType DEF StringFieldSize, LengthDelimitedSize
<1>3. WriteString(field, s) = <<tag>> \o Varint(n) \o s
  BY DEF WriteString, WriteBytes
<1> HIDE DEF tag, n
<1>4. ptr \in Nat /\ Holds(b, ptr, <<tag>>) /\ VarintAt(b, ptr + 1, n, start) /\ Holds(b, start, s)
  <2>1. Holds(b, ptr, <<tag>> \o Varint(n) \o s) /\ n \in UInt32Type
    BY <1>3 DEF n
  <2> QED BY <1>1, <2>1, TagAt, Zenon
<1>5. end \in Nat /\ ptr + 2 <= end /\ end = start + n
  <2> DEFINE u == UInt32Size(n)
             size == StringFieldSize(s)
  <2>1. ptr \in Nat /\ n \in Nat /\ u \in 1 .. 5 /\ size = 1 + u + n
    BY <1>2, <1>4
  <2>2. end = ptr + size /\ start = ptr + 1 + u
    OBVIOUS
  <2> HIDE DEF end, start, u, size
  <2> QED BY <2>1, <2>2
<1> HIDE DEF end, start
<1>6. [k \in 1 .. n |-> ByteAt(b, start + k - 1)] = s
  <2>1. \A k \in 1 .. n : ByteAt(b, start + k - 1) = s[k]
    BY <1>4, ByteHeld DEF n
  <2>2. s = [k \in 1 .. n |-> s[k]]
    BY DEF n
  <2> QED BY <2>1, <2>2, Zenon
<1>7. ReadString(b, CursorAt(ptr + 1, msg), member) = CursorAt(end, [msg EXCEPT ![member] = s])
  <2> DEFINE cursor == CursorAt(ptr + 1, msg)
             size == ReadVarint(b, ptr + 1)
  <2>1. cursor.ptr = ptr + 1
    BY CursorIs
  <2>2. size.value = n /\ size.ptr = start
    BY <1>4 DEF VarintAt
  <2>3. ReadInto(cursor, member, s, end) = CursorAt(end, [msg EXCEPT ![member] = s])
    BY CursorReads
  <2> HIDE DEF size, cursor
  <2>4. ReadString(b, cursor, member)
          = ReadInto(cursor, member, [k \in 1 .. size.value |-> ByteAt(b, size.ptr + k - 1)],
              size.ptr + size.value)
    BY <2>1 DEF ReadString, ReadInto, size
  <2>5. ReadString(b, cursor, member) = ReadInto(cursor, member, s, end)
    BY <1>5, <1>6, <2>2, <2>4, Zenon
  <2> QED BY <2>3, <2>5, Zenon DEF cursor
<1>8. Reads(String(member), b, ptr + 1, msg, end, [msg EXCEPT ![member] = s])
  BY <1>7, ReadFieldIs, FieldKinds, Zenon DEF Reads
<1>9. FieldAt(b, ptr, type, String(member))
  <2>1. FieldOf(type, tag) = String(member)
    BY DEF tag
  <2>2. String(member) # NoField
    BY FieldKinds, Zenon
  <2> QED BY <1>1, <1>4, <2>1, <2>2, FieldFound
<1>10. end <= limit /\ end <= Len(b)
  <2>1. ptr + Len(WriteString(field, s)) <= Len(b)
    BY DEF Holds
  <2>2. Len(WriteString(field, s)) = StringFieldSize(s)
    <3>1. field \in Nat
      OBVIOUS
    <3> QED BY <3>1, WriteStringType
  <2> QED BY <2>1, <2>2 DEF end
<1>11. At(b, run, type, limit, end, [msg EXCEPT ![member] = s], callers)
  <2> DEFINE msg2 == [msg EXCEPT ![member] = s]
             f == String(member)
  <2>1. Reads(f, b, ptr + 1, msg, end, msg2) /\ FieldAt(b, ptr, type, f)
    BY <1>8, <1>9
  <2> HIDE DEF msg2, f
  <2>2. At(b, run, type, limit, end, msg2, callers)
    BY <1>5, <1>10, <2>1, FieldRead
  <2> QED BY <2>2 DEF msg2
<1> QED BY <1>11 DEF end

-----------------------------------------------------------------------------
(* A message is read member by member.                                     *)

\* The message when the members in S have been read.
Partly(type, m, S) == [x \in DOMAIN m |-> IF x \in S THEN m[x] ELSE Cleared[type][x]]

\* A member, and what it is while it has not been read.
Member(type, m, x, value, default) ==
  x \in DOMAIN m /\ m[x] = value /\ Cleared[type][x] = default

\* p with another member.
With(p, x, value) == [p EXCEPT ![x] = value]

LEMMA PartlyRead ==
  ASSUME NEW type, NEW m, NEW x, NEW value, NEW default, Member(type, m, x, value, default),
         NEW S
  PROVE  /\ With(Partly(type, m, S), x, value) = Partly(type, m, S \cup {x})
         /\ value = default => Partly(type, m, S \cup {x}) = Partly(type, m, S)
         /\ x \notin S => Partly(type, m, S)[x] = default
         /\ x \notin S => With(Partly(type, m, S), x, default) = Partly(type, m, S)
         /\ x \in DOMAIN Partly(type, m, S)
<1>1. x \in DOMAIN m /\ m[x] = value /\ Cleared[type][x] = default
  BY DEF Member
<1> DEFINE p == Partly(type, m, S)
           q == Partly(type, m, S \cup {x})
           r == [p EXCEPT ![x] = value]
<1>2. /\ DOMAIN p = DOMAIN m /\ DOMAIN q = DOMAIN m
      /\ p = [y \in DOMAIN m |-> p[y]] /\ q = [y \in DOMAIN m |-> q[y]]
      /\ \A y \in DOMAIN m : p[y] = IF y \in S THEN m[y] ELSE Cleared[type][y]
      /\ \A y \in DOMAIN m : q[y] = IF y \in S \cup {x} THEN m[y] ELSE Cleared[type][y]
  BY DEF Partly
<1> HIDE DEF p, q
<1>3. DOMAIN r = DOMAIN m /\ r = [y \in DOMAIN m |-> r[y]]
  BY <1>2
<1>4. \A y \in DOMAIN m : r[y] = q[y]
  BY <1>1, <1>2
<1>5. r = q
  BY <1>2, <1>3, <1>4
<1>6. value = default => q = p
  <2>1. value = default => \A y \in DOMAIN m : q[y] = p[y]
    BY <1>1, <1>2
  <2> QED BY <1>2, <2>1
<1>7. x \notin S => p[x] = default
  BY <1>1, <1>2
<1>8. x \notin S => With(p, x, default) = p
  <2> DEFINE d == [p EXCEPT ![x] = default]
  <2>1. DOMAIN d = DOMAIN m /\ d = [y \in DOMAIN m |-> d[y]]
    BY <1>2
  <2>2. x \notin S => \A y \in DOMAIN m : d[y] = p[y]
    BY <1>1, <1>2
  <2>3. x \notin S => d = p
    BY <1>2, <2>1, <2>2
  <2> QED BY <2>3 DEF With
<1>9. x \in DOMAIN p
  BY <1>1, <1>2
<1>10. With(p, x, value) = q
  BY <1>5 DEF With
<1> QED BY <1>6, <1>7, <1>8, <1>9, <1>10 DEF p, q

\* A buffer has s before the limit, and s is not too long.
Within(b, ptr, s, limit) ==
  Holds(b, ptr, s) /\ ptr + Len(s) <= limit /\ Len(s) <= INT_MAX

\* Where s is, the members in X are read.
ReadAs(type, m, X, s) ==
  /\ s \in Seq(Nat)
  /\ \A b, run, limit, ptr, callers, S :
       /\ At(b, run, type, limit, ptr, Partly(type, m, S), callers)
       /\ Within(b, ptr, s, limit) /\ S \cap X = {}
       => At(b, run, type, limit, ptr + Len(s), Partly(type, m, S \cup X), callers)

LEMMA WithinJoined ==
  ASSUME NEW b, NEW ptr, NEW s \in Seq(Nat), NEW t \in Seq(Nat), NEW limit \in Nat,
         Within(b, ptr, s \o t, limit)
  PROVE  /\ Within(b, ptr, s, limit) /\ Within(b, ptr + Len(s), t, limit)
         /\ ptr + Len(s) + Len(t) = ptr + Len(s \o t)
<1>1. /\ Holds(b, ptr, s) /\ Holds(b, ptr + Len(s), t)
      /\ ptr \in Nat /\ Len(s) \in Nat /\ Len(t) \in Nat /\ Len(s \o t) = Len(s) + Len(t)
  BY HoldsJoined DEF Within
<1> DEFINE k == Len(s)
           l == Len(t)
           kl == Len(s \o t)
<1>2. ptr + kl <= limit /\ kl <= INT_MAX
  BY DEF Within
<1>3. ptr \in Nat /\ k \in Nat /\ l \in Nat /\ kl = k + l /\ INT_MAX \in Nat
  BY <1>1 DEF INT_MAX
<1> HIDE DEF k, l, kl
<1>4. ptr + k <= limit /\ k <= INT_MAX /\ ptr + k + l <= limit /\ l <= INT_MAX
  BY <1>2, <1>3
<1>5. ptr + k + l = ptr + kl
  BY <1>3
<1> QED BY <1>1, <1>4, <1>5 DEF Within, k, l, kl

LEMMA ReadOn ==
  ASSUME NEW type, NEW m, NEW X, NEW Y, NEW s, NEW t,
         ReadAs(type, m, X, s), ReadAs(type, m, Y, t), X \cap Y = {}
  PROVE  ReadAs(type, m, X \cup Y, s \o t)
<1>1. s \in Seq(Nat) /\ t \in Seq(Nat)
  BY DEF ReadAs
<1>2. s \o t \in Seq(Nat)
  BY <1>1, Joined
<1>3. ASSUME NEW b, NEW run, NEW limit, NEW ptr, NEW callers, NEW S,
             At(b, run, type, limit, ptr, Partly(type, m, S), callers),
             Within(b, ptr, s \o t, limit), S \cap (X \cup Y) = {}
      PROVE  At(b, run, type, limit, ptr + Len(s \o t), Partly(type, m, S \cup (X \cup Y)), callers)
  <2>1. limit \in Nat
    BY <1>3 DEF At
  <2>2. /\ Within(b, ptr, s, limit) /\ Within(b, ptr + Len(s), t, limit)
        /\ ptr + Len(s) + Len(t) = ptr + Len(s \o t)
    BY <1>1, <1>3, <2>1, WithinJoined
  <2>3. S \cap X = {} /\ (S \cup X) \cap Y = {} /\ (S \cup X) \cup Y = S \cup (X \cup Y)
    BY <1>3
  <2>4. At(b, run, type, limit, ptr + Len(s), Partly(type, m, S \cup X), callers)
    BY <1>3, <2>2, <2>3, Zenon DEF ReadAs
  <2>5. At(b, run, type, limit, ptr + Len(s) + Len(t), Partly(type, m, (S \cup X) \cup Y), callers)
    BY <2>2, <2>3, <2>4, Zenon DEF ReadAs
  <2> QED BY <2>2, <2>3, <2>5, Zenon
<1> QED BY <1>2, <1>3, Zenon DEF ReadAs

LEMMA UInt32ReadAs ==
  ASSUME NEW type, NEW m, NEW x, NEW n \in UInt32Type, Member(type, m, x, n, 0),
         NEW field \in 1 .. 15, FieldOf(type, 8 * field) = UInt32(x)
  PROVE  ReadAs(type, m, {x}, WriteUInt32(field, n))
<1> DEFINE s == WriteUInt32(field, n)
<1>1. s \in Seq(Nat) /\ Len(s) = UInt32FieldSize(n)
  BY UInt32Writes DEF Writes
<1>2. ASSUME NEW b, NEW run, NEW limit, NEW ptr, NEW callers, NEW S,
             At(b, run, type, limit, ptr, Partly(type, m, S), callers), Within(b, ptr, s, limit)
      PROVE  At(b, run, type, limit, ptr + Len(s), Partly(type, m, S \cup {x}), callers)
  <2> DEFINE p == Partly(type, m, S)
             q == Partly(type, m, S \cup {x})
  <2>1. With(p, x, n) = q /\ (n = 0 => q = p)
    BY PartlyRead
  <2> HIDE DEF p, q
  <2>2. CASE n = 0
    <3>1. ptr + Len(s) = ptr
      <4>1. Len(s) = 0
        BY <1>1, <2>2 DEF UInt32FieldSize
      <4>2. ptr \in Nat
        BY <1>2 DEF At
      <4> HIDE DEF s
      <4> QED BY <4>1, <4>2
    <3> QED BY <1>2, <2>1, <2>2, <3>1, Zenon DEF p, q
  <2>3. CASE n # 0
    <3>1. Holds(b, ptr, WriteUInt32(field, n)) /\ ptr + UInt32FieldSize(n) <= limit
      BY <1>1, <1>2, Zenon DEF Within
    <3>2. At(b, run, type, limit, ptr, p, callers)
      BY <1>2 DEF p
    <3>3. At(b, run, type, limit, ptr + UInt32FieldSize(n), [p EXCEPT ![x] = n], callers)
      BY <2>3, <3>1, <3>2, UInt32Read
    <3> QED BY <1>1, <2>1, <3>3, Zenon DEF q, With
  <2> QED BY <2>2, <2>3
<1> QED BY <1>1, <1>2, Zenon DEF ReadAs

LEMMA StringReadAs ==
  ASSUME NEW type, NEW m, NEW x, NEW value \in Seq(Nat), Member(type, m, x, value, <<>>),
         NEW field \in 1 .. 15, FieldOf(type, 8 * field + 2) = String(x)
  PROVE  ReadAs(type, m, {x}, WriteString(field, value))
<1> DEFINE s == WriteString(field, value)
<1>1. /\ s \in Seq(Nat) /\ Len(s) = StringFieldSize(value)
      /\ Len(value) <= StringFieldSize(value)
  <2>1. field \in Nat
    OBVIOUS
  <2> QED BY <2>1, WriteStringType, Zenon
<1>2. ASSUME NEW b, NEW run, NEW limit, NEW ptr, NEW callers, NEW S,
             At(b, run, type, limit, ptr, Partly(type, m, S), callers), Within(b, ptr, s, limit)
      PROVE  At(b, run, type, limit, ptr + Len(s), Partly(type, m, S \cup {x}), callers)
  <2> DEFINE p == Partly(type, m, S)
             q == Partly(type, m, S \cup {x})
  <2>1. With(p, x, value) = q /\ (value = <<>> => q = p)
    BY PartlyRead
  <2> HIDE DEF p, q
  <2>2. CASE value = <<>>
    <3>1. ptr + Len(s) = ptr
      <4>1. Len(s) = 0
        BY <1>1, <2>2 DEF StringFieldSize
      <4>2. ptr \in Nat
        BY <1>2 DEF At
      <4> HIDE DEF s
      <4> QED BY <4>1, <4>2
    <3> QED BY <1>2, <2>1, <2>2, <3>1, Zenon DEF p, q
  <2>3. CASE value # <<>>
    <3>1. Holds(b, ptr, WriteString(field, value)) /\ ptr + StringFieldSize(value) <= limit
      BY <1>1, <1>2, Zenon DEF Within
    <3>2. At(b, run, type, limit, ptr, p, callers)
      BY <1>2 DEF p
    <3>3. Len(value) \in UInt32Type
      <4>1. Len(s) <= INT_MAX /\ Len(s) \in Nat /\ Len(value) \in Nat
        BY <1>1, <1>2, LenProperties DEF Within
      <4>2. Len(value) <= INT_MAX
        BY <1>1, <2>3, <4>1 DEF INT_MAX
      <4> QED BY <4>1, <4>2, SmallNumbers
    <3>4. At(b, run, type, limit, ptr + StringFieldSize(value), [p EXCEPT ![x] = value], callers)
      BY <2>3, <3>1, <3>2, <3>3, StringRead
    <3> QED BY <1>1, <2>1, <3>4, Zenon DEF q, With
  <2> QED BY <2>2, <2>3
<1> QED BY <1>1, <1>2, Zenon DEF ReadAs

\* What is written one after the other is there one after the other.
LEMMA HoldsEach ==
  ASSUME NEW b, NEW ptr, NEW seqs \in Seq(Seq(Nat)), NEW f, Concatenations(seqs, f),
         \A k \in 0 .. Len(seqs) : f[k] \in Seq(Nat), Holds(b, ptr, FlattenSeq(seqs))
  PROVE  /\ \A k \in 0 .. Len(seqs) - 1 :
              /\ Holds(b, ptr + Len(f[k]), seqs[k + 1])
              /\ Len(f[k + 1]) = Len(f[k]) + Len(seqs[k + 1]) /\ Len(seqs[k + 1]) \in Nat
         /\ \A k \in 0 .. Len(seqs) :
              Len(f[k]) \in Nat /\ Len(f[k]) <= Len(FlattenSeq(seqs))
<1> DEFINE n == Len(seqs)
           S == {i \in 0 .. n : Holds(b, ptr, f[n - i]) /\ Len(f[n - i]) <= Len(f[n])}
<1>1. /\ n \in Nat /\ \A k \in 0 .. n - 1 : f[k + 1] = f[k] \o seqs[k + 1]
      /\ FlattenSeq(seqs) = f[n] /\ \A k \in 0 .. n : f[k] \in Seq(Nat)
  BY LenProperties DEF Concatenations
<1>2. \A k \in 0 .. n - 1 : seqs[k + 1] \in Seq(Nat)
  <2>1. \A k \in 1 .. n : seqs[k] \in Seq(Nat)
    BY ElementOfSeq
  <2>2. \A k \in 0 .. n - 1 : k + 1 \in 1 .. n
    BY <1>1
  <2> QED BY <2>1, <2>2
<1> HIDE DEF n
<1>3. ASSUME NEW k \in 0 .. n - 1, Holds(b, ptr, f[k + 1])
      PROVE  /\ Holds(b, ptr, f[k]) /\ Holds(b, ptr + Len(f[k]), seqs[k + 1])
             /\ Len(f[k]) \in Nat /\ Len(seqs[k + 1]) \in Nat
             /\ Len(f[k + 1]) = Len(f[k]) + Len(seqs[k + 1])
  <2>1. k \in 0 .. n
    BY <1>1
  <2>2. f[k] \in Seq(Nat) /\ seqs[k + 1] \in Seq(Nat) /\ f[k + 1] = f[k] \o seqs[k + 1]
    BY <1>1, <1>2, <2>1, Zenon
  <2>3. Holds(b, ptr, f[k] \o seqs[k + 1])
    BY <1>3, <2>2, Zenon
  <2> DEFINE s == f[k]
             t == seqs[k + 1]
  <2>4. s \in Seq(Nat) /\ t \in Seq(Nat) /\ Holds(b, ptr, s \o t) /\ f[k + 1] = s \o t
    BY <2>2, <2>3
  <2> HIDE DEF s, t
  <2>5. /\ Holds(b, ptr, s) /\ Holds(b, ptr + Len(s), t)
        /\ Len(s) \in Nat /\ Len(t) \in Nat /\ Len(s \o t) = Len(s) + Len(t)
    BY <2>4, HoldsJoined
  <2>6. Len(f[k + 1]) = Len(s) + Len(t)
    BY <2>4, <2>5, Zenon
  <2> QED BY <2>5, <2>6 DEF s, t
<1>4. 0 \in S
  <2>1. n - 0 = n /\ 0 \in 0 .. n /\ n \in 0 .. n
    BY <1>1
  <2>2. f[n] \in Seq(Nat)
    BY <1>1, <2>1
  <2>3. Len(f[n]) \in Nat
    BY <2>2, LenProperties
  <2>4. Len(f[n - 0]) <= Len(f[n])
    BY <2>1, <2>3
  <2>5. Holds(b, ptr, f[n - 0])
    BY <1>1, <2>1
  <2> QED BY <2>1, <2>4, <2>5
<1>5. ASSUME NEW i \in 0 .. n - 1, i \in S PROVE i + 1 \in S
  <2>1. /\ n - (i + 1) \in 0 .. n - 1 /\ (n - (i + 1)) + 1 = n - i /\ i + 1 \in 0 .. n
        /\ n \in 0 .. n /\ n - i \in 0 .. n
    BY <1>1
  <2> DEFINE k == n - (i + 1)
  <2>2. Holds(b, ptr, f[k + 1]) /\ Len(f[k + 1]) <= Len(f[n])
    BY <1>5, <2>1
  <2> HIDE DEF k
  <2>3. /\ Holds(b, ptr, f[k]) /\ Len(f[k]) \in Nat /\ Len(seqs[k + 1]) \in Nat
        /\ Len(f[k + 1]) = Len(f[k]) + Len(seqs[k + 1])
    BY <1>3, <2>1, <2>2 DEF k
  <2>4. Len(f[n]) \in Nat
    <3>1. f[n] \in Seq(Nat)
      BY <1>1, <2>1, Zenon
    <3> QED BY <3>1, LenProperties
  <2>5. Len(f[k]) <= Len(f[n])
    <3> DEFINE p == Len(f[k])
               q == Len(seqs[k + 1])
               r == Len(f[n])
               pq == Len(f[k + 1])
    <3>1. p \in Nat /\ q \in Nat /\ r \in Nat /\ pq = p + q /\ pq <= r
      BY <2>2, <2>3, <2>4
    <3> HIDE DEF p, q, r, pq
    <3>2. p <= r
      BY <3>1
    <3> QED BY <3>2 DEF p, r
  <2> QED BY <2>1, <2>3, <2>5 DEF k
<1> HIDE DEF S
<1>6. \A i \in 0 .. n : i \in S
  BY <1>1, <1>4, <1>5, Upwards
<1>7. ASSUME NEW k \in 0 .. n PROVE Holds(b, ptr, f[k]) /\ Len(f[k]) <= Len(f[n])
  <2>1. n - k \in 0 .. n /\ n - (n - k) = k
    BY <1>1
  <2> QED BY <1>6, <2>1 DEF S
<1>8. ASSUME NEW k \in 0 .. n - 1
      PROVE  /\ Holds(b, ptr + Len(f[k]), seqs[k + 1])
             /\ Len(f[k + 1]) = Len(f[k]) + Len(seqs[k + 1]) /\ Len(seqs[k + 1]) \in Nat
  <2>1. k + 1 \in 0 .. n
    BY <1>1
  <2> QED BY <1>3, <1>7, <2>1
<1>9. \A k \in 0 .. n : Len(f[k]) \in Nat
  BY <1>1, LenProperties
<1> QED BY <1>1, <1>7, <1>8, <1>9 DEF n

LEMMA WithIs ==
  ASSUME NEW p, NEW x, x \in DOMAIN p, NEW v, NEW w
  PROVE  With(p, x, v)[x] = v /\ With(With(p, x, v), x, w) = With(p, x, w)
BY DEF With

LEMMA FirstOnes ==
  ASSUME NEW S, NEW list \in Seq(S)
  PROVE  /\ SubSeq(list, 1, 0) = <<>> /\ SubSeq(list, 1, Len(list)) = list
         /\ \A k \in 0 .. Len(list) - 1 :
              /\ SubSeq(list, 1, k + 1) = Append(SubSeq(list, 1, k), list[k + 1])
              /\ list[k + 1] \in S
<1>1. Len(list) \in Nat
  BY LenProperties
<1>2. ASSUME NEW k \in 0 .. Len(list) - 1
      PROVE  /\ SubSeq(list, 1, k + 1) = Append(SubSeq(list, 1, k), list[k + 1])
             /\ list[k + 1] \in S
  <2>1. k + 1 \in 1 .. Len(list)
    BY <1>1
  <2>2. list[k + 1] \in S
    BY <2>1, ElementOfSeq
  <2> QED BY <1>1, <2>1, <2>2
<1> QED BY <1>1, <1>2, SubSeqFull

-----------------------------------------------------------------------------
(* Packed lists. *)

\* The function in ReadPacked.
Elements(b, member, end, first, n, f) ==
  f = [k \in 0 .. n |-> IF k = 0 THEN first ELSE NextElement(b, f[k - 1], member, end)]

LEMMA ElementsExist ==
  ASSUME NEW b, NEW member, NEW end, NEW first, NEW n \in Nat
  PROVE  \E f : Elements(b, member, end, first, n, f)
<1> DEFINE S == {k \in 0 .. n : \E f : Elements(b, member, end, first, k, f)}
<1>1. 0 \in S
  <2> DEFINE f == [k \in 0 .. 0 |-> first]
  <2>1. Elements(b, member, end, first, 0, f)
    BY DEF Elements
  <2> QED BY <2>1
<1>2. ASSUME NEW k \in 0 .. n - 1, k \in S PROVE k + 1 \in S
  <2>1. PICK f : Elements(b, member, end, first, k, f)
    BY <1>2
  <2> DEFINE last == NextElement(b, f[k], member, end)
             g == [j \in 0 .. k + 1 |-> IF j <= k THEN f[j] ELSE last]
  <2>2. \A j \in 0 .. k : f[j] = IF j = 0 THEN first ELSE NextElement(b, f[j - 1], member, end)
    BY <2>1 DEF Elements
  <2>3. ASSUME NEW j \in 0 .. k + 1
        PROVE  g[j] = IF j = 0 THEN first ELSE NextElement(b, g[j - 1], member, end)
    <3>1. CASE j = 0
      BY <2>2, <3>1
    <3>2. CASE j # 0 /\ j <= k
      <4>1. j - 1 \in 0 .. k + 1 /\ j - 1 <= k /\ j \in 0 .. k
        BY <3>2
      <4>2. g[j] = f[j] /\ g[j - 1] = f[j - 1]
        BY <3>2, <4>1
      <4> QED BY <2>2, <3>2, <4>1, <4>2
    <3>3. CASE j = k + 1
      <4>1. j - 1 = k /\ k \in 0 .. k + 1 /\ j # 0 /\ ~(j <= k)
        BY <3>3
      <4>2. g[j] = last /\ g[j - 1] = f[k]
        <5> HIDE DEF last
        <5> QED BY <4>1
      <4> QED BY <3>3, <4>1, <4>2
    <3> QED BY <3>1, <3>2, <3>3
  <2>4. g = [j \in 0 .. k + 1 |-> IF j = 0 THEN first ELSE NextElement(b, g[j - 1], member, end)]
    <3> HIDE DEF g
    <3>1. DOMAIN g = 0 .. k + 1 /\ g = [j \in DOMAIN g |-> g[j]]
      BY DEF g
    <3> QED BY <2>3, <3>1
  <2>5. Elements(b, member, end, first, k + 1, g)
    BY <2>4 DEF Elements
  <2>6. k + 1 \in 0 .. n
    OBVIOUS
  <2> QED BY <2>5, <2>6
<1> HIDE DEF S
<1>3. n \in S
  BY <1>1, <1>2, Upwards
<1> QED BY <1>3 DEF S

\* Another element is read.
LEMMA ElementRead ==
  ASSUME NEW b, NEW ptr \in Nat, NEW end \in Nat, ptr < end, NEW msg, NEW member,
         member \in DOMAIN msg, NEW list, NEW n, NEW ptr2, VarintAt(b, ptr, n, ptr2)
  PROVE  NextElement(b, CursorAt(ptr, With(msg, member, list)), member, end)
           = CursorAt(ptr2, With(msg, member, Append(list, n)))
<1> DEFINE m == With(msg, member, list)
           cursor == CursorAt(ptr, m)
           read == ReadVarint(b, ptr)
<1>1. /\ cursor.ptr = ptr /\ cursor.msg = m /\ cursor.failed = FALSE
      /\ read.value = n /\ read.ptr = ptr2 /\ ~Malformed(b, ptr)
  <2>1. read.value = n /\ read.ptr = ptr2 /\ ~Malformed(b, ptr)
    BY DEF VarintAt
  <2> HIDE DEF m, read
  <2>2. cursor.ptr = ptr /\ cursor.msg = m /\ cursor.failed = FALSE
    BY DEF CursorAt
  <2> QED BY <2>1, <2>2
<1>2. m[member] = list /\ With(m, member, Append(list, n)) = With(msg, member, Append(list, n))
  <2> DEFINE v == Append(list, n)
  <2> HIDE DEF v
  <2>1. With(msg, member, list)[member] = list
    BY WithIs
  <2>2. With(With(msg, member, list), member, v) = With(msg, member, v)
    BY WithIs
  <2> QED BY <2>1, <2>2 DEF v
<1>3. ReadInto(cursor, member, Append(list, n), ptr2)
        = CursorAt(ptr2, [m EXCEPT ![member] = Append(list, n)])
  <2> DEFINE v == Append(list, n)
  <2> HIDE DEF m, v
  <2>1. ReadInto(CursorAt(ptr, m), member, v, ptr2) = CursorAt(ptr2, [m EXCEPT ![member] = v])
    BY CursorReads
  <2> QED BY <2>1 DEF v
<1>4. [m EXCEPT ![member] = Append(list, n)] = With(msg, member, Append(list, n))
  BY <1>2 DEF With
<1> HIDE DEF m, cursor, read
<1>5. ReadAnother(b, cursor, member)
        = ReadInto(cursor, member, Append(cursor.msg[member], ReadVarint(b, cursor.ptr).value),
            ReadVarint(b, cursor.ptr).ptr)
  BY DEF ReadAnother, ReadInto
<1>6. ReadAnother(b, cursor, member) = ReadInto(cursor, member, Append(list, n), ptr2)
  BY <1>1, <1>2, <1>5, Zenon DEF read
<1>7. NextElement(b, cursor, member, end) = ReadAnother(b, cursor, member)
  <2>1. ~(ptr >= end)
    OBVIOUS
  <2> QED BY <1>1, <2>1, Zenon DEF NextElement
<1> QED BY <1>3, <1>4, <1>6, <1>7, Zenon DEF m, cursor

LEMMA NoElementRead ==
  ASSUME NEW b, NEW end \in Nat, NEW msg, NEW member
  PROVE  NextElement(b, CursorAt(end, msg), member, end) = CursorAt(end, msg)
<1>1. CursorAt(end, msg).ptr = end
  BY CursorIs
<1>2. end >= end
  OBVIOUS
<1> QED BY <1>1, <1>2, Zenon DEF NextElement

\* The list should be read at the end of its bytes.
ReadUpTo(cursor, end) == [cursor EXCEPT !.failed = @ \/ cursor.ptr # end]

\* A packed list is read element by element, with steps to spare.
PackedRun(b, ptr, msg, member, n, start, f) ==
  /\ f[0] = CursorAt(start, msg)
  /\ \A k \in 0 .. n - 1 : f[k + 1] = NextElement(b, f[k], member, start + n)
  /\ ReadPacked(b, CursorAt(ptr, msg), member) = ReadUpTo(f[n], start + n)
  /\ \A msg2 : f[n] = CursorAt(start + n, msg2) =>
       ReadPacked(b, CursorAt(ptr, msg), member) = CursorAt(start + n, msg2)

LEMMA PackedSteps ==
  ASSUME NEW b, NEW ptr, NEW msg, NEW member, NEW n \in Nat, NEW start \in Nat,
         VarintAt(b, ptr, n, start)
  PROVE  \E f : PackedRun(b, ptr, msg, member, n, start, f)
<1> DEFINE cursor == CursorAt(ptr, msg)
           first == CursorAt(start, msg)
           end == start + n
           size == ReadVarint(b, cursor.ptr)
           f == CHOOSE f : f = [k \in 0 .. size.value |->
                  IF k = 0 THEN [cursor EXCEPT !.ptr = size.ptr]
                  ELSE NextElement(b, f[k - 1], member, size.ptr + size.value)]
<1>1. ReadPacked(b, cursor, member)
        = [f[size.value] EXCEPT !.failed = @ \/ f[size.value].ptr # size.ptr + size.value]
  <2> HIDE DEF cursor
  <2> QED BY DEF ReadPacked
<1>2. size.value = n /\ size.ptr = start
  <2>1. cursor.ptr = ptr
    BY CursorIs
  <2> HIDE DEF cursor
  <2> QED BY <2>1 DEF VarintAt
<1>3. [cursor EXCEPT !.ptr = size.ptr] = first
  <2> HIDE DEF size
  <2> QED BY <1>2, CursorMoves
<1>4. f = [k \in 0 .. n |-> IF k = 0 THEN first ELSE NextElement(b, f[k - 1], member, end)]
  <2> DEFINE e == size.ptr + size.value
             c == [cursor EXCEPT !.ptr = size.ptr]
             m == size.value
  <2>1. f = [k \in 0 .. m |-> IF k = 0 THEN c ELSE NextElement(b, f[k - 1], member, e)]
    <3> HIDE DEF e, c, m
    <3>1. \E g : Elements(b, member, e, c, m, g)
      <4>1. m \in Nat
        BY <1>2 DEF m
      <4> QED BY <4>1, ElementsExist
    <3>2. \E g : g = [k \in 0 .. m |-> IF k = 0 THEN c ELSE NextElement(b, g[k - 1], member, e)]
      BY <3>1 DEF Elements
    <3> QED BY <3>2, Zenon DEF e, c, m
  <2>2. e = end /\ c = first /\ m = n
    BY <1>2, <1>3
  <2> HIDE DEF f, e, c, m
  <2> QED BY <2>1, <2>2
<1>5. ReadPacked(b, cursor, member) = [f[n] EXCEPT !.failed = @ \/ f[n].ptr # end]
  <2> HIDE DEF f, size, cursor
  <2> QED BY <1>1, <1>2
<1> HIDE DEF f, cursor, first, end
<1>6. \A k \in 0 .. n : f[k] = IF k = 0 THEN first ELSE NextElement(b, f[k - 1], member, end)
  BY <1>4
<1>7. f[0] = first
  BY <1>6
<1>8. ASSUME NEW k \in 0 .. n - 1 PROVE f[k + 1] = NextElement(b, f[k], member, end)
  <2>1. k + 1 \in 0 .. n /\ k + 1 # 0 /\ (k + 1) - 1 = k
    OBVIOUS
  <2> QED BY <1>6, <2>1
<1>9. ASSUME NEW msg2, f[n] = CursorAt(end, msg2)
      PROVE  ReadPacked(b, cursor, member) = CursorAt(end, msg2)
  <2> DEFINE q == [f[n] EXCEPT !.failed = @ \/ f[n].ptr # end]
  <2>1. /\ f[n].ptr = end /\ f[n].msg = msg2 /\ f[n].failed = FALSE /\ f[n].ended = FALSE
        /\ DOMAIN f[n] = {"ptr", "msg", "failed", "ended"}
    BY <1>9 DEF CursorAt
  <2>2. q.ptr = end /\ q.msg = msg2 /\ q.failed = FALSE /\ q.ended = FALSE
    BY <2>1
  <2>3. DOMAIN q = {"ptr", "msg", "failed", "ended"} /\ q = [m \in DOMAIN q |-> q[m]]
    BY <2>1
  <2> HIDE DEF q
  <2>4. q = CursorAt(end, msg2)
    BY <2>2, <2>3 DEF CursorAt
  <2> QED BY <1>5, <2>4, Zenon DEF q
<1>10. /\ f[0] = CursorAt(start, msg)
       /\ \A k \in 0 .. n - 1 : f[k + 1] = NextElement(b, f[k], member, start + n)
       /\ ReadPacked(b, CursorAt(ptr, msg), member) = ReadUpTo(f[n], start + n)
       /\ \A msg2 : f[n] = CursorAt(start + n, msg2) =>
            ReadPacked(b, CursorAt(ptr, msg), member) = CursorAt(start + n, msg2)
  <2>1. ReadPacked(b, cursor, member) = ReadUpTo(f[n], end)
    BY <1>5 DEF ReadUpTo
  <2> QED BY <1>7, <1>8, <1>9, <2>1, Zenon DEF cursor, first, end
<1> QED BY <1>10, Zenon DEF PackedRun

\* Behind start are the varints of a list, of n bytes.
ListAt(b, start, list, n) ==
  /\ list \in Seq(UInt32Type) /\ n = Len(FlattenSeq(Varints(list)))
  /\ Holds(b, start, FlattenSeq(Varints(list)))

\* A member is an empty list.
IsEmpty(msg, member) == member \in DOMAIN msg /\ With(msg, member, <<>>) = msg

\* A list is read as it was written.
LEMMA PackedRead ==
  ASSUME NEW b, NEW ptr, NEW msg, NEW member, NEW list, NEW n, NEW start,
         IsEmpty(msg, member), VarintAt(b, ptr, n, start), ListAt(b, start, list, n)
  PROVE  ReadPacked(b, CursorAt(ptr, msg), member) = CursorAt(start + n, With(msg, member, list))
<1> DEFINE vs == Varints(list)
           len == Len(list)
<1>0. list \in Seq(UInt32Type)
  BY DEF ListAt
<1>1. /\ list \in Seq(Nat) /\ vs \in Seq(Seq(Nat)) /\ Len(vs) = len /\ len \in Nat
      /\ \A k \in 1 .. len : vs[k] = Varint(list[k])
      /\ FlattenSeq(vs) \in Seq(Nat) /\ n \in Nat
  BY <1>0, VarintsType, UInt32Numbers, LenProperties DEF ListAt
<1>2. PICK g : Concatenations(vs, g) /\ \A k \in 0 .. Len(vs) : g[k] \in Seq(Nat)
  BY <1>1, FlattenIs
<1>3. /\ \A k \in 0 .. len - 1 :
           /\ Holds(b, start + Len(g[k]), vs[k + 1])
           /\ Len(g[k + 1]) = Len(g[k]) + Len(vs[k + 1]) /\ Len(vs[k + 1]) \in Nat
      /\ \A k \in 0 .. len : Len(g[k]) \in Nat /\ Len(g[k]) <= n
  <2> HIDE DEF vs
  <2>1. Holds(b, start, FlattenSeq(vs)) /\ n = Len(FlattenSeq(vs))
    BY DEF vs, ListAt
  <2> QED BY <1>1, <1>2, <2>1, HoldsEach
<1>4. start \in Nat /\ Len(g[0]) = 0 /\ Len(g[len]) = n
  <2>1. start \in Nat
    BY DEF Holds, ListAt
  <2>2. g[0] = <<>> /\ g[len] = FlattenSeq(vs)
    BY <1>1, <1>2 DEF Concatenations
  <2>3. Len(g[0]) = 0
    BY <2>2
  <2>4. Len(g[len]) = n
    BY <2>2 DEF ListAt
  <2> QED BY <2>1, <2>3, <2>4
<1> DEFINE at(k) == start + Len(g[k])
<1>5. ASSUME NEW k \in 0 .. len - 1
      PROVE  /\ VarintAt(b, at(k), list[k + 1], at(k + 1)) /\ at(k) + 1 <= at(k + 1)
             /\ k \in 0 .. len /\ k + 1 \in 0 .. len
  <2>1. k + 1 \in 1 .. len /\ k \in 0 .. len /\ k + 1 \in 0 .. len
    BY <1>1
  <2>2. list[k + 1] \in UInt32Type /\ vs[k + 1] = Varint(list[k + 1])
    BY <1>0, <1>1, <2>1
  <2> DEFINE x == list[k + 1]
             p == start + Len(g[k])
  <2>3. Len(vs[k + 1]) = UInt32Size(x) /\ UInt32Size(x) \in 1 .. 5
    BY <2>2, VarintType, UInt32Numbers
  <2>4. x \in UInt32Type /\ Holds(b, p, Varint(x))
    BY <1>3, <2>2
  <2> HIDE DEF x, p, vs
  <2>5. VarintAt(b, p, x, p + UInt32Size(x))
    BY <2>4, VarintRead
  <2>6. p + UInt32Size(x) = at(k + 1) /\ p + 1 <= p + UInt32Size(x)
    <3> DEFINE l == Len(g[k])
               l2 == Len(g[k + 1])
               u == UInt32Size(x)
    <3>1. l \in Nat /\ l2 = l + u /\ u \in 1 .. 5 /\ start \in Nat
      BY <1>3, <1>4, <2>1, <2>3
    <3> HIDE DEF l, l2, u
    <3>2. start + l + u = start + l2 /\ start + l + 1 <= start + l + u
      BY <3>1
    <3> QED BY <3>2 DEF l, l2, u, p
  <2> QED BY <2>1, <2>5, <2>6 DEF p, x
<1>6. \A k \in 0 .. len : at(k) \in Nat /\ at(k) <= start + n
  <2> DEFINE l(k) == Len(g[k])
  <2>1. \A k \in 0 .. len : l(k) \in Nat /\ l(k) <= n
    BY <1>3
  <2> HIDE DEF l
  <2>2. \A k \in 0 .. len : start + l(k) \in Nat /\ start + l(k) <= start + n
    BY <1>1, <1>4, <2>1
  <2> QED BY <2>2 DEF l
<1>7. at(0) = start /\ at(len) = start + n
  BY <1>4
<1> HIDE DEF at, vs, len
<1>a. len \in Nat /\ n \in Nat /\ start \in Nat
  BY <1>1, <1>4
<1>8. len <= n
  <2> DEFINE T == {k \in 0 .. len : start + k <= at(k)}
  <2>1. 0 \in T
    BY <1>1, <1>4, <1>7
  <2>2. ASSUME NEW k \in 0 .. len - 1, k \in T PROVE k + 1 \in T
    <3>1. at(k) \in Nat /\ at(k + 1) \in Nat /\ k + 1 \in 0 .. len
      BY <1>5, <1>6
    <3> QED BY <1>4, <1>5, <2>2, <3>1
  <2> HIDE DEF T
  <2>3. len \in T
    BY <1>a, <2>1, <2>2, Upwards
  <2>4. start + len <= start + n
    BY <1>7, <2>3 DEF T
  <2> QED BY <1>1, <1>4, <2>4
<1>b. PICK f : PackedRun(b, ptr, msg, member, n, start, f)
  BY <1>a, PackedSteps
<1>9. /\ f[0] = CursorAt(start, msg)
      /\ \A k \in 0 .. n - 1 : f[k + 1] = NextElement(b, f[k], member, start + n)
      /\ \A msg2 : f[n] = CursorAt(start + n, msg2) =>
           ReadPacked(b, CursorAt(ptr, msg), member) = CursorAt(start + n, msg2)
  BY <1>b DEF PackedRun
<1> DEFINE upto(k) == SubSeq(list, 1, k)
<1>10. /\ upto(0) = <<>> /\ upto(len) = list
       /\ \A k \in 0 .. len - 1 : upto(k + 1) = Append(upto(k), list[k + 1])
  BY <1>0, FirstOnes DEF len
<1> HIDE DEF upto
<1>11. f[len] = CursorAt(start + n, With(msg, member, list))
  <2> DEFINE T == {k \in 0 .. len : f[k] = CursorAt(at(k), With(msg, member, upto(k)))}
  <2>1. 0 \in T
    <3>1. With(msg, member, upto(0)) = msg
      BY <1>10 DEF IsEmpty
    <3>2. f[0] = CursorAt(at(0), With(msg, member, upto(0)))
      BY <1>7, <1>9, <3>1
    <3>3. 0 \in 0 .. len
      BY <1>1
    <3> QED BY <3>2, <3>3
  <2>2. ASSUME NEW k \in 0 .. len - 1, k \in T PROVE k + 1 \in T
    <3>1. /\ VarintAt(b, at(k), list[k + 1], at(k + 1)) /\ at(k) + 1 <= at(k + 1)
          /\ k \in 0 .. len /\ k + 1 \in 0 .. len
      BY <1>5
    <3>2. at(k) \in Nat /\ at(k) < start + n /\ start + n \in Nat
      BY <1>1, <1>4, <1>6, <3>1
    <3>3. f[k] = CursorAt(at(k), With(msg, member, upto(k)))
      BY <2>2
    <3> DEFINE p == at(k)
               e == start + n
               l == upto(k)
               x == list[k + 1]
               p2 == at(k + 1)
    <3> HIDE DEF p, e, l, x, p2, T
    <3>4. p \in Nat /\ e \in Nat /\ p < e /\ VarintAt(b, p, x, p2)
      BY <3>1, <3>2 DEF p, e, x, p2
    <3>5. NextElement(b, CursorAt(p, With(msg, member, l)), member, e)
            = CursorAt(p2, With(msg, member, Append(l, x)))
      BY <3>4, ElementRead DEF IsEmpty
    <3>6. k \in 0 .. n - 1
      BY <1>1, <1>8
    <3>7. f[k + 1] = NextElement(b, f[k], member, e)
      BY <1>9, <3>6, Zenon DEF e
    <3>8. upto(k + 1) = Append(l, x)
      BY <1>10 DEF l, x
    <3>9. f[k] = CursorAt(p, With(msg, member, l))
      BY <3>3 DEF p, l
    <3>10. f[k + 1] = CursorAt(p2, With(msg, member, upto(k + 1)))
      BY <3>5, <3>7, <3>8, <3>9, Zenon
    <3> QED BY <3>1, <3>10 DEF T, p2
  <2> HIDE DEF T
  <2>3. len \in T
    BY <1>a, <2>1, <2>2, Upwards
  <2> QED BY <1>7, <1>10, <2>3 DEF T
<1>12. f[n] = f[len]
  <2> DEFINE T == {k \in 0 .. n - len : f[len + k] = f[len]}
             e == start + n
  <2>1. n - len \in Nat /\ len + (n - len) = n
    BY <1>1, <1>8
  <2>2. 0 \in T
    BY <1>1, <2>1
  <2>3. ASSUME NEW k \in 0 .. (n - len) - 1, k \in T PROVE k + 1 \in T
    <3>1. len + k \in 0 .. n - 1 /\ (len + k) + 1 = len + (k + 1) /\ k + 1 \in 0 .. n - len
      BY <1>1, <2>1
    <3> HIDE DEF e
    <3>2. f[(len + k) + 1] = NextElement(b, f[len + k], member, e)
      BY <1>9, <3>1, Zenon DEF e
    <3>3. f[len + k] = CursorAt(e, With(msg, member, list))
      BY <1>11, <2>3 DEF e
    <3>4. NextElement(b, CursorAt(e, With(msg, member, list)), member, e)
            = CursorAt(e, With(msg, member, list))
      <4> DEFINE m == With(msg, member, list)
      <4> HIDE DEF m
      <4>1. e \in Nat
        BY <1>1, <1>4 DEF e
      <4>2. NextElement(b, CursorAt(e, m), member, e) = CursorAt(e, m)
        BY <4>1, NoElementRead
      <4> QED BY <4>2 DEF m
    <3>5. f[len + (k + 1)] = f[len]
      BY <1>11, <3>1, <3>2, <3>3, <3>4, Zenon DEF e
    <3> QED BY <3>1, <3>5
  <2> HIDE DEF T
  <2>4. n - len \in T
    <3> DEFINE m == n - len
    <3>1. m \in Nat /\ \A k \in 0 .. m - 1 : k \in T => k + 1 \in T
      BY <2>1, <2>3
    <3> HIDE DEF m
    <3>2. m \in T
      BY <2>2, <3>1, Upwards
    <3> QED BY <3>2 DEF m
  <2> QED BY <2>1, <2>4 DEF T
<1> QED BY <1>9, <1>11, <1>12, Zenon

\* What is read of a packed field that is written behind its tag and its length.
LEMMA PackedFieldRead ==
  ASSUME NEW b, NEW run, NEW type, NEW limit, NEW ptr, NEW msg, NEW callers,
         At(b, run, type, limit, ptr, msg, callers),
         NEW field \in 1 .. 15, NEW member, FieldOf(type, 8 * field + 2) = PackedUInt32(member),
         IsEmpty(msg, member), NEW list \in Seq(UInt32Type), NEW s \in Seq(Nat),
         s = FlattenSeq(Varints(list)), Len(s) \in UInt32Type,
         Holds(b, ptr, WriteBytes(field, Len(s), s)),
         ptr + LengthDelimitedSize(Len(s)) <= limit
  PROVE  At(b, run, type, limit, ptr + LengthDelimitedSize(Len(s)), With(msg, member, list), callers)
<1> DEFINE tag == 8 * field + 2
           end == ptr + LengthDelimitedSize(Len(s))
           n == Len(s)
           start == ptr + 1 + UInt32Size(n)
           msg2 == With(msg, member, list)
<1>1. tag \in 1 .. 127
  OBVIOUS
<1>2. n \in Nat /\ UInt32Size(n) \in 1 .. 5 /\ LengthDelimitedSize(n) = 1 + UInt32Size(n) + n
  BY UInt32Numbers, VarintType DEF LengthDelimitedSize
<1>3. WriteBytes(field, n, s) = <<tag>> \o Varint(n) \o s
  BY DEF WriteBytes
<1> HIDE DEF tag, n
<1>4. ptr \in Nat /\ Holds(b, ptr, <<tag>>) /\ VarintAt(b, ptr + 1, n, start) /\ Holds(b, start, s)
  <2>1. Holds(b, ptr, <<tag>> \o Varint(n) \o s) /\ n \in UInt32Type
    BY <1>3 DEF n
  <2> QED BY <1>1, <2>1, TagAt, Zenon
<1>5. end \in Nat /\ ptr + 2 <= end /\ end = start + n
  <2>1. ptr \in Nat
    BY <1>4
  <2>2. end = ptr + LengthDelimitedSize(n)
    BY DEF n
  <2> DEFINE u == UInt32Size(n)
             l == LengthDelimitedSize(n)
  <2> HIDE DEF end
  <2>3. u \in 1 .. 5 /\ n \in Nat /\ l = 1 + u + n /\ ptr \in Nat /\ end = ptr + l
    BY <1>2, <2>1, <2>2
  <2> HIDE DEF u, l
  <2>4. end \in Nat /\ ptr + 2 <= end /\ end = (ptr + 1 + u) + n
    BY <2>3
  <2> QED BY <2>4 DEF u
<1> HIDE DEF end, start
<1>6. ReadPacked(b, CursorAt(ptr + 1, msg), member) = CursorAt(end, msg2)
  <2>1. ListAt(b, start, list, n)
    BY <1>4 DEF ListAt, n
  <2> HIDE DEF msg2
  <2>2. ReadPacked(b, CursorAt(ptr + 1, msg), member) = CursorAt(start + n, msg2)
    BY <1>4, <2>1, PackedRead DEF msg2
  <2> QED BY <1>5, <2>2, Zenon
<1>7. Reads(PackedUInt32(member), b, ptr + 1, msg, end, msg2)
  BY <1>6, ReadFieldIs, FieldKinds, Zenon DEF Reads
<1>8. FieldAt(b, ptr, type, PackedUInt32(member))
  <2>1. FieldOf(type, tag) = PackedUInt32(member)
    BY DEF tag
  <2>2. PackedUInt32(member) # NoField
    BY FieldKinds, Zenon
  <2> QED BY <1>1, <1>4, <2>1, <2>2, FieldFound
<1>9. end <= limit /\ end <= Len(b)
  <2>1. ptr + Len(WriteBytes(field, Len(s), s)) <= Len(b)
    BY DEF Holds
  <2>2. Len(WriteBytes(field, Len(s), s)) = LengthDelimitedSize(Len(s))
    <3>1. field \in Nat /\ Len(s) \in Nat
      BY UInt32Numbers
    <3> QED BY <3>1, WriteBytesType
  <2> QED BY <2>1, <2>2 DEF end
<1>10. At(b, run, type, limit, end, msg2, callers)
  <2> DEFINE f == PackedUInt32(member)
  <2>1. Reads(f, b, ptr + 1, msg, end, msg2) /\ FieldAt(b, ptr, type, f)
    BY <1>7, <1>8
  <2> HIDE DEF msg2, f
  <2> QED BY <1>5, <1>9, <2>1, FieldRead
<1> QED BY <1>10 DEF end

LEMMA PackedReadAs ==
  ASSUME NEW type, NEW m, NEW x, NEW list \in Seq(UInt32Type), Member(type, m, x, list, <<>>),
         NEW field \in 1 .. 15, FieldOf(type, 8 * field + 2) = PackedUInt32(x)
  PROVE  ReadAs(type, m, {x}, WriteUInt32Packed(field, list))
<1> DEFINE s == WriteUInt32Packed(field, list)
           values == FlattenSeq(Varints(list))
<1>1. s \in Seq(Nat) /\ values \in Seq(Nat) /\ Len(values) \in Nat
  <2>1. list \in Seq(Nat) /\ field \in Nat
    BY UInt32Numbers
  <2> QED BY <2>1, VarintsType, WritePackedType
<1>2. /\ list = <<>> => s = <<>>
      /\ list # <<>> => s = WriteBytes(field, Len(values), values)
  BY DEF WriteUInt32Packed, Varints
<1> HIDE DEF s, values
<1>3. ASSUME NEW b, NEW run, NEW limit, NEW ptr, NEW callers, NEW S,
             At(b, run, type, limit, ptr, Partly(type, m, S), callers), Within(b, ptr, s, limit),
             S \cap {x} = {}
      PROVE  At(b, run, type, limit, ptr + Len(s), Partly(type, m, S \cup {x}), callers)
  <2> DEFINE p == Partly(type, m, S)
             q == Partly(type, m, S \cup {x})
  <2>1. /\ With(p, x, list) = q /\ (list = <<>> => q = p)
        /\ IsEmpty(p, x)
    <3>1. x \notin S
      BY <1>3
    <3> QED BY <3>1, PartlyRead DEF IsEmpty
  <2> HIDE DEF p, q
  <2>2. CASE list = <<>>
    <3>1. ptr + Len(s) = ptr
      <4>1. Len(s) = 0
        BY <1>2, <2>2
      <4>2. ptr \in Nat
        BY <1>3 DEF At
      <4> QED BY <4>1, <4>2
    <3> QED BY <1>3, <2>1, <2>2, <3>1, Zenon DEF p, q
  <2>3. CASE list # <<>>
    <3>1. s = WriteBytes(field, Len(values), values)
      BY <1>2, <2>3
    <3>2. Len(s) = LengthDelimitedSize(Len(values)) /\ Len(values) + 2 <= Len(s)
      <4>1. field \in Nat
        OBVIOUS
      <4>2. /\ Len(WriteBytes(field, Len(values), values)) = LengthDelimitedSize(Len(values))
            /\ Len(values) + 2 <= LengthDelimitedSize(Len(values))
        BY <1>1, <4>1, WriteBytesType
      <4> QED BY <3>1, <4>2
    <3>3. Len(values) \in UInt32Type
      <4>1. Len(s) <= INT_MAX /\ Len(s) \in Nat /\ Len(values) \in Nat
        BY <1>1, <1>3, LenProperties DEF Within
      <4>2. Len(values) <= INT_MAX
        BY <3>2, <4>1 DEF INT_MAX
      <4> QED BY <4>1, <4>2, SmallNumbers
    <3>4. /\ Holds(b, ptr, WriteBytes(field, Len(values), values))
          /\ ptr + LengthDelimitedSize(Len(values)) <= limit
      BY <1>3, <3>1, <3>2, Zenon DEF Within
    <3>5. At(b, run, type, limit, ptr, p, callers)
      BY <1>3 DEF p
    <3>6. At(b, run, type, limit, ptr + LengthDelimitedSize(Len(values)), With(p, x, list), callers)
      <4>1. values = FlattenSeq(Varints(list))
        BY DEF values
      <4> QED BY <1>1, <2>1, <3>3, <3>4, <3>5, <4>1, PackedFieldRead
    <3> QED BY <2>1, <3>2, <3>6, Zenon DEF q
  <2> QED BY <2>2, <2>3
<1> QED BY <1>1, <1>3, Zenon DEF ReadAs, s

\* A message of this type is read where s is, into m.
Parses(type, s, m) ==
  /\ s \in Seq(Nat)
  /\ \A b, run, limit, ptr, callers :
       At(b, run, type, limit, ptr, Cleared[type], callers) /\ Within(b, ptr, s, limit)
       => At(b, run, type, limit, ptr + Len(s), m, callers)

\* The field of a submessage, which is not merged into one that is there.
Submessage(field, type, member, msg) ==
  /\ OfMessage(field) /\ field # NoField /\ field.type = type /\ field.member = member
  /\ ~Merged(field, msg)

\* What waits for a submessage.
Caller(type, limit, field, msg) == [type |-> type, limit |-> limit, field |-> field, msg |-> msg]

LEMMA CallersStack ==
  ASSUME NEW callers, IsList(callers), NEW caller
  PROVE  /\ IsList(Append(callers, caller)) /\ Append(callers, caller) # <<>>
         /\ Len(Append(callers, caller)) = Len(callers) + 1 /\ Len(callers) \in Nat
         /\ Last(Append(callers, caller)) = caller /\ Front(Append(callers, caller)) = callers
<1>1. PICK S : callers \in Seq(S)
  BY DEF IsList
<1> DEFINE T == S \cup {caller}
           all == Append(callers, caller)
<1>2. callers \in Seq(T) /\ caller \in T /\ Len(callers) \in Nat
  BY <1>1, LenProperties
<1>3. /\ all \in Seq(T) /\ Len(all) = Len(callers) + 1 /\ all[Len(callers) + 1] = caller
      /\ \A i \in 1 .. Len(callers) : all[i] = callers[i]
  BY <1>2, AppendProperties
<1>4. all # <<>>
  <2>1. Len(all) # 0
    BY <1>2, <1>3
  <2> HIDE DEF all
  <2> QED BY <2>1
<1>5. Last(all) = caller
  BY <1>3 DEF Last
<1>6. Front(all) = callers
  <2>1. Front(all) = SubSeq(all, 1, Len(all) - 1)
    BY DEF Front
  <2>2. Len(all) - 1 = Len(callers)
    BY <1>2, <1>3
  <2>3. SubSeq(all, 1, Len(callers)) = callers
    <3> DEFINE n == Len(callers)
    <3>1. n \in Nat /\ n <= Len(all) /\ all \in Seq(T)
      BY <1>2, <1>3
    <3>2. callers = [i \in 1 .. n |-> callers[i]]
      BY <1>1
    <3> HIDE DEF all
    <3>3. SubSeq(all, 1, n) = [i \in 1 .. n |-> all[i]]
      BY <3>1
    <3> HIDE DEF n
    <3>4. [i \in 1 .. n |-> all[i]] = [i \in 1 .. n |-> callers[i]]
      BY <1>3 DEF n
    <3> QED BY <3>2, <3>3, <3>4, Zenon DEF n
  <2> QED BY <2>1, <2>2, <2>3, Zenon
<1>7. IsList(all)
  BY <1>3 DEF IsList
<1> QED BY <1>2, <1>3, <1>4, <1>5, <1>6, <1>7

\* The length before a submessage is where its call ends.
LEMMA MessageCalled ==
  ASSUME NEW b, NEW type, NEW limit, NEW ptr, NEW msg, NEW callers, NEW field, NEW sub,
         NEW member, Submessage(field, sub, member, msg), NEW n, NEW start,
         VarintAt(b, ptr, n, start), NEW cursor
  PROVE  ParseMessage(b, ParseCall(type, limit, cursor, callers), field, CursorAt(ptr, msg))
           = ParseCall(sub, start + n, CursorAt(start, Cleared[sub]),
               Append(callers, Caller(type, limit, field, msg)))
<1> DEFINE call == ParseCall(type, limit, cursor, callers)
           at == CursorAt(ptr, msg)
           size == ReadVarint(b, ptr)
<1>1. call.type = type /\ call.limit = limit /\ call.callers = callers
  BY CallIs
<1>2. at.ptr = ptr /\ at.msg = msg
  BY CursorIs
<1>3. size.value = n /\ size.ptr = start
  BY DEF VarintAt
<1>4. field.type = sub /\ ~Merged(field, msg)
  BY DEF Submessage
<1> HIDE DEF call, at, size
<1>5. ParseMessage(b, call, field, at)
        = ParseCall(field.type, size.ptr + size.value,
            CursorAt(size.ptr, IF Merged(field, msg) THEN msg[field.member][1]
                               ELSE Cleared[field.type]),
            Append(callers, Caller(type, limit, field, msg)))
  BY <1>1, <1>2, Zenon DEF ParseMessage, Caller, size
<1>6. (IF Merged(field, msg) THEN msg[field.member][1] ELSE Cleared[field.type]) = Cleared[sub]
  BY <1>4
<1> QED BY <1>3, <1>4, <1>5, <1>6, Zenon DEF call, at

LEMMA CursorAtLimit ==
  ASSUME NEW b, NEW end \in Nat, end <= Len(b), Len(b) \in Nat, NEW msg
  PROVE  AtLimit(b, CursorAt(end, msg), end) = CursorAt(end, msg)
<1> DEFINE cursor == CursorAt(end, msg)
           q == [cursor EXCEPT !.failed = end # end \/ end > Len(b)]
<1>1. cursor.ptr = end /\ cursor.failed = FALSE /\ cursor.ended = FALSE
  BY CursorIs
<1>2. AtLimit(b, cursor, end) = q
  <2> HIDE DEF cursor
  <2> QED BY <1>1 DEF AtLimit
<1>3. ~(end # end \/ end > Len(b))
  OBVIOUS
<1>4. q.ptr = end /\ q.msg = msg /\ q.failed = FALSE /\ q.ended = FALSE
  BY <1>3 DEF CursorAt
<1>5. DOMAIN q = {"ptr", "msg", "failed", "ended"} /\ q = [m \in DOMAIN q |-> q[m]]
  BY DEF CursorAt
<1> HIDE DEF q
<1>6. q = CursorAt(end, msg)
  BY <1>4, <1>5 DEF CursorAt
<1> QED BY <1>2, <1>6

\* Where a submessage ends, its caller goes on with it.
LEMMA MessageReturned ==
  ASSUME NEW b, NEW type, NEW limit, NEW msg, NEW callers, IsList(callers), NEW field, NEW sub,
         NEW member, Submessage(field, sub, member, msg), NEW end \in Nat, end <= Len(b),
         Len(b) \in Nat, NEW m, NEW list, list = msg[member]
  PROVE  InternalParse(b, ParseCall(sub, end, CursorAt(end, m),
                            Append(callers, Caller(type, limit, field, msg))))
           = ParseCall(type, limit, CursorAt(end, With(msg, member, Append(list, m))), callers)
<1> DEFINE caller == Caller(type, limit, field, msg)
           all == Append(callers, caller)
           cursor == CursorAt(end, m)
           call == ParseCall(sub, end, cursor, all)
<1>1. /\ call.type = sub /\ call.limit = end /\ call.cursor = cursor /\ call.callers = all
  <2> HIDE DEF cursor, all
  <2> QED BY CallIs
<1>2. cursor.ptr = end /\ cursor.msg = m /\ cursor.failed = FALSE /\ cursor.ended = FALSE
  BY DEF CursorAt
<1>3. /\ caller.type = type /\ caller.limit = limit /\ caller.field = field /\ caller.msg = msg
  BY DEF Caller
<1>4. AtLimit(b, cursor, end) = cursor
  BY CursorAtLimit
<1>5. all # <<>> /\ Last(all) = caller /\ Front(all) = callers
  <2> HIDE DEF caller
  <2> QED BY CallersStack
<1>6. field.member = member /\ ~Merged(field, msg)
  BY DEF Submessage
<1>7. Done(b, cursor, end)
  <2>1. end >= end
    OBVIOUS
  <2> HIDE DEF cursor
  <2> QED BY <1>2, <2>1 DEF Done
<1> HIDE DEF caller, all, cursor, call
<1>8. InternalParse(b, call) = Return(b, call)
  BY <1>1, <1>5, <1>7, Zenon DEF InternalParse
<1> DEFINE into == Append(list, m)
           next == [ptr |-> cursor.ptr, msg |-> [msg EXCEPT ![member] = into],
                    failed |-> cursor.failed \/ cursor.ended \/ cursor.ptr # end,
                    ended |-> FALSE]
<1>9. Return(b, call) = ParseCall(type, limit, next, callers)
  <2>1. Return(b, call) =
          ParseCall(caller.type, caller.limit,
            [ptr |-> cursor.ptr,
             msg |-> [caller.msg EXCEPT ![caller.field.member] =
                       IF Merged(caller.field, caller.msg) THEN <<cursor.msg>>
                       ELSE Append(caller.msg[caller.field.member], cursor.msg)],
             failed |-> cursor.failed \/ cursor.ended \/ cursor.ptr # end, ended |-> FALSE],
            callers)
    BY <1>1, <1>4, <1>5, Zenon DEF Return
  <2>2. (IF Merged(caller.field, caller.msg) THEN <<cursor.msg>>
         ELSE Append(caller.msg[caller.field.member], cursor.msg)) = into
    BY <1>2, <1>3, <1>6, Zenon
  <2> HIDE DEF into
  <2> QED BY <1>3, <1>6, <2>1, <2>2, Zenon
<1>10. next = CursorAt(end, With(msg, member, into))
  <2> HIDE DEF into
  <2>1. (cursor.failed \/ cursor.ended \/ cursor.ptr # end) = FALSE
    BY <1>2
  <2> QED BY <1>2, <2>1 DEF CursorAt, With
<1> QED BY <1>8, <1>9, <1>10, Zenon DEF call, all, cursor, caller

LEMMA MessageRead ==
  ASSUME NEW b, NEW run, NEW type, NEW limit, NEW ptr, NEW msg, NEW callers,
         At(b, run, type, limit, ptr, msg, callers),
         NEW number \in 1 .. 15, NEW field, FieldOf(type, 8 * number + 2) = field,
         NEW sub, NEW member, Submessage(field, sub, member, msg),
         NEW s, NEW m, Parses(sub, s, m), Within(b, ptr, WriteBytes(number, Len(s), s), limit),
         NEW list, list = msg[member]
  PROVE  At(b, run, type, limit, ptr + Len(WriteBytes(number, Len(s), s)),
            With(msg, member, Append(list, m)), callers)
<1> DEFINE tag == 8 * number + 2
           n == Len(s)
           whole == WriteBytes(number, n, s)
           start == ptr + 1 + UInt32Size(n)
           end == start + n
           caller == Caller(type, limit, field, msg)
           all == Append(callers, caller)
           call == ParseCall(type, limit, CursorAt(ptr, msg), callers)
<1>1. tag \in 1 .. 127 /\ s \in Seq(Nat) /\ number \in Nat
  BY DEF Parses
<1>2. /\ ptr \in Nat /\ limit \in Nat /\ Len(b) \in Nat /\ IsList(callers)
      /\ n \in Nat /\ UInt32Size(n) \in 1 .. 5 /\ Len(whole) = 1 + UInt32Size(n) + n
      /\ ptr + Len(whole) <= limit /\ ptr + Len(whole) <= Len(b) /\ Len(whole) <= INT_MAX
  <2>1. /\ ptr \in Nat /\ limit \in Nat /\ Len(b) \in Nat /\ IsList(callers)
        /\ n \in Nat /\ UInt32Size(n) \in 1 .. 5 /\ Len(whole) = 1 + UInt32Size(n) + n
    BY <1>1, LenProperties, VarintType, WriteBytesType DEF At, LengthDelimitedSize
  <2>2. ptr + Len(whole) <= limit /\ Len(whole) <= INT_MAX /\ Holds(b, ptr, whole)
    BY DEF Within
  <2> HIDE DEF whole
  <2>3. ptr + Len(whole) <= Len(b)
    BY <2>2 DEF Holds
  <2> QED BY <2>1, <2>2, <2>3
<1>3. n \in UInt32Type /\ n <= INT_MAX
  <2> DEFINE l == Len(whole)
             u == UInt32Size(n)
  <2>1. n \in Nat /\ l <= INT_MAX /\ u \in 1 .. 5 /\ l = 1 + u + n /\ INT_MAX \in Nat
    BY <1>2 DEF INT_MAX
  <2> HIDE DEF l, u, n
  <2>2. n <= INT_MAX
    BY <2>1
  <2> QED BY <2>1, <2>2, SmallNumbers
<1>4. /\ Holds(b, ptr, <<tag>>) /\ VarintAt(b, ptr + 1, n, start) /\ Holds(b, start, s)
  <2>1. Holds(b, ptr, <<tag>> \o Varint(n) \o s)
    BY DEF Within, WriteBytes
  <2> HIDE DEF tag, n
  <2> QED BY <1>1, <1>3, <2>1, TagAt, Zenon
<1>5. /\ start \in Nat /\ end \in Nat /\ ptr + 2 <= start /\ start <= end /\ end <= limit
      /\ end <= Len(b) /\ end = ptr + Len(whole) /\ ptr < limit
  <2> DEFINE l == Len(whole)
             u == UInt32Size(n)
             lb == Len(b)
  <2>1. /\ n \in Nat /\ u \in 1 .. 5 /\ l = 1 + u + n /\ ptr \in Nat /\ limit \in Nat
        /\ lb \in Nat /\ ptr + l <= limit /\ ptr + l <= lb
    BY <1>2
  <2> HIDE DEF l, u, lb, n
  <2>2. /\ ptr + 1 + u \in Nat /\ (ptr + 1 + u) + n \in Nat /\ ptr + 2 <= ptr + 1 + u
        /\ ptr + 1 + u <= (ptr + 1 + u) + n /\ (ptr + 1 + u) + n <= limit
        /\ (ptr + 1 + u) + n <= lb /\ (ptr + 1 + u) + n = ptr + l /\ ptr < limit
    BY <2>1
  <2> QED BY <2>2 DEF u, lb, l
<1> HIDE DEF tag, n, start, whole, end, caller, all
<1>6. InternalParse(b, call) = ParseCall(sub, end, CursorAt(start, Cleared[sub]), all)
  <2>1. FieldAt(b, ptr, type, field)
    <3>1. field # NoField /\ FieldOf(type, tag) = field
      BY DEF Submessage, tag
    <3> QED BY <1>1, <1>4, <3>1, FieldFound
  <2>2. OfMessage(field)
    BY DEF Submessage
  <2>3. InternalParse(b, call) = ParseMessage(b, call, field, CursorAt(ptr + 1, msg))
    <3>1. ptr < limit
      BY <1>5
    <3>2. OfMessage(field) =>
            InternalParse(b, ParseCall(type, limit, CursorAt(ptr, msg), callers))
              = ParseMessage(b, ParseCall(type, limit, CursorAt(ptr, msg), callers), field,
                  CursorAt(ptr + 1, msg))
      BY <2>1, <3>1, AtField
    <3> QED BY <2>2, <3>2, Zenon
  <2>4. ParseMessage(b, call, field, CursorAt(ptr + 1, msg))
          = ParseCall(sub, start + n, CursorAt(start, Cleared[sub]), all)
    <3> DEFINE cursor == CursorAt(ptr, msg)
               p == ptr + 1
    <3>1. VarintAt(b, p, n, start)
      BY <1>4
    <3> HIDE DEF cursor, p
    <3>2. ParseMessage(b, ParseCall(type, limit, cursor, callers), field, CursorAt(p, msg))
            = ParseCall(sub, start + n, CursorAt(start, Cleared[sub]),
                Append(callers, Caller(type, limit, field, msg)))
      BY <3>1, MessageCalled
    <3> QED BY <3>2 DEF cursor, p, all, caller
  <2> QED BY <2>3, <2>4, Zenon DEF end
<1>7. /\ IsList(all) /\ Len(all) = Len(callers) + 1 /\ Len(callers) \in Nat
  BY <1>2, CallersStack DEF all
<1>8. At(b, run, sub, end, start, Cleared[sub], all)
  <2> DEFINE k == Len(callers)
             l == Len(all)
  <2>1. ptr + 1 + Len(all) <= start + Len(callers)
    <3>1. k \in Nat /\ l = k + 1 /\ ptr \in Nat /\ start \in Nat /\ ptr + 2 <= start
      BY <1>2, <1>5, <1>7
    <3> HIDE DEF k, l
    <3>2. ptr + 1 + l <= start + k
      BY <3>1
    <3> QED BY <3>2 DEF k, l
  <2> DEFINE c == Cleared[sub]
  <2>2. InternalParse(b, ParseCall(type, limit, CursorAt(ptr, msg), callers))
          = ParseCall(sub, end, CursorAt(start, c), all)
    BY <1>6
  <2> HIDE DEF c
  <2>3. At(b, run, sub, end, start, c, all)
    BY <1>5, <1>7, <2>1, <2>2, Step
  <2> QED BY <2>3 DEF c
<1>9. At(b, run, sub, end, end, m, all)
  <2>1. Within(b, start, s, end)
    BY <1>2, <1>3, <1>4, <1>5 DEF Within, n, end
  <2>2. At(b, run, sub, end, start + Len(s), m, all)
    BY <1>8, <2>1, Zenon DEF Parses
  <2> QED BY <2>2 DEF end, n
<1>10. InternalParse(b, ParseCall(sub, end, CursorAt(end, m), all))
         = ParseCall(type, limit, CursorAt(end, With(msg, member, Append(list, m))), callers)
  BY <1>2, <1>5, MessageReturned DEF all, caller
<1>11. At(b, run, type, limit, end, With(msg, member, Append(list, m)), callers)
  <2> DEFINE k == Len(callers)
             l == Len(all)
             msg2 == With(msg, member, Append(list, m))
  <2>1. end + 1 + Len(callers) <= end + Len(all)
    <3>1. k \in Nat /\ l = k + 1 /\ end \in Nat
      BY <1>5, <1>7
    <3> HIDE DEF k, l
    <3>2. end + 1 + k <= end + l
      BY <3>1
    <3> QED BY <3>2 DEF k, l
  <2>2. InternalParse(b, ParseCall(sub, end, CursorAt(end, m), all))
          = ParseCall(type, limit, CursorAt(end, msg2), callers)
    BY <1>10
  <2> HIDE DEF msg2
  <2>3. At(b, run, type, limit, end, msg2, callers)
    BY <1>2, <1>5, <1>9, <2>1, <2>2, Step
  <2> QED BY <2>3 DEF msg2
<1> QED BY <1>5, <1>11, Zenon DEF whole, n

\* The messages of a list, and what is written for each of them.
AllParse(type, list, written) ==
  /\ IsList(list) /\ written \in Seq(Seq(Nat)) /\ Len(written) = Len(list)
  /\ \A k \in 1 .. Len(list) : Parses(type, written[k], list[k])

\* The field of a list: one that is not merged, or a single message.
ListField(field, type, member, list) ==
  \A msg : Submessage(field, type, member, msg) \/ (Len(list) = 1 /\ msg[member] # <<>>)

LEMMA DelimitedEach ==
  ASSUME NEW number \in 1 .. 15, NEW written \in Seq(Seq(Nat))
  PROVE  /\ Delimited(number, written) \in Seq(Seq(Nat))
         /\ Len(Delimited(number, written)) = Len(written) /\ Len(written) \in Nat
         /\ \A k \in 1 .. Len(written) :
              Delimited(number, written)[k] = WriteBytes(number, Len(written[k]), written[k])
<1> DEFINE sizes == [k \in DOMAIN written |-> LengthDelimitedSize(Len(written[k]))]
           n == Len(written)
<1>1. n \in Nat /\ DOMAIN written = 1 .. n /\ number \in Nat
  BY LenProperties
<1>2. Len(sizes) = n /\ \A k \in 1 .. n : sizes[k] = LengthDelimitedSize(Len(written[k]))
  BY <1>1
<1> HIDE DEF sizes
<1>3. Delimited(number, written) \in Seq(Seq(Nat)) /\ Len(Delimited(number, written)) = n
  <2>1. DelimitedSizes(written, sizes)
    BY <1>2 DEF DelimitedSizes
  <2> QED BY <1>1, <2>1, DelimitedType
<1>4. \A k \in 1 .. n :
        Delimited(number, written)[k] = WriteBytes(number, Len(written[k]), written[k])
  BY <1>1 DEF Delimited
<1> QED BY <1>1, <1>3, <1>4

\* What is written for the first so many messages of a list, one of them after the other.
FirstFields(number, written, g) ==
  LET fields == Delimited(number, written)
  IN  Concatenations(fields, g) /\ \A k \in 0 .. Len(fields) : g[k] \in Seq(Nat)

LEMMA FieldsInTurn ==
  ASSUME NEW number \in 1 .. 15, NEW written \in Seq(Seq(Nat)), NEW g,
         FirstFields(number, written, g), NEW n, n = Len(written)
  PROVE  /\ n \in Nat /\ g[0] = <<>> /\ g[n] = FlattenSeq(Delimited(number, written))
         /\ \A k \in 0 .. n : g[k] \in Seq(Nat)
         /\ \A k \in 0 .. n - 1 :
              /\ g[k + 1] = g[k] \o WriteBytes(number, Len(written[k + 1]), written[k + 1])
              /\ WriteBytes(number, Len(written[k + 1]), written[k + 1]) \in Seq(Nat)
<1> DEFINE fields == Delimited(number, written)
<1>1. /\ fields \in Seq(Seq(Nat)) /\ Len(fields) = n /\ n \in Nat
      /\ \A k \in 1 .. n : fields[k] = WriteBytes(number, Len(written[k]), written[k])
  BY DelimitedEach
<1>2. Concatenations(fields, g) /\ \A k \in 0 .. Len(fields) : g[k] \in Seq(Nat)
  BY DEF FirstFields
<1> HIDE DEF fields
<1>3. ASSUME NEW k \in 0 .. n - 1
      PROVE  /\ g[k + 1] = g[k] \o WriteBytes(number, Len(written[k + 1]), written[k + 1])
             /\ WriteBytes(number, Len(written[k + 1]), written[k + 1]) \in Seq(Nat)
  <2>1. k + 1 \in 1 .. n
    BY <1>1
  <2>2. fields[k + 1] = WriteBytes(number, Len(written[k + 1]), written[k + 1])
    BY <1>1, <2>1
  <2>3. fields[k + 1] \in Seq(Nat)
    BY <1>1, <2>1, ElementOfSeq
  <2>4. g[k + 1] = g[k] \o fields[k + 1]
    BY <1>1, <1>2 DEF Concatenations
  <2> QED BY <2>2, <2>3, <2>4, Zenon
<1>4. g[0] = <<>> /\ g[n] = FlattenSeq(fields)
  BY <1>1, <1>2 DEF Concatenations
<1> QED BY <1>1, <1>2, <1>3, <1>4 DEF fields

\* The first messages of a list are read as they were written.
LEMMA FirstMessagesRead ==
  ASSUME NEW b, NEW run, NEW type, NEW limit, NEW ptr, NEW msg, NEW callers,
         At(b, run, type, limit, ptr, msg, callers),
         NEW number \in 1 .. 15, NEW field, FieldOf(type, 8 * number + 2) = field,
         NEW sub, NEW member, NEW list, ListField(field, sub, member, list),
         NEW written, AllParse(sub, list, written), IsEmpty(msg, member),
         NEW g, FirstFields(number, written, g),
         NEW first \in 0 .. Len(list), Within(b, ptr, g[first], limit)
  PROVE  At(b, run, type, limit, ptr + Len(g[first]), With(msg, member, SubSeq(list, 1, first)),
            callers)
<1> DEFINE len == Len(list)
           upto(k) == SubSeq(list, 1, k)
           w(k) == WriteBytes(number, Len(written[k]), written[k])
<1>0. IsList(list) /\ written \in Seq(Seq(Nat)) /\ Len(written) = len
  BY DEF AllParse
<1>1. /\ len \in Nat /\ g[0] = <<>> /\ \A k \in 0 .. len : g[k] \in Seq(Nat)
      /\ \A k \in 0 .. len - 1 : g[k + 1] = g[k] \o w(k + 1) /\ w(k + 1) \in Seq(Nat)
  BY <1>0, FieldsInTurn
<1>2. /\ upto(0) = <<>>
      /\ \A k \in 0 .. len - 1 : upto(k + 1) = Append(upto(k), list[k + 1])
  BY <1>0, FirstOnes DEF IsList
<1>3. ptr \in Nat /\ limit \in Nat
  BY DEF At
<1> HIDE DEF len, upto, w
<1> DEFINE at(k) == Within(b, ptr, g[k], limit) =>
             At(b, run, type, limit, ptr + Len(g[k]), With(msg, member, upto(k)), callers)
<1>4. at(0)
  <2>1. With(msg, member, upto(0)) = msg
    BY <1>2 DEF IsEmpty
  <2>2. ptr + Len(g[0]) = ptr
    <3>1. Len(g[0]) = 0
      BY <1>1
    <3> QED BY <1>3, <3>1
  <2> QED BY <2>1, <2>2
<1>5. ASSUME NEW k \in 0 .. len - 1, at(k), Within(b, ptr, g[k + 1], limit)
      PROVE  At(b, run, type, limit, ptr + Len(g[k + 1]), With(msg, member, upto(k + 1)), callers)
  <2> DEFINE p == ptr + Len(g[k])
             l == upto(k)
             x == list[k + 1]
             wk == written[k + 1]
             here == With(msg, member, l)
             this == w(k + 1)
  <2>0. k + 1 \in 1 .. len /\ k \in 0 .. len
    BY <1>1
  <2>1. here[member] = l /\ With(here, member, Append(l, x)) = With(msg, member, Append(l, x))
    <3> DEFINE v == Append(l, x)
    <3> HIDE DEF v, l, x
    <3>1. With(msg, member, l)[member] = l
      BY WithIs DEF IsEmpty
    <3>2. With(With(msg, member, l), member, v) = With(msg, member, v)
      BY WithIs DEF IsEmpty
    <3> QED BY <3>1, <3>2, Zenon DEF v
  <2>2. Submessage(field, sub, member, here)
    <3>1. CASE len = 1
      <4>1. k = 0
        BY <3>1
      <4>2. here[member] = <<>>
        BY <1>2, <2>1, <4>1
      <4> HIDE DEF here
      <4> QED BY <4>2, Zenon DEF ListField
    <3>2. CASE len # 1
      <4> HIDE DEF here
      <4> QED BY <3>2, Zenon DEF ListField, len
    <3> QED BY <3>1, <3>2
  <2> DEFINE gk == g[k]
  <2>3. /\ Within(b, ptr, gk, limit) /\ Within(b, p, this, limit)
        /\ p + Len(this) = ptr + Len(g[k + 1])
    <3>1. gk \in Seq(Nat) /\ this \in Seq(Nat) /\ g[k + 1] = gk \o this
      BY <1>1, <2>0
    <3>2. Within(b, ptr, gk \o this, limit)
      BY <1>5, <3>1
    <3> HIDE DEF gk, this
    <3>3. /\ Within(b, ptr, gk, limit) /\ Within(b, ptr + Len(gk), this, limit)
          /\ ptr + Len(gk) + Len(this) = ptr + Len(gk \o this)
      BY <1>3, <3>1, <3>2, WithinJoined
    <3> QED BY <3>1, <3>3, Zenon DEF gk
  <2>4. Parses(sub, wk, x)
    BY <2>0 DEF AllParse, len
  <2>5. At(b, run, type, limit, p, here, callers)
    BY <1>5, <2>3 DEF gk
  <2>6. Within(b, p, WriteBytes(number, Len(wk), wk), limit)
    BY <2>3 DEF w
  <2>7. this = WriteBytes(number, Len(wk), wk)
    BY DEF w
  <2> HIDE DEF p, l, x, wk, here, this
  <2>8. At(b, run, type, limit, p + Len(WriteBytes(number, Len(wk), wk)),
           With(here, member, Append(l, x)), callers)
    <3>1. l = here[member]
      BY <2>1
    <3> QED BY <2>2, <2>4, <2>5, <2>6, <3>1, MessageRead
  <2>9. Append(l, x) = upto(k + 1)
    BY <1>2 DEF l, x
  <2> QED BY <2>1, <2>3, <2>7, <2>8, <2>9, Zenon
<1> DEFINE T == {k \in 0 .. len : at(k)}
<1>6. 0 \in T
  BY <1>1, <1>4
<1>7. ASSUME NEW k \in 0 .. len - 1, k \in T PROVE k + 1 \in T
  <2>1. k + 1 \in 0 .. len
    BY <1>1
  <2>2. at(k)
    BY <1>7
  <2>3. at(k + 1)
    BY <1>5, <2>2
  <2> QED BY <2>1, <2>3
<1> HIDE DEF T, at
<1>8. \A i \in 0 .. len : i \in T
  BY <1>1, <1>6, <1>7, Upwards
<1>9. at(first)
  BY <1>8 DEF T, len
<1> QED BY <1>9 DEF at, upto

\* A list of messages is read as it was written.
LEMMA MessagesRead ==
  ASSUME NEW b, NEW run, NEW type, NEW limit, NEW ptr, NEW msg, NEW callers,
         At(b, run, type, limit, ptr, msg, callers),
         NEW number \in 1 .. 15, NEW field, FieldOf(type, 8 * number + 2) = field,
         NEW sub, NEW member, NEW list, ListField(field, sub, member, list),
         NEW written, AllParse(sub, list, written), IsEmpty(msg, member),
         NEW s, s = FlattenSeq(Delimited(number, written)), Within(b, ptr, s, limit)
  PROVE  At(b, run, type, limit, ptr + Len(s), With(msg, member, list), callers)
<1> DEFINE len == Len(list)
<1>1. IsList(list) /\ written \in Seq(Seq(Nat)) /\ Len(written) = len
  BY DEF AllParse
<1>2. PICK g : FirstFields(number, written, g)
  BY <1>1, DelimitedEach, FlattenIs DEF FirstFields
<1>3. len \in Nat /\ g[len] = s
  BY <1>1, <1>2, FieldsInTurn
<1>4. SubSeq(list, 1, len) = list
  BY <1>1, FirstOnes DEF IsList
<1>5. len \in 0 .. Len(list) /\ Within(b, ptr, g[len], limit)
  BY <1>3
<1> HIDE DEF len
<1>6. At(b, run, type, limit, ptr + Len(g[len]), With(msg, member, SubSeq(list, 1, len)), callers)
  BY <1>2, <1>5, FirstMessagesRead
<1> QED BY <1>3, <1>4, <1>6, Zenon

LEMMA MessagesReadAs ==
  ASSUME NEW type, NEW m, NEW x, NEW list, Member(type, m, x, list, <<>>),
         NEW number \in 1 .. 15, NEW field, FieldOf(type, 8 * number + 2) = field,
         NEW sub, ListField(field, sub, x, list), NEW written, AllParse(sub, list, written),
         NEW s \in Seq(Nat), s = FlattenSeq(Delimited(number, written))
  PROVE  ReadAs(type, m, {x}, s)
<1>1. ASSUME NEW b, NEW run, NEW limit, NEW ptr, NEW callers, NEW S,
             At(b, run, type, limit, ptr, Partly(type, m, S), callers), Within(b, ptr, s, limit),
             S \cap {x} = {}
      PROVE  At(b, run, type, limit, ptr + Len(s), Partly(type, m, S \cup {x}), callers)
  <2> DEFINE p == Partly(type, m, S)
             q == Partly(type, m, S \cup {x})
  <2>1. With(p, x, list) = q /\ IsEmpty(p, x)
    <3>1. x \notin S
      BY <1>1
    <3> QED BY <3>1, PartlyRead DEF IsEmpty
  <2>2. At(b, run, type, limit, ptr, p, callers)
    BY <1>1
  <2> HIDE DEF p, q
  <2>3. At(b, run, type, limit, ptr + Len(s), With(p, x, list), callers)
    BY <1>1, <2>1, <2>2, MessagesRead
  <2> QED BY <2>1, <2>3, Zenon DEF q
<1> QED BY <1>1, Zenon DEF ReadAs

\* A record with the members of the cleared message.
OfType(type, m) ==
  /\ Cleared[type] = [x \in DOMAIN m |-> Cleared[type][x]] /\ m = [x \in DOMAIN m |-> m[x]]

\* A message all of whose members are read is read.
LEMMA AllMembersRead ==
  ASSUME NEW type, NEW m, OfType(type, m), NEW X, X = DOMAIN m, NEW s, ReadAs(type, m, X, s)
  PROVE  Parses(type, s, m)
<1>1. Partly(type, m, {}) = Cleared[type] /\ Partly(type, m, {} \cup X) = m
  <2> DEFINE c == Cleared[type]
  <2>1. c = [x \in DOMAIN m |-> c[x]] /\ m = [x \in DOMAIN m |-> m[x]]
    BY DEF OfType
  <2>2. Partly(type, m, {}) = [x \in DOMAIN m |-> c[x]]
    BY DEF Partly
  <2>3. Partly(type, m, {} \cup X) = [x \in DOMAIN m |-> m[x]]
    BY DEF Partly
  <2> QED BY <2>1, <2>2, <2>3, Zenon
<1>2. {} \cap X = {}
  OBVIOUS
<1>3. ASSUME NEW b, NEW run, NEW limit, NEW ptr, NEW callers,
             At(b, run, type, limit, ptr, Cleared[type], callers), Within(b, ptr, s, limit)
      PROVE  At(b, run, type, limit, ptr + Len(s), m, callers)
  <2>1. At(b, run, type, limit, ptr, Partly(type, m, {}), callers)
    BY <1>1, <1>3, Zenon
  <2>2. At(b, run, type, limit, ptr + Len(s), Partly(type, m, {} \cup X), callers)
    BY <1>2, <1>3, <2>1, Zenon DEF ReadAs
  <2> QED BY <1>1, <2>2, Zenon
<1>4. s \in Seq(Nat)
  BY DEF ReadAs
<1> QED BY <1>3, <1>4, Zenon DEF Parses

\* A member that is a number.
NumberField(type, m, number, x) ==
  /\ number \in 1 .. 15 /\ FieldOf(type, 8 * number) = UInt32(x)
  /\ m[x] \in UInt32Type /\ x \in DOMAIN m /\ Cleared[type][x] = 0

LEMMA NumberReadAs ==
  ASSUME NEW type, NEW m, NEW number, NEW x, NumberField(type, m, number, x), NEW n, n = m[x]
  PROVE  ReadAs(type, m, {x}, WriteUInt32(number, n))
<1>1. /\ number \in 1 .. 15 /\ FieldOf(type, 8 * number) = UInt32(x) /\ n \in UInt32Type
      /\ Member(type, m, x, n, 0)
  BY DEF NumberField, Member
<1> QED BY <1>1, UInt32ReadAs

LEMMA ReadNext ==
  ASSUME NEW type, NEW m, NEW X, NEW x, NEW s, NEW t,
         ReadAs(type, m, X, s), ReadAs(type, m, {x}, t), x \notin X, NEW Y, Y = X \cup {x}
  PROVE  ReadAs(type, m, Y, s \o t)
<1>1. X \cap {x} = {}
  OBVIOUS
<1>2. ReadAs(type, m, X \cup {x}, s \o t)
  BY <1>1, ReadOn
<1> QED BY <1>2, Zenon

\* A member that is a list of messages.
NestedField(type, m, number, x, sub) ==
  /\ number \in 1 .. 15 /\ ListField(FieldOf(type, 8 * number + 2), sub, x, m[x])
  /\ x \in DOMAIN m /\ Cleared[type][x] = <<>>

LEMMA NestedReadAs ==
  ASSUME NEW type, NEW m, NEW number, NEW x, NEW sub, NestedField(type, m, number, x, sub),
         NEW list, list = m[x], NEW written, NEW n, NEW whole, NEW size,
         ListOf(number, n, written, whole, size), AllParse(sub, list, written)
  PROVE  ReadAs(type, m, {x}, whole)
<1>1. whole \in Seq(Nat) /\ whole = FlattenSeq(Delimited(number, written))
  BY DEF ListOf, Writes
<1>2. /\ number \in 1 .. 15 /\ ListField(FieldOf(type, 8 * number + 2), sub, x, list)
      /\ Member(type, m, x, list, <<>>)
  BY DEF NestedField, Member
<1> QED BY <1>1, <1>2, MessagesReadAs

LEMMA ListFields ==
  ASSUME NEW sub, NEW x, NEW list
  PROVE  /\ ListField(Messages(sub, x), sub, x, list)
         /\ Len(list) = 1 => ListField(Message(sub, x), sub, x, list)
<1>1. ASSUME NEW msg PROVE Submessage(Messages(sub, x), sub, x, msg)
  <2>1. Messages(sub, x) # NoField /\ OfMessage(Messages(sub, x))
    BY FieldKinds, Zenon
  <2>2. Messages(sub, x).type = sub /\ Messages(sub, x).member = x
    BY DEF Messages
  <2>3. ~Merged(Messages(sub, x), msg)
    BY DEF Messages, Merged
  <2> QED BY <2>1, <2>2, <2>3 DEF Submessage
<1>2. ASSUME NEW msg, msg[x] = <<>> PROVE Submessage(Message(sub, x), sub, x, msg)
  <2>1. Message(sub, x) # NoField /\ OfMessage(Message(sub, x))
    BY FieldKinds, Zenon
  <2>2. Message(sub, x).type = sub /\ Message(sub, x).member = x
    BY DEF Message
  <2>3. ~Merged(Message(sub, x), msg)
    BY <1>2 DEF Message, Merged
  <2> QED BY <2>1, <2>2, <2>3 DEF Submessage
<1> DEFINE many == Messages(sub, x)
           one == Message(sub, x)
<1>3. \A msg : Submessage(many, sub, x, msg)
  BY <1>1
<1>4. \A msg : msg[x] = <<>> => Submessage(one, sub, x, msg)
  BY <1>2
<1> HIDE DEF many, one
<1>5. ListField(many, sub, x, list)
  BY <1>3 DEF ListField
<1>6. Len(list) = 1 => ListField(one, sub, x, list)
  BY <1>4 DEF ListField
<1> QED BY <1>5, <1>6 DEF many, one

\* A member that is a string, or a packed list.
TextField(type, m, number, x) ==
  /\ number \in 1 .. 15 /\ FieldOf(type, 8 * number + 2) = String(x)
  /\ m[x] \in Seq(Nat) /\ x \in DOMAIN m /\ Cleared[type][x] = <<>>

PackedField(type, m, number, x) ==
  /\ number \in 1 .. 15 /\ FieldOf(type, 8 * number + 2) = PackedUInt32(x)
  /\ m[x] \in Seq(UInt32Type) /\ x \in DOMAIN m /\ Cleared[type][x] = <<>>

LEMMA TextReadAs ==
  ASSUME NEW type, NEW m, NEW number, NEW x, TextField(type, m, number, x), NEW s, s = m[x]
  PROVE  ReadAs(type, m, {x}, WriteString(number, s))
<1>1. /\ number \in 1 .. 15 /\ FieldOf(type, 8 * number + 2) = String(x) /\ s \in Seq(Nat)
      /\ Member(type, m, x, s, <<>>)
  BY DEF TextField, Member
<1> QED BY <1>1, StringReadAs

LEMMA ListReadAs ==
  ASSUME NEW type, NEW m, NEW number, NEW x, PackedField(type, m, number, x), NEW list, list = m[x]
  PROVE  ReadAs(type, m, {x}, WriteUInt32Packed(number, list))
<1>1. /\ number \in 1 .. 15 /\ FieldOf(type, 8 * number + 2) = PackedUInt32(x)
      /\ list \in Seq(UInt32Type) /\ Member(type, m, x, list, <<>>)
  BY DEF PackedField, Member
<1> QED BY <1>1, PackedReadAs

\* A member that is what it is anyway is not written.
LEMMA DefaultReadAs ==
  ASSUME NEW type, NEW m, NEW x, NEW value, Member(type, m, x, value, value)
  PROVE  ReadAs(type, m, {x}, <<>>)
<1>1. ASSUME NEW b, NEW run, NEW limit, NEW ptr, NEW callers, NEW S,
             At(b, run, type, limit, ptr, Partly(type, m, S), callers)
      PROVE  At(b, run, type, limit, ptr + Len(<<>>), Partly(type, m, S \cup {x}), callers)
  <2>1. Partly(type, m, S \cup {x}) = Partly(type, m, S)
    BY PartlyRead
  <2>2. ptr + Len(<<>>) = ptr
    <3>1. ptr \in Nat
      BY <1>1 DEF At
    <3> QED BY <3>1
  <2> QED BY <1>1, <2>1, <2>2, Zenon
<1>2. <<>> \in Seq(Nat)
  OBVIOUS
<1> QED BY <1>1, <1>2, Zenon DEF ReadAs

-----------------------------------------------------------------------------
(* What is read of a buffer that ends within what was written.  The         *)
(* iterations that matter are the first ones, up to the one that fails or   *)
(* finds the buffer at its end: they have read the members that are whole,  *)
(* and of the next one what CutField says.  CutParses is the set of all     *)
(* that such a message can be read as.                                      *)

\* A cursor that reads nothing more: something failed, or the buffer has ended.
LeftWith(b, cursor, msg) ==
  /\ cursor = [ptr |-> cursor.ptr, msg |-> msg, failed |-> cursor.failed, ended |-> cursor.ended]
  /\ cursor.failed \/ cursor.ptr >= Len(b)

\* Some iteration, in time for all the callers to go on, has read msg, and no more.
Left(b, run, type, limit, msg, callers) ==
  /\ b \in Seq(Nat) /\ RunOf(b, run) /\ IsList(callers)
  /\ \E j \in 0 .. MaxIterations(b) : \E cursor :
       /\ run[j] = ParseCall(type, limit, cursor, callers) /\ LeftWith(b, cursor, msg)
       /\ j + Len(callers) <= Len(b) + 1

LEMMA LeftIs ==
  ASSUME NEW b, NEW ptr, NEW msg, ptr >= Len(b)
  PROVE  LeftWith(b, CursorAt(ptr, msg), msg)
BY DEF LeftWith, CursorAt

LEMMA FailedIs ==
  ASSUME NEW b, NEW ptr, NEW msg
  PROVE  LeftWith(b, Failed(CursorAt(ptr, msg)), msg)
<1> DEFINE q == Failed(CursorAt(ptr, msg))
<1>1. q.ptr = ptr /\ q.msg = msg /\ q.failed = TRUE
  BY DEF Failed, CursorAt
<1>2. DOMAIN q = {"ptr", "msg", "failed", "ended"} /\ q = [m \in DOMAIN q |-> q[m]]
  BY DEF Failed, CursorAt
<1> HIDE DEF q
<1>3. q = [ptr |-> q.ptr, msg |-> msg, failed |-> q.failed, ended |-> q.ended]
  BY <1>1, <1>2
<1>4. LeftWith(b, q, msg)
  BY <1>1, <1>3 DEF LeftWith
<1> QED BY <1>4 DEF q

\* Where the buffer ends.
LEMMA LeftAtEnd ==
  ASSUME NEW b, NEW run, NEW type, NEW limit, NEW ptr, NEW msg, NEW callers,
         At(b, run, type, limit, ptr, msg, callers), ptr >= Len(b)
  PROVE  Left(b, run, type, limit, msg, callers)
<1>1. PICK j \in 0 .. MaxIterations(b) :
        /\ run[j] = ParseCall(type, limit, CursorAt(ptr, msg), callers)
        /\ j + Len(callers) <= ptr
  BY DEF At
<1>2. /\ b \in Seq(Nat) /\ RunOf(b, run) /\ IsList(callers) /\ ptr \in Nat /\ ptr <= Len(b)
      /\ Len(b) \in Nat /\ Len(callers) \in Nat /\ j \in Nat
  BY LenProperties DEF At, IsList, MaxIterations
<1>3. j + Len(callers) <= Len(b) + 1
  BY <1>1, <1>2
<1>4. LeftWith(b, CursorAt(ptr, msg), msg)
  BY LeftIs
<1> QED BY <1>1, <1>2, <1>3, <1>4, Zenon DEF Left

\* Where the next step reads no more, at most by another call.
LEMMA LeftNext ==
  ASSUME NEW b, NEW run, NEW type, NEW limit, NEW ptr, NEW msg, NEW callers,
         NEW type2, NEW limit2, NEW cursor, NEW msg2, NEW callers2,
         At(b, run, type, limit, ptr, msg, callers), ptr < Len(b),
         InternalParse(b, ParseCall(type, limit, CursorAt(ptr, msg), callers))
           = ParseCall(type2, limit2, cursor, callers2),
         LeftWith(b, cursor, msg2), IsList(callers2), Len(callers2) <= Len(callers) + 1
  PROVE  Left(b, run, type2, limit2, msg2, callers2)
<1>1. PICK j \in 0 .. MaxIterations(b) :
        /\ run[j] = ParseCall(type, limit, CursorAt(ptr, msg), callers)
        /\ j + Len(callers) <= ptr
  BY DEF At
<1>2. /\ b \in Seq(Nat) /\ RunOf(b, run) /\ ptr \in Nat /\ Len(b) \in Nat
      /\ Len(callers) \in Nat /\ Len(callers2) \in Nat /\ MaxIterations(b) = Len(b) + 2
  BY LenProperties DEF At, IsList, MaxIterations
<1>3. j \in 0 .. MaxIterations(b) - 1 /\ j + 1 \in 0 .. MaxIterations(b)
  BY <1>1, <1>2
<1>4. run[j + 1] = ParseCall(type2, limit2, cursor, callers2)
  <2>1. run[j + 1] = InternalParse(b, run[j])
    BY <1>2, <1>3 DEF RunOf
  <2> QED BY <1>1, <2>1, Zenon
<1>5. (j + 1) + Len(callers2) <= Len(b) + 1
  BY <1>1, <1>2
<1> QED BY <1>2, <1>3, <1>4, <1>5, Zenon DEF Left

\* The caller goes on with what was read of a submessage, and reads nothing more.
LEMMA LeftReturned ==
  ASSUME NEW b, NEW type, NEW limit, NEW msg, NEW callers, IsList(callers), NEW field, NEW sub,
         NEW member, Submessage(field, sub, member, msg), NEW limit2, NEW cursor, NEW m,
         LeftWith(b, cursor, m), NEW list, list = msg[member]
  PROVE  \E cursor2 :
           /\ InternalParse(b, ParseCall(sub, limit2, cursor,
                                 Append(callers, Caller(type, limit, field, msg))))
                = ParseCall(type, limit, cursor2, callers)
           /\ LeftWith(b, cursor2, With(msg, member, Append(list, m)))
<1> DEFINE caller == Caller(type, limit, field, msg)
           all == Append(callers, caller)
           call == ParseCall(sub, limit2, cursor, all)
           read == AtLimit(b, cursor, limit2)
<1>1. /\ call.type = sub /\ call.limit = limit2 /\ call.cursor = cursor /\ call.callers = all
  <2> HIDE DEF all
  <2> QED BY CallIs
<1>2. /\ cursor = [ptr |-> cursor.ptr, msg |-> m, failed |-> cursor.failed, ended |-> cursor.ended]
      /\ cursor.failed \/ cursor.ptr >= Len(b)
  BY DEF LeftWith
<1>3. /\ caller.type = type /\ caller.limit = limit /\ caller.field = field /\ caller.msg = msg
  BY DEF Caller
<1>4. read.ptr = cursor.ptr /\ read.msg = m /\ (cursor.failed => read.failed)
  <2>1. CASE cursor.failed \/ cursor.ended
    <3>1. read = cursor
      BY <2>1 DEF AtLimit
    <3>2. cursor.msg = m
      BY <1>2
    <3> HIDE DEF read
    <3> QED BY <3>1, <3>2
  <2>2. CASE ~(cursor.failed \/ cursor.ended)
    <3> DEFINE flag == cursor.ptr # limit2 \/ cursor.ptr > Len(b)
    <3>1. read = [cursor EXCEPT !.failed = flag]
      BY <2>2 DEF AtLimit
    <3> HIDE DEF read, flag
    <3> DEFINE p == cursor.ptr
               f == cursor.failed
               e == cursor.ended
    <3>2. cursor = [ptr |-> p, msg |-> m, failed |-> f, ended |-> e]
      BY <1>2
    <3> HIDE DEF p, f, e
    <3>3. read.ptr = p /\ read.msg = m
      BY <3>1, <3>2
    <3> QED BY <2>2, <3>3 DEF p
  <2> QED BY <2>1, <2>2
<1>5. all # <<>> /\ Last(all) = caller /\ Front(all) = callers
  <2> HIDE DEF caller
  <2> QED BY CallersStack
<1>6. field.member = member /\ ~Merged(field, msg)
  BY DEF Submessage
<1>7. Done(b, cursor, limit2)
  BY <1>2 DEF Done
<1> HIDE DEF caller, all, call, read
<1>8. InternalParse(b, call) = Return(b, call)
  BY <1>1, <1>5, <1>7, Zenon DEF InternalParse
<1> DEFINE into == Append(list, m)
           flag == read.failed \/ read.ended \/ read.ptr # limit2
           next == [ptr |-> cursor.ptr, msg |-> [msg EXCEPT ![member] = into],
                    failed |-> flag, ended |-> FALSE]
<1>9. Return(b, call) = ParseCall(type, limit, next, callers)
  <2>1. Return(b, call) =
          ParseCall(caller.type, caller.limit,
            [ptr |-> read.ptr,
             msg |-> [caller.msg EXCEPT ![caller.field.member] =
                       IF Merged(caller.field, caller.msg) THEN <<read.msg>>
                       ELSE Append(caller.msg[caller.field.member], read.msg)],
             failed |-> read.failed \/ read.ended \/ read.ptr # limit2, ended |-> FALSE],
            callers)
    BY <1>1, <1>5, Zenon DEF Return, read
  <2>2. (IF Merged(caller.field, caller.msg) THEN <<read.msg>>
         ELSE Append(caller.msg[caller.field.member], read.msg)) = into
    BY <1>3, <1>4, <1>6, Zenon
  <2> HIDE DEF into
  <2>3. /\ caller.type = type /\ caller.limit = limit /\ caller.msg = msg
        /\ caller.field.member = member /\ read.ptr = cursor.ptr
    BY <1>3, <1>4, <1>6
  <2> QED BY <2>1, <2>2, <2>3, Zenon
<1>10. LeftWith(b, next, With(msg, member, into))
  <2> HIDE DEF into
  <2> DEFINE msg2 == [msg EXCEPT ![member] = into]
             p == cursor.ptr
  <2>1. cursor.failed => flag
    BY <1>4
  <2>2. flag \/ p >= Len(b)
    BY <1>2, <2>1
  <2> HIDE DEF msg2, p, flag
  <2>3. LeftWith(b, [ptr |-> p, msg |-> msg2, failed |-> flag, ended |-> FALSE], msg2)
    BY <2>2 DEF LeftWith
  <2> QED BY <2>3 DEF msg2, p, With
<1> HIDE DEF next, into
<1>11. InternalParse(b, call) = ParseCall(type, limit, next, callers)
  BY <1>8, <1>9, Zenon
<1> QED BY <1>10, <1>11, Zenon DEF call, all, caller, into

\* The callers go on, each with what was read of its submessage.
LEMMA LeftByAll ==
  ASSUME NEW b, NEW run, NEW type, NEW limit, NEW msg, NEW callers, NEW field, NEW sub,
         NEW member, Submessage(field, sub, member, msg), NEW limit2, NEW m,
         Left(b, run, sub, limit2, m, Append(callers, Caller(type, limit, field, msg))),
         IsList(callers), NEW list, list = msg[member]
  PROVE  Left(b, run, type, limit, With(msg, member, Append(list, m)), callers)
<1> DEFINE all == Append(callers, Caller(type, limit, field, msg))
           msg2 == With(msg, member, Append(list, m))
<1>1. PICK j, cursor :
        /\ j \in 0 .. MaxIterations(b)
        /\ run[j] = ParseCall(sub, limit2, cursor, all) /\ LeftWith(b, cursor, m)
        /\ j + Len(all) <= Len(b) + 1
  BY DEF Left
<1>2. PICK cursor2 : /\ InternalParse(b, ParseCall(sub, limit2, cursor, all))
                          = ParseCall(type, limit, cursor2, callers)
                     /\ LeftWith(b, cursor2, msg2)
  BY <1>1, LeftReturned
<1>3. Len(all) = Len(callers) + 1 /\ Len(callers) \in Nat
  <2> DEFINE caller == Caller(type, limit, field, msg)
  <2> HIDE DEF caller
  <2>1. Len(Append(callers, caller)) = Len(callers) + 1 /\ Len(callers) \in Nat
    BY CallersStack
  <2> QED BY <2>1 DEF caller
<1> HIDE DEF all, msg2
<1>4. b \in Seq(Nat) /\ RunOf(b, run)
  BY DEF Left
<1>5. MaxIterations(b) = Len(b) + 2 /\ Len(b) \in Nat
  BY <1>4, LenProperties DEF MaxIterations
<1>6. j \in 0 .. MaxIterations(b) - 1 /\ j + 1 \in 0 .. MaxIterations(b)
  BY <1>1, <1>3, <1>5
<1>7. run[j + 1] = ParseCall(type, limit, cursor2, callers)
  <2>1. run[j + 1] = InternalParse(b, run[j])
    BY <1>4, <1>6 DEF RunOf
  <2> QED BY <1>1, <1>2, <2>1, Zenon
<1>8. (j + 1) + Len(callers) <= Len(b) + 1
  BY <1>1, <1>3, <1>5
<1>9. Left(b, run, type, limit, msg2, callers)
  BY <1>2, <1>4, <1>6, <1>7, <1>8, Zenon DEF Left
<1> QED BY <1>9 DEF msg2

\* The buffer ends within what was written behind ptr, and before the limit.
CutIn(b, ptr, s, limit) ==
  /\ b \in Seq(Nat) /\ s \in Seq(Nat) /\ ptr \in Nat
  /\ ptr <= Len(b) /\ Len(b) < ptr + Len(s) /\ Len(b) <= limit /\ Len(s) <= INT_MAX
  /\ \A k \in 1 .. Len(b) - ptr : b[ptr + k] = s[k]

\* The buffer ends in the first or in the second of two pieces.
LEMMA CutJoined ==
  ASSUME NEW b, NEW ptr, NEW s \in Seq(Nat), NEW t \in Seq(Nat), NEW limit \in Nat,
         CutIn(b, ptr, s \o t, limit)
  PROVE  \/ CutIn(b, ptr, s, limit)
         \/ Within(b, ptr, s, limit) /\ CutIn(b, ptr + Len(s), t, limit)
<1> DEFINE st == s \o t
           ls == Len(s)
           lt == Len(t)
           lst == Len(st)
           lb == Len(b)
<1>1. /\ b \in Seq(Nat) /\ ptr \in Nat /\ ptr <= lb /\ lb < ptr + lst /\ lb <= limit
      /\ lst <= INT_MAX /\ \A k \in 1 .. lb - ptr : b[ptr + k] = st[k]
  BY DEF CutIn
<1>2. ls \in Nat /\ lt \in Nat /\ lb \in Nat
  BY <1>1, LenProperties
<1>3. /\ lst = ls + lt
      /\ \A i \in 1 .. ls + lt : st[i] = IF i <= ls THEN s[i] ELSE t[i - ls]
  BY ConcatProperties
<1>4. INT_MAX \in Nat
  BY SMT DEF INT_MAX
<1> HIDE DEF st, ls, lt, lst, lb
<1>5. ls <= INT_MAX /\ lt <= INT_MAX
  BY <1>1, <1>2, <1>3, <1>4
<1>6. CASE lb < ptr + ls
  <2>1. ASSUME NEW k \in 1 .. lb - ptr PROVE b[ptr + k] = s[k]
    <3>1. k \in 1 .. ls + lt /\ k <= ls
      BY <1>1, <1>2, <1>6
    <3> QED BY <1>1, <1>3, <3>1
  <2>2. CutIn(b, ptr, s, limit)
    BY <1>1, <1>5, <1>6, <2>1 DEF CutIn, ls, lb
  <2> QED BY <2>2
<1>7. CASE ~(lb < ptr + ls)
  <2>1. ptr + ls <= lb /\ ptr + ls <= limit /\ ptr + ls \in Nat /\ lb < (ptr + ls) + lt
    BY <1>1, <1>2, <1>3, <1>7
  <2>2. ASSUME NEW k \in 1 .. ls PROVE b[ptr + k] = s[k]
    <3>1. k \in 1 .. ls + lt /\ k <= ls /\ k \in 1 .. lb - ptr
      BY <1>1, <1>2, <2>1
    <3> QED BY <1>1, <1>3, <3>1
  <2>3. ASSUME NEW k \in 1 .. lb - (ptr + ls) PROVE b[(ptr + ls) + k] = t[k]
    <3>1. /\ ls + k \in 1 .. ls + lt /\ ~(ls + k <= ls) /\ ls + k \in 1 .. lb - ptr
          /\ (ptr + ls) + k = ptr + (ls + k) /\ (ls + k) - ls = k
      BY <1>1, <1>2, <1>3, <2>1
    <3> QED BY <1>1, <1>3, <3>1
  <2>4. Within(b, ptr, s, limit)
    BY <1>1, <1>5, <2>1, <2>2 DEF Within, Holds, ls, lb
  <2>5. CutIn(b, ptr + ls, t, limit)
    BY <1>1, <1>5, <2>1, <2>3 DEF CutIn, lt, lb
  <2> QED BY <2>4, <2>5 DEF ls
<1> QED BY <1>6, <1>7

\* It ends in something.
LEMMA NotInNothing ==
  ASSUME NEW b, NEW ptr, NEW limit, CutIn(b, ptr, <<>>, limit)
  PROVE  FALSE
<1> DEFINE lb == Len(b)
<1>1. Len(<<>>) = 0
  OBVIOUS
<1>2. ptr \in Nat /\ ptr <= lb /\ lb < ptr + 0 /\ lb \in Nat
  BY <1>1, LenProperties DEF CutIn
<1> HIDE DEF lb
<1> QED BY <1>2

\* Of the messages of a list, some first ones are there, and the next one in part.
LEMMA CutFields ==
  ASSUME NEW number \in 1 .. 15, NEW written \in Seq(Seq(Nat)), NEW g,
         FirstFields(number, written, g), NEW n, n = Len(written), NEW b, NEW ptr,
         NEW limit \in Nat, CutIn(b, ptr, g[n], limit)
  PROVE  \E k \in 0 .. n - 1 :
           /\ Within(b, ptr, g[k], limit)
           /\ CutIn(b, ptr + Len(g[k]), WriteBytes(number, Len(written[k + 1]), written[k + 1]), limit)
<1> DEFINE w(k) == WriteBytes(number, Len(written[k]), written[k])
           goal == \E k \in 0 .. n - 1 :
             Within(b, ptr, g[k], limit) /\ CutIn(b, ptr + Len(g[k]), w(k + 1), limit)
<1>1. /\ n \in Nat /\ g[0] = <<>> /\ \A k \in 0 .. n : g[k] \in Seq(Nat)
      /\ \A k \in 0 .. n - 1 : g[k + 1] = g[k] \o w(k + 1) /\ w(k + 1) \in Seq(Nat)
  BY FieldsInTurn
<1> SUFFICES goal
  OBVIOUS
<1> HIDE DEF w
<1> DEFINE T == {k \in 0 .. n : CutIn(b, ptr, g[k], limit) => goal}
<1>2. 0 \in T
  <2>1. ~CutIn(b, ptr, g[0], limit)
    BY <1>1, NotInNothing
  <2> HIDE DEF goal
  <2> QED BY <1>1, <2>1
<1>3. ASSUME NEW k \in 0 .. n - 1, k \in T PROVE k + 1 \in T
  <2>1. k \in 0 .. n /\ k + 1 \in 0 .. n
    BY <1>1
  <2>2. ASSUME CutIn(b, ptr, g[k + 1], limit) PROVE goal
    <3> DEFINE gk == g[k]
               wk == w(k + 1)
    <3>1. gk \in Seq(Nat) /\ wk \in Seq(Nat) /\ g[k + 1] = gk \o wk
      BY <1>1, <2>1
    <3>2. CutIn(b, ptr, gk \o wk, limit)
      BY <2>2, <3>1
    <3>3. \/ CutIn(b, ptr, gk, limit)
          \/ Within(b, ptr, gk, limit) /\ CutIn(b, ptr + Len(gk), wk, limit)
      <4> HIDE DEF gk, wk
      <4> QED BY <3>1, <3>2, CutJoined
    <3>4. CASE CutIn(b, ptr, gk, limit)
      <4> HIDE DEF goal
      <4> QED BY <1>3, <3>4
    <3>5. CASE Within(b, ptr, gk, limit) /\ CutIn(b, ptr + Len(gk), wk, limit)
      BY <3>5
    <3> HIDE DEF goal, gk, wk
    <3> QED BY <3>3, <3>4, <3>5
  <2> HIDE DEF goal
  <2> QED BY <2>1, <2>2
<1> HIDE DEF T, goal
<1>4. n \in T
  <2>1. n \in Nat
    BY <1>1
  <2>2. \A k \in 0 .. n - 1 : k \in T => k + 1 \in T
    BY <1>3
  <2>3. \A k \in 0 .. n : k \in T
    BY <1>2, <2>1, <2>2, Upwards, Zenon
  <2>4. n \in 0 .. n
    BY <2>1
  <2> QED BY <2>3, <2>4
<1>5. CutIn(b, ptr, g[n], limit) => goal
  BY <1>4 DEF T
<1> QED BY <1>5

\* The buffer ends in a varint.
CutVarintAt(b, ptr) ==
  /\ b \in Seq(Nat) /\ ptr \in Nat /\ ptr <= Len(b)
  /\ \A k \in 1 .. Len(b) - ptr : b[ptr + k] >= 128

LEMMA ValueType ==
  ASSUME NEW b \in Seq(Nat), NEW ptr \in Nat
  PROVE  ReadVarint(b, ptr).value \in Nat
<1> DEFINE size == Min(VarintEnds(b, ptr))
           septet(k) == IF k <= size THEN ByteAt(b, ptr + k - 1) % 128 ELSE 0
<1>1. ReadVarint(b, ptr).value =
        septet(1) + 128 * septet(2) + 128 ^ 2 * septet(3) + 128 ^ 3 * septet(4)
          + 128 ^ 4 * (septet(5) % 16)
  BY DEF ReadVarint
<1>2. ASSUME NEW k \in 1 .. 5 PROVE septet(k) \in Nat
  <2>1. ByteAt(b, ptr + k - 1) \in Nat
    <3>1. CASE ptr + k - 1 < Len(b)
      <4>1. (ptr + k - 1) + 1 \in 1 .. Len(b)
        BY <3>1, LenProperties
      <4>2. b[(ptr + k - 1) + 1] \in Nat
        BY <4>1, ElementOfSeq
      <4> QED BY <3>1, <4>2 DEF ByteAt
    <3>2. CASE ~(ptr + k - 1 < Len(b))
      BY <3>2 DEF ByteAt
    <3> QED BY <3>1, <3>2
  <2> HIDE DEF size
  <2>2. ByteAt(b, ptr + k - 1) % 128 \in Nat
    BY <2>1
  <2> QED BY <2>2
<1> DEFINE s1 == septet(1)
           s2 == septet(2)
           s3 == septet(3)
           s4 == septet(4)
           s5 == septet(5)
<1> HIDE DEF septet
<1>3. s1 \in Nat /\ s2 \in Nat /\ s3 \in Nat /\ s4 \in Nat /\ s5 \in Nat
  BY <1>2
<1>4. ReadVarint(b, ptr).value = s1 + 128 * s2 + 128 ^ 2 * s3 + 128 ^ 3 * s4 + 128 ^ 4 * (s5 % 16)
  BY <1>1
<1> HIDE DEF s1, s2, s3, s4, s5
<1>5. s5 % 16 \in Nat
  BY <1>3
<1>6. s1 + 128 * s2 + 128 ^ 2 * s3 + 128 ^ 3 * s4 + 128 ^ 4 * (s5 % 16) \in Nat
  BY <1>3, <1>5
<1> QED BY <1>4, <1>6

\* A varint that the buffer ends in is malformed, or read from behind the end.
LEMMA CutVarintRead ==
  ASSUME NEW b, NEW ptr, CutVarintAt(b, ptr), ~Malformed(b, ptr)
  PROVE  ReadVarint(b, ptr).ptr \in Nat /\ ReadVarint(b, ptr).ptr > Len(b)
<1>1. b \in Seq(Nat) /\ ptr \in Nat /\ ptr <= Len(b) /\ Len(b) \in Nat
  BY LenProperties DEF CutVarintAt
<1> DEFINE ends == VarintEnds(b, ptr)
           size == Min(ends)
<1>2. size \in ends
  <2>1. ends # {} /\ \A k \in ends : k \in Nat
    BY DEF Malformed, VarintEnds, MaxVarintBytes
  <2> HIDE DEF ends
  <2>2. \E x \in ends : \A y \in ends : x <= y
    BY <2>1, LeastNumber
  <2> QED BY <2>2 DEF Min
<1> HIDE DEF size
<1>3. size \in Nat /\ size >= 1 /\ ByteAt(b, ptr + size - 1) < 128
  BY <1>2 DEF VarintEnds, MaxVarintBytes
<1>4. ~(ptr + size - 1 < Len(b))
  <2> SUFFICES ASSUME ptr + size - 1 < Len(b) PROVE FALSE
    OBVIOUS
  <2>1. size \in 1 .. Len(b) - ptr /\ (ptr + size - 1) + 1 = ptr + size
    BY <1>1, <1>3
  <2>2. b[ptr + size] >= 128 /\ b[ptr + size] \in Nat
    <3>1. ptr + size \in 1 .. Len(b)
      BY <1>1, <2>1
    <3> QED BY <1>1, <2>1, <3>1, ElementOfSeq DEF CutVarintAt
  <2>3. ByteAt(b, ptr + size - 1) = b[ptr + size]
    BY <2>1 DEF ByteAt
  <2> QED BY <1>3, <2>2, <2>3
<1>5. ReadVarint(b, ptr).ptr = ptr + size
  BY DEF ReadVarint, size
<1> QED BY <1>1, <1>3, <1>4, <1>5

\* A field that the buffer ends in: it ends before the tag, in the varint, or behind it.
LEMMA CutTag ==
  ASSUME NEW b, NEW ptr, NEW tag \in 1 .. 127, NEW n \in UInt32Type, NEW s \in Seq(Nat),
         NEW limit \in Nat, CutIn(b, ptr, <<tag>> \o Varint(n) \o s, limit), ptr < Len(b)
  PROVE  /\ ptr \in Nat /\ Holds(b, ptr, <<tag>>)
         /\ \/ CutVarintAt(b, ptr + 1)
            \/ /\ VarintAt(b, ptr + 1, n, ptr + 1 + UInt32Size(n))
               /\ CutIn(b, ptr + 1 + UInt32Size(n), s, limit)
<1> DEFINE v == Varint(n)
           t == <<tag>>
           u == UInt32Size(n)
<1>1. v \in Seq(Nat) /\ Len(v) = u /\ u \in 1 .. 5
  BY VarintType, UInt32Numbers
<1>2. t \in Seq(Nat) /\ Len(t) = 1 /\ CutIn(b, ptr, t \o v \o s, limit)
  OBVIOUS
<1>3. Holds(b, ptr + 1, v) => VarintAt(b, ptr + 1, n, ptr + 1 + u)
  BY VarintRead
<1>4. \A k \in 1 .. u - 1 : v[k] >= 128
  <2>1. ASSUME NEW k \in 1 .. u - 1 PROVE v[k] >= 128
    <3>1. k \in 1 .. 5 /\ k \in 1 .. u /\ k < u
      BY <1>1
    <3>2. v[k] = Septets(n)[k] + 128
      BY <3>1 DEF Varint
    <3>3. PICK x \in 0 .. 127 : Septets(n)[k] = x
      BY <3>1, SeptetsOf
    <3> HIDE DEF v
    <3>4. v[k] = x + 128
      BY <3>2, <3>3
    <3> QED BY <3>4
  <2> QED BY <2>1
<1> HIDE DEF v, t, u
<1>5. ptr \in Nat /\ Len(b) \in Nat /\ b \in Seq(Nat)
  BY LenProperties DEF CutIn
<1>6. t \o v \in Seq(Nat) /\ Len(t \o v) = 1 + u
  <2>1. t \o v \in Seq(Nat) /\ Len(t \o v) = Len(t) + Len(v)
    BY <1>1, <1>2, ConcatProperties
  <2> QED BY <1>1, <1>2, <2>1, Zenon
<1> DEFINE tv == t \o v
<1>7. \/ CutIn(b, ptr, tv, limit)
      \/ Within(b, ptr, tv, limit) /\ CutIn(b, ptr + Len(tv), s, limit)
  <2> HIDE DEF tv
  <2> QED BY <1>2, <1>6, CutJoined DEF tv
<1>8. CASE CutIn(b, ptr, tv, limit)
  <2>1. \/ CutIn(b, ptr, t, limit)
        \/ Within(b, ptr, t, limit) /\ CutIn(b, ptr + Len(t), v, limit)
    BY <1>1, <1>2, <1>8, CutJoined
  <2>2. ~CutIn(b, ptr, t, limit)
    <3> SUFFICES ASSUME CutIn(b, ptr, t, limit) PROVE FALSE
      OBVIOUS
    <3>1. Len(b) < ptr + 1
      BY <1>2 DEF CutIn
    <3> QED BY <1>5, <3>1
  <2>3. Holds(b, ptr, t) /\ CutIn(b, ptr + 1, v, limit)
    BY <1>2, <2>1, <2>2 DEF Within
  <2>4. CutVarintAt(b, ptr + 1)
    <3> DEFINE p == ptr + 1
    <3>1. p \in Nat /\ p <= Len(b) /\ Len(b) < p + u
      BY <1>1, <1>5, <2>3 DEF CutIn
    <3>2. \A k \in 1 .. Len(b) - p : b[p + k] = v[k]
      BY <2>3 DEF CutIn
    <3> HIDE DEF p
    <3>3. \A k \in 1 .. Len(b) - p : k \in 1 .. u - 1
      BY <1>1, <1>5, <3>1
    <3>4. \A k \in 1 .. Len(b) - p : b[p + k] >= 128
      BY <1>4, <3>2, <3>3
    <3>5. CutVarintAt(b, p)
      BY <1>5, <3>1, <3>4 DEF CutVarintAt
    <3> QED BY <3>5 DEF p
  <2> QED BY <1>5, <2>3, <2>4 DEF t
<1>9. CASE Within(b, ptr, tv, limit) /\ CutIn(b, ptr + Len(tv), s, limit)
  <2>1. Holds(b, ptr, t \o v)
    BY <1>9 DEF Within
  <2>2. Holds(b, ptr, t) /\ Holds(b, ptr + 1, v)
    BY <1>1, <1>2, <2>1, HoldsJoined
  <2>3. ptr + Len(tv) = ptr + 1 + u
    BY <1>1, <1>5, <1>6
  <2> QED BY <1>3, <1>5, <1>9, <2>2, <2>3 DEF t, u
<1> QED BY <1>7, <1>8, <1>9

\* A tag with a malformed varint behind it.
MalformedAt(b, ptr, type, tag) ==
  /\ tag \in 1 .. 127 /\ FieldOf(type, tag) # NoField
  /\ Holds(b, ptr, <<tag>>) /\ Malformed(b, ptr + 1)

\* A field with a malformed varint is not read, and nothing behind it.
LEMMA AtMalformed ==
  ASSUME NEW b, NEW run, NEW type, NEW limit, NEW ptr, NEW msg, NEW callers, NEW tag,
         At(b, run, type, limit, ptr, msg, callers), MalformedAt(b, ptr, type, tag),
         ptr < limit, ptr < Len(b)
  PROVE  InternalParse(b, ParseCall(type, limit, CursorAt(ptr, msg), callers))
           = ParseCall(type, limit, Failed(CursorAt(ptr + 1, msg)), callers)
<1> DEFINE cursor == CursorAt(ptr, msg)
           call == ParseCall(type, limit, cursor, callers)
           read == ReadVarint(b, ptr)
           at == CursorAt(ptr + 1, msg)
           field == FieldOf(type, tag)
<1>1. /\ call.type = type /\ call.limit = limit /\ call.cursor = cursor
      /\ call.callers = callers
  BY CallIs
<1>2. cursor.ptr = ptr /\ cursor.msg = msg /\ cursor.failed = FALSE /\ cursor.ended = FALSE
  BY DEF CursorAt
<1>3. ~Done(b, cursor, limit)
  <2>1. ptr < limit /\ ptr < Len(b) /\ ptr \in Nat /\ limit \in Nat /\ Len(b) \in Nat
    BY LenProperties DEF At
  <2> HIDE DEF cursor
  <2> QED BY <1>2, <2>1 DEF Done
<1>5. ~Malformed(b, ptr) /\ read = [value |-> tag, ptr |-> ptr + 1]
  <2>1. tag \in 0 .. 127 /\ Holds(b, ptr, <<tag>>)
    BY DEF MalformedAt
  <2> QED BY <2>1, TagRead DEF VarintAt
<1>6. FieldOf(type, read.value) = field /\ read.ptr = ptr + 1
  BY <1>5
<1>7. [cursor EXCEPT !.ptr = ptr + 1] = at
  BY CursorMoves
<1>8. at.ptr = ptr + 1
  BY CursorIs
<1>9. [call EXCEPT !.cursor = Failed(at)] = ParseCall(type, limit, Failed(at), callers)
  BY CallGoesOn
<1> HIDE DEF cursor, call, read, at, field
<1>10. field # NoField /\ Malformed(b, at.ptr)
  BY <1>8 DEF field, MalformedAt
<1>11. InternalParse(b, call) = [call EXCEPT !.cursor = Failed(at)]
  <2>1. at = [cursor EXCEPT !.ptr = read.ptr]
    BY <1>6, <1>7, Zenon
  <2>2. InternalParse(b, call) =
          IF call.callers = <<>> /\ Done(b, cursor, limit) THEN call
          ELSE IF Done(b, cursor, limit) THEN Return(b, call)
          ELSE IF Malformed(b, ptr) THEN [call EXCEPT !.cursor = Failed(cursor)]
          ELSE IF field = NoField THEN [call EXCEPT !.cursor = Unusual(read.value, b, at)]
          ELSE IF Malformed(b, at.ptr) THEN [call EXCEPT !.cursor = Failed(at)]
          ELSE IF field.reader \in {"message", "another message"}
               THEN ParseMessage(b, call, field, at)
          ELSE [call EXCEPT !.cursor = ReadField(field, b, at)]
    BY <1>1, <1>2, <1>6, <2>1, Zenon DEF InternalParse, read
  <2> QED BY <1>3, <1>5, <1>10, <2>2, Zenon
<1> QED BY <1>9, <1>11, Zenon DEF call, cursor, at

\* Behind a tag, the buffer ends in the varint of n, or in s behind that.
CutBehind(b, ptr, n, s, limit) ==
  /\ b \in Seq(Nat) /\ ptr \in Nat /\ ~Malformed(b, ptr)
  /\ \/ CutVarintAt(b, ptr)
     \/ /\ VarintAt(b, ptr, n, ptr + UInt32Size(n))
        /\ CutIn(b, ptr + UInt32Size(n), s, limit)

\* A field that the buffer ends in is not read at all, or it is one of these.
LEMMA TagCut ==
  ASSUME NEW b, NEW run, NEW type, NEW limit, NEW ptr, NEW msg, NEW callers,
         At(b, run, type, limit, ptr, msg, callers), NEW tag \in 1 .. 127, NEW field,
         FieldOf(type, tag) = field, field # NoField, NEW n \in UInt32Type, NEW s \in Seq(Nat),
         CutIn(b, ptr, <<tag>> \o Varint(n) \o s, limit)
  PROVE  \/ Left(b, run, type, limit, msg, callers)
         \/ /\ ptr < limit /\ ptr < Len(b) /\ FieldAt(b, ptr, type, field)
            /\ CutBehind(b, ptr + 1, n, s, limit)
<1>1. /\ b \in Seq(Nat) /\ ptr \in Nat /\ limit \in Nat /\ Len(b) \in Nat /\ ptr <= Len(b)
      /\ Len(b) <= limit /\ IsList(callers)
  BY LenProperties DEF At, CutIn
<1>2. CASE ~(ptr < Len(b))
  <2>1. ptr >= Len(b)
    BY <1>1, <1>2
  <2>2. Left(b, run, type, limit, msg, callers)
    BY <2>1, LeftAtEnd
  <2> QED BY <2>2
<1>3. CASE ptr < Len(b)
  <2>1. /\ ptr \in Nat /\ Holds(b, ptr, <<tag>>)
        /\ \/ CutVarintAt(b, ptr + 1)
           \/ /\ VarintAt(b, ptr + 1, n, ptr + 1 + UInt32Size(n))
              /\ CutIn(b, ptr + 1 + UInt32Size(n), s, limit)
    BY <1>1, <1>3, CutTag
  <2>2. ptr < limit /\ ptr + 1 \in Nat
    BY <1>1, <1>3
  <2>3. CASE Malformed(b, ptr + 1)
    <3> DEFINE cursor == Failed(CursorAt(ptr + 1, msg))
    <3>1. InternalParse(b, ParseCall(type, limit, CursorAt(ptr, msg), callers))
            = ParseCall(type, limit, cursor, callers)
      <4>1. MalformedAt(b, ptr, type, tag)
        BY <2>1, <2>3 DEF MalformedAt
      <4>2. ptr < limit /\ ptr < Len(b)
        BY <1>3, <2>2
      <4> HIDE DEF cursor
      <4>3. InternalParse(b, ParseCall(type, limit, CursorAt(ptr, msg), callers))
              = ParseCall(type, limit, Failed(CursorAt(ptr + 1, msg)), callers)
        BY <4>1, <4>2, AtMalformed
      <4> QED BY <4>3 DEF cursor
    <3>2. LeftWith(b, cursor, msg)
      BY FailedIs
    <3>3. Len(callers) <= Len(callers) + 1
      <4>1. Len(callers) \in Nat
        BY <1>1, LenProperties DEF IsList
      <4> QED BY <4>1
    <3> HIDE DEF cursor
    <3>4. Left(b, run, type, limit, msg, callers)
      BY <1>1, <1>3, <3>1, <3>2, <3>3, LeftNext
    <3> QED BY <3>4
  <2>4. CASE ~Malformed(b, ptr + 1)
    <3>1. FieldAt(b, ptr, type, field)
      BY <2>1, <2>4 DEF FieldAt
    <3>2. CutBehind(b, ptr + 1, n, s, limit)
      BY <1>1, <2>1, <2>2, <2>4 DEF CutBehind
    <3> QED BY <1>3, <2>2, <3>1, <3>2
  <2> QED BY <2>3, <2>4
<1> QED BY <1>2, <1>3

\* What is behind such a length ends behind the buffer.
LEMMA BehindEnds ==
  ASSUME NEW b, NEW ptr, NEW n, NEW s, NEW limit, CutBehind(b, ptr, n, s, limit), n = Len(s)
  PROVE  /\ ReadVarint(b, ptr).value \in Nat /\ ReadVarint(b, ptr).ptr \in Nat
         /\ ReadVarint(b, ptr).ptr + ReadVarint(b, ptr).value >= Len(b)
         /\ \/ ReadVarint(b, ptr).ptr >= Len(b)
            \/ /\ VarintAt(b, ptr, n, ptr + UInt32Size(n))
               /\ CutIn(b, ptr + UInt32Size(n), s, limit)
<1> DEFINE v == ReadVarint(b, ptr).value
           p == ReadVarint(b, ptr).ptr
           lb == Len(b)
           u == UInt32Size(n)
<1>1. b \in Seq(Nat) /\ ptr \in Nat /\ ~Malformed(b, ptr) /\ lb \in Nat
  BY LenProperties DEF CutBehind
<1>2. v \in Nat
  BY <1>1, ValueType
<1>3. CASE CutVarintAt(b, ptr)
  <2>1. p \in Nat /\ p > lb
    BY <1>1, <1>3, CutVarintRead
  <2> HIDE DEF v, p, lb
  <2>2. p >= lb /\ p + v >= lb
    BY <1>1, <1>2, <2>1
  <2> QED BY <1>2, <2>1, <2>2 DEF v, p, lb
<1>4. CASE VarintAt(b, ptr, n, ptr + u) /\ CutIn(b, ptr + u, s, limit)
  <2>1. v = n /\ p = ptr + u
    BY <1>4 DEF VarintAt
  <2>2. ptr + u \in Nat /\ lb < (ptr + u) + n
    BY <1>4 DEF CutIn
  <2> HIDE DEF v, p, lb
  <2>3. p \in Nat /\ p + v >= lb
    BY <1>1, <1>2, <2>1, <2>2
  <2> QED BY <1>2, <1>4, <2>3 DEF v, p, lb, u
<1> QED BY <1>3, <1>4 DEF CutBehind

\* A field that the reader leaves so.
LEMMA FieldLeft ==
  ASSUME NEW b, NEW run, NEW type, NEW limit, NEW ptr, NEW msg, NEW callers, NEW field,
         At(b, run, type, limit, ptr, msg, callers), FieldAt(b, ptr, type, field),
         ptr < limit, ptr < Len(b), ~OfMessage(field), NEW cursor, NEW msg2,
         ReadField(field, b, CursorAt(ptr + 1, msg)) = cursor, LeftWith(b, cursor, msg2)
  PROVE  Left(b, run, type, limit, msg2, callers)
<1>1. InternalParse(b, ParseCall(type, limit, CursorAt(ptr, msg), callers))
        = ParseCall(type, limit, cursor, callers)
  BY AtField
<1>2. IsList(callers) /\ Len(callers) <= Len(callers) + 1
  <2>1. IsList(callers)
    BY DEF At
  <2>2. Len(callers) \in Nat
    BY <2>1, LenProperties DEF IsList
  <2> QED BY <2>1, <2>2
<1> QED BY <1>1, <1>2, LeftNext

\* Where the buffer ends in s, the member x has a value of V, or keeps it.
CutField(type, m, x, s, V) ==
  /\ s \in Seq(Nat)
  /\ \A b, run, limit, ptr, callers, S :
       /\ At(b, run, type, limit, ptr, Partly(type, m, S), callers)
       /\ CutIn(b, ptr, s, limit) /\ x \notin S
       => \E v \in V : Left(b, run, type, limit, With(Partly(type, m, S), x, v), callers)

LEMMA PartlyUnread ==
  ASSUME NEW type, NEW m, NEW x, NEW value, NEW default, Member(type, m, x, value, default),
         NEW S, x \notin S
  PROVE  /\ With(Partly(type, m, S), x, default) = Partly(type, m, S)
         /\ x \in DOMAIN Partly(type, m, S)
<1>1. /\ With(Partly(type, m, S), x, value) = Partly(type, m, S \cup {x})
      /\ x \notin S => With(Partly(type, m, S), x, default) = Partly(type, m, S)
      /\ x \in DOMAIN Partly(type, m, S)
  BY PartlyRead
<1> QED BY <1>1

\* A number that the buffer ends in is read as some number.
LEMMA UInt32Cut ==
  ASSUME NEW type, NEW m, NEW x, NEW n \in UInt32Type, Member(type, m, x, n, 0),
         NEW number \in 1 .. 15, FieldOf(type, 8 * number) = UInt32(x)
  PROVE  CutField(type, m, x, WriteUInt32(number, n), Nat)
<1> DEFINE s == WriteUInt32(number, n)
           tag == 8 * number
           none == <<>>
           field == UInt32(x)
<1>1. s \in Seq(Nat) /\ Len(s) = UInt32FieldSize(n)
  BY UInt32Writes DEF Writes
<1>2. tag \in 1 .. 127 /\ none \in Seq(Nat) /\ FieldOf(type, tag) = field
  OBVIOUS
<1>3. n = 0 => s = none
  BY DEF WriteUInt32
<1>4. n # 0 => s = <<tag>> \o Varint(n) \o none
  <2> HAVE n # 0
  <2>1. <<tag>> \in Seq(Nat) /\ Varint(n) \in Seq(Nat)
    BY <1>2, VarintType, UInt32Numbers
  <2>2. <<tag>> \o Varint(n) \o <<>> = <<tag>> \o Varint(n)
    BY <2>1, ConcatProperties, ConcatEmptySeq
  <2>3. WriteUInt32(number, n) = <<tag>> \o Varint(n)
    BY DEF WriteUInt32
  <2> QED BY <2>2, <2>3, Zenon
<1>5. field # NoField /\ ~OfMessage(field)
  BY FieldKinds, Zenon
<1> HIDE DEF s, tag, none, field
<1>6. ASSUME NEW b, NEW run, NEW limit, NEW ptr, NEW callers, NEW S,
             At(b, run, type, limit, ptr, Partly(type, m, S), callers), CutIn(b, ptr, s, limit),
             x \notin S
      PROVE  \E v \in Nat : Left(b, run, type, limit, With(Partly(type, m, S), x, v), callers)
  <2> DEFINE p == Partly(type, m, S)
  <2>1. With(p, x, 0) = p
    <3>1. x \notin S
      BY <1>6
    <3> QED BY <3>1, PartlyUnread
  <2>2. n # 0
    <3> SUFFICES ASSUME n = 0 PROVE FALSE
      OBVIOUS
    <3> QED BY <1>3, <1>6, NotInNothing DEF none
  <2> HIDE DEF p
  <2>3. \/ Left(b, run, type, limit, p, callers)
        \/ /\ ptr < limit /\ ptr < Len(b) /\ FieldAt(b, ptr, type, field)
           /\ CutBehind(b, ptr + 1, n, none, limit)
    <3>1. At(b, run, type, limit, ptr, p, callers) /\ CutIn(b, ptr, <<tag>> \o Varint(n) \o none, limit)
      BY <1>4, <1>6, <2>2 DEF p
    <3> QED BY <1>2, <1>5, <3>1, TagCut
  <2>4. CASE Left(b, run, type, limit, p, callers)
    <3>1. Left(b, run, type, limit, With(p, x, 0), callers)
      BY <2>1, <2>4
    <3>2. 0 \in Nat
      OBVIOUS
    <3> QED BY <3>1, <3>2 DEF p
  <2>5. CASE /\ ptr < limit /\ ptr < Len(b) /\ FieldAt(b, ptr, type, field)
             /\ CutBehind(b, ptr + 1, n, none, limit)
    <3> DEFINE p1 == ptr + 1
               read == ReadVarint(b, p1)
               v == read.value
               end == read.ptr
    <3>1. CutVarintAt(b, p1) /\ ~Malformed(b, p1)
      <4>1. ~CutIn(b, p1 + UInt32Size(n), none, limit)
        BY NotInNothing DEF none
      <4> QED BY <2>5, <4>1 DEF CutBehind
    <3>2. b \in Seq(Nat) /\ p1 \in Nat /\ Len(b) \in Nat
      BY <3>1, LenProperties DEF CutVarintAt
    <3>3. v \in Nat
      BY <3>2, ValueType
    <3>4. end \in Nat /\ end > Len(b)
      BY <3>1, CutVarintRead
    <3> DEFINE cursor == CursorAt(p1, p)
               next == CursorAt(end, With(p, x, v))
    <3>5. ReadUInt32(b, cursor, x) = next
      <4>1. cursor.ptr = p1
        BY CursorIs
      <4>2. ReadInto(cursor, x, v, end) = CursorAt(end, [p EXCEPT ![x] = v])
        <5> HIDE DEF v, end, p1
        <5> QED BY CursorReads
      <4> HIDE DEF read, cursor
      <4>3. ReadUInt32(b, cursor, x)
              = ReadInto(cursor, x, ReadVarint(b, cursor.ptr).value, ReadVarint(b, cursor.ptr).ptr)
        BY DEF ReadUInt32, ReadInto
      <4>4. ReadUInt32(b, cursor, x) = ReadInto(cursor, x, v, end)
        BY <4>1, <4>3, Zenon DEF read
      <4> QED BY <4>2, <4>4, Zenon DEF With
    <3>6. ReadField(field, b, cursor) = next
      <4> HIDE DEF cursor, next
      <4> QED BY <3>5, ReadFieldIs, Zenon DEF field
    <3>7. LeftWith(b, next, With(p, x, v))
      <4> HIDE DEF v, end
      <4>1. end >= Len(b)
        BY <3>2, <3>4
      <4> DEFINE q == With(p, x, v)
      <4> HIDE DEF q
      <4>2. LeftWith(b, CursorAt(end, q), q)
        BY <4>1, LeftIs
      <4> QED BY <4>2 DEF q
    <3>8. Left(b, run, type, limit, With(p, x, v), callers)
      <4> DEFINE q == With(p, x, v)
      <4>1. /\ At(b, run, type, limit, ptr, p, callers) /\ FieldAt(b, ptr, type, field)
            /\ ptr < limit /\ ptr < Len(b) /\ ReadField(field, b, CursorAt(ptr + 1, p)) = next
            /\ LeftWith(b, next, q)
        BY <1>6, <2>5, <3>6, <3>7 DEF p
      <4> HIDE DEF q, next, cursor
      <4>2. Left(b, run, type, limit, q, callers)
        BY <1>5, <4>1, FieldLeft
      <4> QED BY <4>2 DEF q
    <3> HIDE DEF v
    <3> QED BY <3>3, <3>8 DEF p
  <2> QED BY <2>3, <2>4, <2>5
<1> QED BY <1>1, <1>6, Zenon DEF CutField, s

LEMMA VarintMoves ==
  ASSUME NEW b \in Seq(Nat), NEW ptr \in Nat, ~Malformed(b, ptr)
  PROVE  ReadVarint(b, ptr).ptr \in Nat /\ ReadVarint(b, ptr).ptr >= ptr + 1
<1> DEFINE ends == VarintEnds(b, ptr)
           size == Min(ends)
<1>1. size \in ends
  <2>1. ends # {} /\ \A k \in ends : k \in Nat
    BY DEF Malformed, VarintEnds, MaxVarintBytes
  <2> HIDE DEF ends
  <2>2. \E x \in ends : \A y \in ends : x <= y
    BY <2>1, LeastNumber
  <2> QED BY <2>2 DEF Min
<1> HIDE DEF size
<1>2. size \in Nat /\ size >= 1
  BY <1>1 DEF VarintEnds, MaxVarintBytes
<1>3. ReadVarint(b, ptr).ptr = ptr + size
  BY DEF ReadVarint, size
<1> QED BY <1>2, <1>3

LEMMA ReadVarintIs ==
  ASSUME NEW b, NEW ptr, ~Malformed(b, ptr), NEW v, v = ReadVarint(b, ptr).value,
         NEW end, end = ReadVarint(b, ptr).ptr
  PROVE  VarintAt(b, ptr, v, end)
<1> DEFINE read == ReadVarint(b, ptr)
<1>1. DOMAIN read = {"value", "ptr"} /\ read = [x \in DOMAIN read |-> read[x]]
  BY DEF ReadVarint
<1> HIDE DEF read
<1>2. read.value = v /\ read.ptr = end
  BY DEF read
<1>3. read = [value |-> v, ptr |-> end]
  BY <1>1, <1>2
<1> QED BY <1>3 DEF VarintAt, read

\* Some elements have been read, up to here; or something failed.
ReadSome(cursor, msg, member, least) ==
  \E list \in Seq(Nat) :
    \/ \E p \in Nat : p >= least /\ cursor = CursorAt(p, With(msg, member, list))
    \/ \E p \in Nat : cursor = Failed(CursorAt(p, With(msg, member, list)))

\* Each turn of the loop over a packed list leaves a list, and moves on unless it fails.
LEMMA SomeRead ==
  ASSUME NEW b \in Seq(Nat), NEW end \in Nat, NEW least \in Nat, least < end,
         NEW msg, NEW member, member \in DOMAIN msg, NEW cursor,
         ReadSome(cursor, msg, member, least)
  PROVE  ReadSome(NextElement(b, cursor, member, end), msg, member, least + 1)
<1> DEFINE next == NextElement(b, cursor, member, end)
<1>1. PICK list \in Seq(Nat), p \in Nat :
        \/ p >= least /\ cursor = CursorAt(p, With(msg, member, list))
        \/ cursor = Failed(CursorAt(p, With(msg, member, list)))
  BY DEF ReadSome
<1> DEFINE m == With(msg, member, list)
<1> HIDE DEF m
<1>2. CASE cursor = Failed(CursorAt(p, m))
  <2>1. cursor.failed
    BY <1>2 DEF Failed, CursorAt
  <2>2. next = cursor
    BY <2>1 DEF NextElement
  <2> QED BY <1>2, <2>2 DEF ReadSome, m
<1>3. CASE p >= least /\ cursor = CursorAt(p, m)
  <2>1. cursor.ptr = p
    BY <1>3, CursorIs
  <2>2. CASE p >= end
    <3>1. next = cursor
      BY <2>1, <2>2 DEF NextElement
    <3>2. p >= least + 1
      BY <2>2
    <3> QED BY <1>3, <3>1, <3>2 DEF ReadSome, m
  <2>3. CASE ~(p >= end) /\ Malformed(b, p)
    <3>1. cursor.failed = FALSE
      BY <1>3, CursorIs
    <3>2. next = Failed(cursor)
      BY <2>1, <2>3, <3>1 DEF NextElement
    <3> QED BY <1>3, <3>2 DEF ReadSome, m
  <2>4. CASE ~(p >= end) /\ ~Malformed(b, p)
    <3> DEFINE v == ReadVarint(b, p).value
               p2 == ReadVarint(b, p).ptr
    <3>1. v \in Nat /\ p2 \in Nat /\ p2 >= p + 1 /\ VarintAt(b, p, v, p2)
      BY <2>4, ValueType, VarintMoves, ReadVarintIs
    <3>2. p < end
      BY <2>4
    <3> HIDE DEF v, p2
    <3>3. NextElement(b, CursorAt(p, With(msg, member, list)), member, end)
            = CursorAt(p2, With(msg, member, Append(list, v)))
      BY <3>1, <3>2, ElementRead
    <3>4. Append(list, v) \in Seq(Nat) /\ p2 >= least + 1
      BY <1>3, <3>1
    <3> QED BY <1>3, <3>1, <3>3, <3>4 DEF ReadSome, m
  <2> QED BY <2>2, <2>3, <2>4
<1> QED BY <1>1, <1>2, <1>3 DEF m

\* That list is what is left where it ends.
LEMMA SomeIsLeft ==
  ASSUME NEW b \in Seq(Nat), NEW end \in Nat, end >= Len(b), NEW msg, NEW member,
         NEW cursor, ReadSome(cursor, msg, member, end)
  PROVE  \E list \in Seq(Nat) : LeftWith(b, ReadUpTo(cursor, end), With(msg, member, list))
<1>1. PICK list \in Seq(Nat), p \in Nat :
        \/ p >= end /\ cursor = CursorAt(p, With(msg, member, list))
        \/ cursor = Failed(CursorAt(p, With(msg, member, list)))
  BY DEF ReadSome
<1> DEFINE m == With(msg, member, list)
           q == ReadUpTo(cursor, end)
<1> HIDE DEF m
<1>2. /\ q.ptr = p /\ q.msg = m /\ (q.failed \/ p >= end)
      /\ DOMAIN q = {"ptr", "msg", "failed", "ended"} /\ q = [x \in DOMAIN q |-> q[x]]
  <2>1. CASE cursor = Failed(CursorAt(p, m))
    <3>1. /\ cursor.ptr = p /\ cursor.msg = m /\ cursor.failed = TRUE
          /\ DOMAIN cursor = {"ptr", "msg", "failed", "ended"}
      BY <2>1 DEF Failed, CursorAt
    <3> QED BY <3>1 DEF ReadUpTo
  <2>2. CASE p >= end /\ cursor = CursorAt(p, m)
    <3>1. /\ cursor.ptr = p /\ cursor.msg = m
          /\ DOMAIN cursor = {"ptr", "msg", "failed", "ended"}
      BY <2>2 DEF CursorAt
    <3> QED BY <2>2, <3>1 DEF ReadUpTo
  <2> QED BY <1>1, <2>1, <2>2 DEF m
<1> HIDE DEF q
<1>3. q = [ptr |-> q.ptr, msg |-> m, failed |-> q.failed, ended |-> q.ended]
  BY <1>2
<1>4. q.failed \/ q.ptr >= Len(b)
  <2>1. Len(b) \in Nat
    BY LenProperties
  <2> QED BY <1>2, <2>1
<1>5. LeftWith(b, q, m)
  BY <1>3, <1>4 DEF LeftWith
<1> QED BY <1>5 DEF q, m

\* A packed list that ends behind the buffer is read as some list.
LEMMA PackedLeft ==
  ASSUME NEW b \in Seq(Nat), NEW ptr \in Nat, NEW msg, NEW member, IsEmpty(msg, member),
         NEW n \in Nat, NEW start \in Nat, VarintAt(b, ptr, n, start), start + n >= Len(b)
  PROVE  \E list \in Seq(Nat) :
           LeftWith(b, ReadPacked(b, CursorAt(ptr, msg), member), With(msg, member, list))
<1> DEFINE end == start + n
<1>0. PICK f : PackedRun(b, ptr, msg, member, n, start, f)
  BY PackedSteps
<1>1. /\ f[0] = CursorAt(start, msg)
      /\ \A k \in 0 .. n - 1 : f[k + 1] = NextElement(b, f[k], member, end)
      /\ ReadPacked(b, CursorAt(ptr, msg), member) = ReadUpTo(f[n], end)
  BY <1>0 DEF PackedRun
<1>2. end \in Nat /\ end >= Len(b)
  OBVIOUS
<1> DEFINE T == {k \in 0 .. n : ReadSome(f[k], msg, member, start + k)}
<1>3. 0 \in T
  <2> DEFINE none == <<>>
  <2>1. f[0] = CursorAt(start, With(msg, member, none)) /\ none \in Seq(Nat)
    BY <1>1 DEF IsEmpty
  <2>2. start >= start + 0 /\ 0 \in 0 .. n
    OBVIOUS
  <2> HIDE DEF none
  <2> QED BY <2>1, <2>2 DEF ReadSome
<1>4. ASSUME NEW k \in 0 .. n - 1, k \in T PROVE k + 1 \in T
  <2> DEFINE least == start + k
             cursor == f[k]
  <2>1. /\ least \in Nat /\ least < end /\ ReadSome(cursor, msg, member, least)
        /\ member \in DOMAIN msg
    BY <1>4 DEF IsEmpty
  <2>2. f[k + 1] = NextElement(b, cursor, member, end)
    BY <1>1
  <2>3. least + 1 = start + (k + 1) /\ k + 1 \in 0 .. n
    OBVIOUS
  <2> HIDE DEF least, cursor, end
  <2>4. ReadSome(NextElement(b, cursor, member, end), msg, member, least + 1)
    BY <1>2, <2>1, SomeRead
  <2> QED BY <2>2, <2>3, <2>4
<1> HIDE DEF T
<1>5. n \in T
  <2>1. \A k \in 0 .. n - 1 : k \in T => k + 1 \in T
    BY <1>4
  <2>2. \A k \in 0 .. n : k \in T
    BY <1>3, <2>1, Upwards, Zenon
  <2> QED BY <2>2
<1>6. ReadSome(f[n], msg, member, end)
  BY <1>5 DEF T
<1> DEFINE last == f[n]
<1> HIDE DEF end, last
<1>7. \E list \in Seq(Nat) : LeftWith(b, ReadUpTo(last, end), With(msg, member, list))
  BY <1>2, <1>6, SomeIsLeft DEF last
<1> QED BY <1>1, <1>7, Zenon DEF last

\* A packed list that the buffer ends in is read as some list.
LEMMA PackedCut ==
  ASSUME NEW type, NEW m, NEW x, NEW list \in Seq(UInt32Type), Member(type, m, x, list, <<>>),
         NEW number \in 1 .. 15, FieldOf(type, 8 * number + 2) = PackedUInt32(x)
  PROVE  CutField(type, m, x, WriteUInt32Packed(number, list), Seq(Nat))
<1> DEFINE s == WriteUInt32Packed(number, list)
           values == FlattenSeq(Varints(list))
           n == Len(values)
           tag == 8 * number + 2
           field == PackedUInt32(x)
<1>1. s \in Seq(Nat) /\ values \in Seq(Nat) /\ n \in Nat
  <2>1. list \in Seq(Nat) /\ number \in Nat
    BY UInt32Numbers
  <2> QED BY <2>1, VarintsType, WritePackedType
<1>2. /\ list = <<>> => s = <<>>
      /\ list # <<>> => s = WriteBytes(number, n, values)
  BY DEF WriteUInt32Packed, Varints
<1>3. WriteBytes(number, n, values) = <<tag>> \o Varint(n) \o values
  BY DEF WriteBytes
<1>4. tag \in 1 .. 127 /\ FieldOf(type, tag) = field
  OBVIOUS
<1>5. field # NoField /\ ~OfMessage(field)
  BY FieldKinds, Zenon
<1>6. list # <<>> => n + 2 <= Len(s)
  <2> HAVE list # <<>>
  <2>1. number \in Nat
    OBVIOUS
  <2>2. /\ Len(WriteBytes(number, n, values)) = LengthDelimitedSize(n)
        /\ n + 2 <= LengthDelimitedSize(n)
    BY <1>1, <2>1, WriteBytesType
  <2> QED BY <1>2, <2>2
<1> HIDE DEF s, values, n, tag, field
<1>7. ASSUME NEW b, NEW run, NEW limit, NEW ptr, NEW callers, NEW S,
             At(b, run, type, limit, ptr, Partly(type, m, S), callers), CutIn(b, ptr, s, limit),
             x \notin S
      PROVE  \E v \in Seq(Nat) : Left(b, run, type, limit, With(Partly(type, m, S), x, v), callers)
  <2> DEFINE p == Partly(type, m, S)
  <2>1. IsEmpty(p, x)
    BY <1>7, PartlyUnread DEF IsEmpty
  <2>2. list # <<>>
    <3> SUFFICES ASSUME list = <<>> PROVE FALSE
      OBVIOUS
    <3>1. CutIn(b, ptr, <<>>, limit)
      BY <1>2, <1>7
    <3> QED BY <3>1, NotInNothing
  <2> HIDE DEF p
  <2>3. n \in UInt32Type
    <3> DEFINE l == Len(s)
    <3>1. l <= INT_MAX /\ l \in Nat /\ n + 2 <= l
      BY <1>1, <1>6, <1>7, <2>2, LenProperties DEF CutIn
    <3>2. INT_MAX \in Nat
      BY SMT DEF INT_MAX
    <3> HIDE DEF l
    <3>3. n <= INT_MAX
      BY <1>1, <3>1, <3>2
    <3> QED BY <1>1, <3>3, SmallNumbers
  <2>4. \/ Left(b, run, type, limit, p, callers)
        \/ /\ ptr < limit /\ ptr < Len(b) /\ FieldAt(b, ptr, type, field)
           /\ CutBehind(b, ptr + 1, n, values, limit)
    <3>1. At(b, run, type, limit, ptr, p, callers) /\ CutIn(b, ptr, <<tag>> \o Varint(n) \o values, limit)
      BY <1>2, <1>3, <1>7, <2>2 DEF p
    <3> QED BY <1>1, <1>4, <1>5, <2>3, <3>1, TagCut
  <2>5. CASE Left(b, run, type, limit, p, callers)
    <3> DEFINE none == <<>>
    <3>1. Left(b, run, type, limit, With(p, x, none), callers) /\ none \in Seq(Nat)
      BY <2>1, <2>5 DEF IsEmpty
    <3> HIDE DEF none
    <3> QED BY <3>1 DEF p
  <2>6. CASE /\ ptr < limit /\ ptr < Len(b) /\ FieldAt(b, ptr, type, field)
             /\ CutBehind(b, ptr + 1, n, values, limit)
    <3> DEFINE p1 == ptr + 1
               v == ReadVarint(b, p1).value
               start == ReadVarint(b, p1).ptr
    <3>1. b \in Seq(Nat) /\ p1 \in Nat /\ ~Malformed(b, p1)
      BY <2>6 DEF CutBehind
    <3>2. v \in Nat /\ start \in Nat /\ start + v >= Len(b)
      <4>1. CutBehind(b, p1, n, values, limit) /\ n = Len(values)
        BY <2>6 DEF n
      <4> HIDE DEF p1
      <4> QED BY <4>1, BehindEnds
    <3>3. VarintAt(b, p1, v, start)
      BY <3>1, ReadVarintIs
    <3> DEFINE cursor == ReadPacked(b, CursorAt(p1, p), x)
    <3>4. PICK l \in Seq(Nat) : LeftWith(b, cursor, With(p, x, l))
      <4> HIDE DEF p1, v, start
      <4> QED BY <2>1, <3>1, <3>2, <3>3, PackedLeft
    <3>5. ReadField(field, b, CursorAt(p1, p)) = cursor
      BY ReadFieldIs, Zenon DEF field
    <3>6. Left(b, run, type, limit, With(p, x, l), callers)
      <4> DEFINE q == With(p, x, l)
      <4>1. /\ At(b, run, type, limit, ptr, p, callers) /\ FieldAt(b, ptr, type, field)
            /\ ptr < limit /\ ptr < Len(b) /\ ReadField(field, b, CursorAt(ptr + 1, p)) = cursor
            /\ LeftWith(b, cursor, q)
        BY <1>7, <2>6, <3>4, <3>5 DEF p
      <4> HIDE DEF q, cursor
      <4>2. Left(b, run, type, limit, q, callers)
        BY <1>5, <4>1, FieldLeft
      <4> QED BY <4>2 DEF q
    <3> QED BY <3>6 DEF p
  <2> QED BY <2>4, <2>5, <2>6
<1> QED BY <1>1, <1>7, Zenon DEF CutField, s

\* Where the buffer ends in s, the message is read as one of M.
CutParses(type, s, M) ==
  /\ s \in Seq(Nat)
  /\ \A b, run, limit, ptr, callers :
       At(b, run, type, limit, ptr, Cleared[type], callers) /\ CutIn(b, ptr, s, limit)
       => \E q \in M : Left(b, run, type, limit, q, callers)

\* What is read when the members in X are read, and of the others at most x, from V.
CutMember(type, m, X, x, V) == {With(Partly(type, m, X), x, v) : v \in V}

\* A member: read as it was written, or from V.
FieldOrCut(type, m, x, s, V) == ReadAs(type, m, {x}, s) /\ CutField(type, m, x, s, V)

\* Members: read as they were written, or the message is one of M.
ReadOrCut(type, m, X, s, M) == ReadAs(type, m, X, s) /\ CutParses(type, s, M)

LEMMA PartlyNothing ==
  ASSUME NEW type, NEW m, OfType(type, m)
  PROVE  Partly(type, m, {}) = Cleared[type]
<1> DEFINE c == Cleared[type]
<1>1. c = [x \in DOMAIN m |-> c[x]]
  BY DEF OfType
<1>2. Partly(type, m, {}) = [x \in DOMAIN m |-> c[x]]
  BY DEF Partly
<1> QED BY <1>1, <1>2, Zenon

\* A message is read member by member: the first one that is written,
LEMMA FirstMember ==
  ASSUME NEW type, NEW m, OfType(type, m), NEW x, NEW s, NEW V, FieldOrCut(type, m, x, s, V)
  PROVE  ReadOrCut(type, m, {x}, s, CutMember(type, m, {}, x, V))
<1>1. Partly(type, m, {}) = Cleared[type] /\ x \notin {}
  BY PartlyNothing
<1>2. s \in Seq(Nat) /\ ReadAs(type, m, {x}, s) /\ CutField(type, m, x, s, V)
  BY DEF FieldOrCut, ReadAs
<1> DEFINE M == CutMember(type, m, {}, x, V)
<1>3. ASSUME NEW b, NEW run, NEW limit, NEW ptr, NEW callers,
             At(b, run, type, limit, ptr, Cleared[type], callers), CutIn(b, ptr, s, limit)
      PROVE  \E q \in M : Left(b, run, type, limit, q, callers)
  <2>1. At(b, run, type, limit, ptr, Partly(type, m, {}), callers)
    BY <1>1, <1>3, Zenon
  <2>2. PICK v \in V : Left(b, run, type, limit, With(Partly(type, m, {}), x, v), callers)
    BY <1>1, <1>2, <1>3, <2>1, Zenon DEF CutField
  <2>3. With(Partly(type, m, {}), x, v) \in M
    BY DEF CutMember
  <2> HIDE DEF M
  <2> QED BY <2>2, <2>3
<1> HIDE DEF M
<1>4. CutParses(type, s, M)
  BY <1>2, <1>3, Zenon DEF CutParses
<1> QED BY <1>2, <1>4, Zenon DEF ReadOrCut, M

\* and one behind those that were read.
LEMMA NextMember ==
  ASSUME NEW type, NEW m, OfType(type, m), NEW X, NEW s, NEW M, ReadOrCut(type, m, X, s, M),
         NEW x, x \notin X, NEW t, NEW V, FieldOrCut(type, m, x, t, V), NEW Y, Y = X \cup {x}
  PROVE  ReadOrCut(type, m, Y, s \o t, M \cup CutMember(type, m, X, x, V))
<1>1. Partly(type, m, {}) = Cleared[type]
  BY PartlyNothing
<1>2. /\ s \in Seq(Nat) /\ t \in Seq(Nat) /\ ReadAs(type, m, X, s) /\ ReadAs(type, m, {x}, t)
      /\ CutField(type, m, x, t, V) /\ CutParses(type, s, M)
  BY DEF FieldOrCut, ReadOrCut, ReadAs
<1>3. ReadAs(type, m, Y, s \o t)
  BY <1>2, ReadNext
<1> DEFINE N == CutMember(type, m, X, x, V)
           MN == M \cup N
<1>4. ASSUME NEW b, NEW run, NEW limit, NEW ptr, NEW callers,
             At(b, run, type, limit, ptr, Cleared[type], callers), CutIn(b, ptr, s \o t, limit)
      PROVE  \E q \in MN : Left(b, run, type, limit, q, callers)
  <2>1. limit \in Nat
    BY <1>4 DEF At
  <2>2. \/ CutIn(b, ptr, s, limit)
        \/ Within(b, ptr, s, limit) /\ CutIn(b, ptr + Len(s), t, limit)
    BY <1>2, <1>4, <2>1, CutJoined
  <2>3. CASE CutIn(b, ptr, s, limit)
    <3>1. PICK q \in M : Left(b, run, type, limit, q, callers)
      BY <1>2, <1>4, <2>3, Zenon DEF CutParses
    <3>2. q \in MN
      BY <3>1
    <3> HIDE DEF MN
    <3> QED BY <3>1, <3>2
  <2>4. CASE Within(b, ptr, s, limit) /\ CutIn(b, ptr + Len(s), t, limit)
    <3>1. At(b, run, type, limit, ptr + Len(s), Partly(type, m, X), callers)
      <4>1. At(b, run, type, limit, ptr, Partly(type, m, {}), callers)
        BY <1>1, <1>4, Zenon
      <4>2. {} \cap X = {} /\ {} \cup X = X
        OBVIOUS
      <4>3. At(b, run, type, limit, ptr + Len(s), Partly(type, m, {} \cup X), callers)
        BY <1>2, <2>4, <4>1, <4>2, Zenon DEF ReadAs
      <4> QED BY <4>2, <4>3, Zenon
    <3>2. PICK v \in V : Left(b, run, type, limit, With(Partly(type, m, X), x, v), callers)
      BY <1>2, <2>4, <3>1, Zenon DEF CutField
    <3>3. With(Partly(type, m, X), x, v) \in MN
      BY DEF CutMember
    <3> HIDE DEF MN
    <3> QED BY <3>2, <3>3
  <2> QED BY <2>2, <2>3, <2>4
<1>5. s \o t \in Seq(Nat)
  BY <1>2, Joined
<1> HIDE DEF MN
<1>6. CutParses(type, s \o t, MN)
  BY <1>4, <1>5, Zenon DEF CutParses
<1> QED BY <1>3, <1>6, Zenon DEF ReadOrCut, MN

-----------------------------------------------------------------------------
(* Submessages that the buffer ends in. *)

\* A call for a submessage, which the buffer ends in.
LEMMA CallCut ==
  ASSUME NEW b, NEW run, NEW type, NEW limit, NEW ptr, NEW msg, NEW callers,
         At(b, run, type, limit, ptr, msg, callers), NEW field, FieldAt(b, ptr, type, field),
         ptr < limit, ptr < Len(b), NEW sub, NEW member, Submessage(field, sub, member, msg),
         NEW s, NEW M, CutParses(sub, s, M), Cleared[sub] \in M, NEW n, n = Len(s),
         CutBehind(b, ptr + 1, n, s, limit), NEW list, list = msg[member]
  PROVE  \E q \in M : Left(b, run, type, limit, With(msg, member, Append(list, q)), callers)
<1> DEFINE p1 == ptr + 1
           v == ReadVarint(b, p1).value
           start == ReadVarint(b, p1).ptr
           end == start + v
           caller == Caller(type, limit, field, msg)
           all == Append(callers, caller)
           c == Cleared[sub]
           call == ParseCall(type, limit, CursorAt(ptr, msg), callers)
<1>1. /\ b \in Seq(Nat) /\ ptr \in Nat /\ Len(b) \in Nat /\ p1 \in Nat /\ ~Malformed(b, p1)
      /\ IsList(callers)
  BY LenProperties DEF At, CutBehind
<1>2. /\ v \in Nat /\ start \in Nat /\ end >= Len(b)
      /\ start >= Len(b) \/ (VarintAt(b, p1, n, p1 + UInt32Size(n)) /\ CutIn(b, p1 + UInt32Size(n), s, limit))
  <2>1. CutBehind(b, p1, n, s, limit) /\ n = Len(s)
    OBVIOUS
  <2> HIDE DEF p1
  <2> QED BY <2>1, BehindEnds
<1>3. VarintAt(b, p1, v, start)
  BY <1>1, ReadVarintIs
<1>4. IsList(all) /\ Len(all) = Len(callers) + 1 /\ Len(callers) \in Nat
  <2> HIDE DEF caller
  <2> QED BY <1>1, CallersStack
<1> HIDE DEF p1, v, start, end, caller, all, c
<1>5. InternalParse(b, call) = ParseCall(sub, end, CursorAt(start, c), all)
  <2>1. OfMessage(field)
    BY DEF Submessage
  <2>2. InternalParse(b, call) = ParseMessage(b, call, field, CursorAt(p1, msg))
    <3>1. OfMessage(field) =>
            InternalParse(b, ParseCall(type, limit, CursorAt(ptr, msg), callers))
              = ParseMessage(b, ParseCall(type, limit, CursorAt(ptr, msg), callers), field,
                  CursorAt(ptr + 1, msg))
      BY AtField
    <3> QED BY <2>1, <3>1, Zenon DEF p1
  <2>3. ParseMessage(b, call, field, CursorAt(p1, msg)) = ParseCall(sub, end, CursorAt(start, c), all)
    <3> DEFINE cursor == CursorAt(ptr, msg)
    <3> HIDE DEF cursor
    <3>1. ParseMessage(b, ParseCall(type, limit, cursor, callers), field, CursorAt(p1, msg))
            = ParseCall(sub, start + v, CursorAt(start, Cleared[sub]),
                Append(callers, Caller(type, limit, field, msg)))
      BY <1>3, MessageCalled
    <3> QED BY <3>1 DEF cursor, c, all, caller, end
  <2> QED BY <2>2, <2>3, Zenon
<1>6. ASSUME NEW q \in M, Left(b, run, sub, end, q, all)
      PROVE  \E r \in M : Left(b, run, type, limit, With(msg, member, Append(list, r)), callers)
  <2>1. Left(b, run, sub, end, q, Append(callers, Caller(type, limit, field, msg)))
    BY <1>6 DEF all, caller
  <2>2. Left(b, run, type, limit, With(msg, member, Append(list, q)), callers)
    BY <1>1, <2>1, LeftByAll
  <2> QED BY <2>2
<1>7. CASE start >= Len(b)
  <2> DEFINE cursor == CursorAt(start, c)
  <2>1. LeftWith(b, cursor, c)
    BY <1>7, LeftIs
  <2>2. Len(all) <= Len(callers) + 1
    BY <1>4
  <2>3. InternalParse(b, ParseCall(type, limit, CursorAt(ptr, msg), callers))
          = ParseCall(sub, end, cursor, all)
    BY <1>5
  <2> HIDE DEF cursor
  <2>4. Left(b, run, sub, end, c, all)
    BY <1>4, <2>1, <2>2, <2>3, LeftNext
  <2>5. c \in M
    BY DEF c
  <2> QED BY <1>6, <2>4, <2>5
<1>8. CASE VarintAt(b, p1, n, p1 + UInt32Size(n)) /\ CutIn(b, p1 + UInt32Size(n), s, limit)
  <2> DEFINE lb == Len(b)
             u == UInt32Size(n)
             k == Len(callers)
             l == Len(all)
  <2>1. v = n /\ start = p1 + u
    BY <1>8 DEF VarintAt, v, start
  <2>2. start <= lb /\ CutIn(b, start, s, limit) /\ n \in Nat /\ s \in Seq(Nat)
    BY <1>8, <2>1, LenProperties DEF CutIn
  <2>3. n \in UInt32Type /\ u \in 1 .. 5
    <3>1. n <= INT_MAX
      BY <2>2 DEF CutIn
    <3>2. n \in UInt32Type
      BY <2>2, <3>1, SmallNumbers
    <3> QED BY <3>2, VarintType
  <2>4. start <= end /\ end \in Nat
    BY <1>2 DEF end
  <2>5. ptr + 1 + l <= start + k
    <3>1. l = k + 1 /\ k \in Nat /\ start = ptr + 1 + u
      BY <1>4, <2>1 DEF p1
    <3> HIDE DEF k, l, u
    <3>2. u \in 1 .. 5
      BY <2>3
    <3> QED BY <1>1, <3>1, <3>2
  <2>6. At(b, run, sub, end, start, c, all)
    <3>1. InternalParse(b, ParseCall(type, limit, CursorAt(ptr, msg), callers))
            = ParseCall(sub, end, CursorAt(start, c), all)
      BY <1>5
    <3>2. start <= Len(b) /\ ptr + 1 + Len(all) <= start + Len(callers)
      BY <2>2, <2>5
    <3> QED BY <1>2, <1>4, <2>4, <3>1, <3>2, Step
  <2>7. CutIn(b, start, s, end)
    BY <1>1, <1>2, <2>2 DEF CutIn
  <2>8. At(b, run, sub, end, start, Cleared[sub], all)
    BY <2>6 DEF c
  <2>9. PICK q \in M : Left(b, run, sub, end, q, all)
    BY <2>7, <2>8, Zenon DEF CutParses
  <2> QED BY <1>6, <2>9
<1> QED BY <1>2, <1>7, <1>8

\* A submessage that the buffer ends in is not read at all, or it is one of M.
LEMMA MessageCut ==
  ASSUME NEW b, NEW run, NEW type, NEW limit, NEW ptr, NEW msg, NEW callers,
         At(b, run, type, limit, ptr, msg, callers),
         NEW number \in 1 .. 15, NEW field, FieldOf(type, 8 * number + 2) = field,
         NEW sub, NEW member, Submessage(field, sub, member, msg),
         NEW s, NEW M, CutParses(sub, s, M), Cleared[sub] \in M,
         CutIn(b, ptr, WriteBytes(number, Len(s), s), limit), NEW list, list = msg[member]
  PROVE  \/ Left(b, run, type, limit, msg, callers)
         \/ \E q \in M : Left(b, run, type, limit, With(msg, member, Append(list, q)), callers)
<1> DEFINE tag == 8 * number + 2
           n == Len(s)
           whole == WriteBytes(number, n, s)
<1>1. tag \in 1 .. 127 /\ s \in Seq(Nat) /\ number \in Nat /\ field # NoField /\ FieldOf(type, tag) = field
  BY DEF CutParses, Submessage
<1>2. n \in UInt32Type
  <2> DEFINE l == Len(whole)
  <2>1. n \in Nat
    BY <1>1, LenProperties
  <2>2. l \in Nat /\ n + 2 <= l
    BY <1>1, WriteBytesType
  <2>3. l <= INT_MAX
    BY DEF CutIn
  <2>4. INT_MAX \in Nat
    BY SMT DEF INT_MAX
  <2> HIDE DEF l, n
  <2>5. n <= INT_MAX
    BY <2>1, <2>2, <2>3, <2>4
  <2> QED BY <2>1, <2>5, SmallNumbers
<1>3. CutIn(b, ptr, <<tag>> \o Varint(n) \o s, limit)
  BY DEF WriteBytes
<1> HIDE DEF tag, n, whole
<1>4. \/ Left(b, run, type, limit, msg, callers)
      \/ /\ ptr < limit /\ ptr < Len(b) /\ FieldAt(b, ptr, type, field)
         /\ CutBehind(b, ptr + 1, n, s, limit)
  BY <1>1, <1>2, <1>3, TagCut
<1>5. CASE /\ ptr < limit /\ ptr < Len(b) /\ FieldAt(b, ptr, type, field)
           /\ CutBehind(b, ptr + 1, n, s, limit)
  <2>1. n = Len(s)
    BY DEF n
  <2>2. \E q \in M : Left(b, run, type, limit, With(msg, member, Append(list, q)), callers)
    BY <1>5, <2>1, CallCut
  <2> QED BY <2>2
<1> QED BY <1>4, <1>5

\* Some first ones of a list, and perhaps one of the cuts of the next one.
CutLists(list, cuts) ==
  UNION {{SubSeq(list, 1, k)} \cup {Append(SubSeq(list, 1, k), q) : q \in cuts[k + 1]} :
         k \in 0 .. Len(list) - 1}

\* The messages of a list, what is written for each of them, and what is read of it where
\* the buffer ends in it.
AllCut(type, list, written, cuts) ==
  /\ AllParse(type, list, written)
  /\ \A k \in 1 .. Len(list) : CutParses(type, written[k], cuts[k]) /\ Cleared[type] \in cuts[k]

\* The lists that are read of a list of messages: its first ones, and one that is cut.
LEMMA InCutLists ==
  ASSUME NEW list, NEW cuts, NEW k \in 0 .. Len(list) - 1, NEW upto, upto = SubSeq(list, 1, k),
         NEW next, next = cuts[k + 1]
  PROVE  /\ upto \in CutLists(list, cuts)
         /\ \A q \in next : Append(upto, q) \in CutLists(list, cuts)
<1> DEFINE lists(j) == {SubSeq(list, 1, j)} \cup {Append(SubSeq(list, 1, j), q) : q \in cuts[j + 1]}
<1>1. lists(k) = {upto} \cup {Append(upto, q) : q \in next}
  OBVIOUS
<1>2. CutLists(list, cuts) = UNION {lists(j) : j \in 0 .. Len(list) - 1}
  BY DEF CutLists
<1> HIDE DEF lists
<1>3. lists(k) \subseteq CutLists(list, cuts)
  BY <1>2
<1> QED BY <1>1, <1>3

LEMMA ListTurn ==
  ASSUME NEW field, NEW sub, NEW x, NEW list, ListField(field, sub, x, list), IsList(list),
         NEW here, NEW k \in 0 .. Len(list) - 1, here[x] = SubSeq(list, 1, k)
  PROVE  Submessage(field, sub, x, here)
<1>1. Len(list) \in Nat /\ SubSeq(list, 1, 0) = <<>>
  BY LenProperties, FirstOnes DEF IsList
<1>2. CASE Len(list) = 1
  <2>1. k = 0
    BY <1>2
  <2>2. here[x] = <<>>
    BY <1>1, <2>1
  <2> QED BY <2>2, Zenon DEF ListField
<1>3. CASE Len(list) # 1
  BY <1>3, Zenon DEF ListField
<1> QED BY <1>2, <1>3

\* A list of messages that the buffer ends in: the end is in one of the messages.
LEMMA MessagesCut ==
  ASSUME NEW type, NEW m, NEW x, NEW list, Member(type, m, x, list, <<>>),
         NEW number \in 1 .. 15, NEW field, FieldOf(type, 8 * number + 2) = field,
         NEW sub, ListField(field, sub, x, list), NEW written, NEW cuts,
         AllCut(sub, list, written, cuts), NEW s \in Seq(Nat),
         s = FlattenSeq(Delimited(number, written))
  PROVE  CutField(type, m, x, s, CutLists(list, cuts))
<1> DEFINE len == Len(list)
           V == CutLists(list, cuts)
<1>1. AllParse(sub, list, written) /\ IsList(list) /\ written \in Seq(Seq(Nat)) /\ Len(written) = len
  BY DEF AllCut, AllParse
<1>2. PICK g : FirstFields(number, written, g)
  BY <1>1, DelimitedEach, FlattenIs DEF FirstFields
<1>3. len \in Nat /\ g[len] = s
  BY <1>1, <1>2, FieldsInTurn
<1>4. ASSUME NEW b, NEW run, NEW limit, NEW ptr, NEW callers, NEW S,
             At(b, run, type, limit, ptr, Partly(type, m, S), callers), CutIn(b, ptr, s, limit),
             x \notin S
      PROVE  \E v \in V : Left(b, run, type, limit, With(Partly(type, m, S), x, v), callers)
  <2> DEFINE p == Partly(type, m, S)
  <2>1. IsEmpty(p, x)
    BY <1>4, PartlyUnread DEF IsEmpty
  <2>2. At(b, run, type, limit, ptr, p, callers) /\ limit \in Nat
    BY <1>4 DEF At
  <2> HIDE DEF p, V, len
  <2>3. PICK k \in 0 .. len - 1 :
          /\ Within(b, ptr, g[k], limit)
          /\ CutIn(b, ptr + Len(g[k]), WriteBytes(number, Len(written[k + 1]), written[k + 1]), limit)
    <3>1. len = Len(written) /\ CutIn(b, ptr, g[len], limit)
      BY <1>1, <1>3, <1>4
    <3> QED BY <1>1, <1>2, <2>2, <3>1, CutFields
  <2> DEFINE at == ptr + Len(g[k])
             upto == SubSeq(list, 1, k)
             here == With(p, x, upto)
             w == written[k + 1]
             M == cuts[k + 1]
  <2>4. At(b, run, type, limit, at, here, callers)
    <3>1. k \in 0 .. Len(list)
      BY <1>3 DEF len
    <3> QED BY <1>1, <1>2, <2>1, <2>2, <2>3, <3>1, FirstMessagesRead
  <2>5. here[x] = upto /\ \A v : With(here, x, v) = With(p, x, v)
    <3>1. x \in DOMAIN p
      BY <2>1 DEF IsEmpty
    <3> HIDE DEF upto
    <3> QED BY <3>1, WithIs
  <2>6. Submessage(field, sub, x, here)
    <3>1. k \in 0 .. Len(list) - 1 /\ here[x] = SubSeq(list, 1, k)
      BY <2>5 DEF len
    <3> HIDE DEF here
    <3> QED BY <1>1, <3>1, ListTurn
  <2>7. CutParses(sub, w, M) /\ Cleared[sub] \in M
    <3>1. k + 1 \in 1 .. Len(list)
      BY <1>3 DEF len
    <3> QED BY <3>1 DEF AllCut
  <2>8. upto \in V /\ \A q \in M : Append(upto, q) \in V
    <3>1. k \in 0 .. Len(list) - 1
      BY DEF len
    <3> QED BY <3>1, InCutLists DEF V
  <2>9. CutIn(b, at, WriteBytes(number, Len(w), w), limit)
    BY <2>3
  <2> HIDE DEF at, upto, here, w, M
  <2>10. \/ Left(b, run, type, limit, here, callers)
         \/ \E q \in M : Left(b, run, type, limit, With(here, x, Append(upto, q)), callers)
    <3>1. upto = here[x]
      BY <2>5
    <3> QED BY <2>4, <2>6, <2>7, <2>9, <3>1, MessageCut
  <2>11. CASE Left(b, run, type, limit, here, callers)
    <3>1. Left(b, run, type, limit, With(p, x, upto), callers)
      BY <2>11 DEF here
    <3> QED BY <2>8, <3>1 DEF p
  <2>12. ASSUME NEW q \in M, Left(b, run, type, limit, With(here, x, Append(upto, q)), callers)
         PROVE  \E v \in V : Left(b, run, type, limit, With(Partly(type, m, S), x, v), callers)
    <3> DEFINE l == Append(upto, q)
    <3>1. l \in V
      BY <2>8
    <3> HIDE DEF l
    <3>2. Left(b, run, type, limit, With(here, x, l), callers)
      BY <2>12 DEF l
    <3>3. Left(b, run, type, limit, With(p, x, l), callers)
      BY <2>5, <3>2
    <3> QED BY <3>1, <3>3 DEF p
  <2> QED BY <2>10, <2>11, <2>12
<1> HIDE DEF V
<1> QED BY <1>4, Zenon DEF CutField, V

\* A message is one of what is read of it.
LEMMA NestedCut ==
  ASSUME NEW type, NEW m, NEW number, NEW x, NEW sub, NestedField(type, m, number, x, sub),
         NEW list, list = m[x], NEW written, NEW n, NEW whole, NEW size,
         ListOf(number, n, written, whole, size), NEW cuts, AllCut(sub, list, written, cuts)
  PROVE  FieldOrCut(type, m, x, whole, CutLists(list, cuts))
<1>1. whole \in Seq(Nat) /\ whole = FlattenSeq(Delimited(number, written))
  BY DEF ListOf, Writes
<1>2. /\ number \in 1 .. 15 /\ ListField(FieldOf(type, 8 * number + 2), sub, x, list)
      /\ Member(type, m, x, list, <<>>)
  BY DEF NestedField, Member
<1>3. CutField(type, m, x, whole, CutLists(list, cuts))
  BY <1>1, <1>2, MessagesCut
<1>4. AllParse(sub, list, written)
  BY DEF AllCut
<1>5. ReadAs(type, m, {x}, whole)
  BY <1>4, NestedReadAs
<1> QED BY <1>3, <1>5, Zenon DEF FieldOrCut

LEMMA NumberCut ==
  ASSUME NEW type, NEW m, NEW number, NEW x, NumberField(type, m, number, x), NEW n, n = m[x]
  PROVE  FieldOrCut(type, m, x, WriteUInt32(number, n), Nat)
<1>1. /\ number \in 1 .. 15 /\ FieldOf(type, 8 * number) = UInt32(x) /\ n \in UInt32Type
      /\ Member(type, m, x, n, 0)
  BY DEF NumberField, Member
<1>2. CutField(type, m, x, WriteUInt32(number, n), Nat)
  BY <1>1, UInt32Cut
<1>3. ReadAs(type, m, {x}, WriteUInt32(number, n))
  BY NumberReadAs
<1> QED BY <1>2, <1>3, Zenon DEF FieldOrCut

LEMMA ListCut ==
  ASSUME NEW type, NEW m, NEW number, NEW x, PackedField(type, m, number, x), NEW list, list = m[x]
  PROVE  FieldOrCut(type, m, x, WriteUInt32Packed(number, list), Seq(Nat))
<1>1. /\ number \in 1 .. 15 /\ FieldOf(type, 8 * number + 2) = PackedUInt32(x)
      /\ list \in Seq(UInt32Type) /\ Member(type, m, x, list, <<>>)
  BY DEF PackedField, Member
<1>2. CutField(type, m, x, WriteUInt32Packed(number, list), Seq(Nat))
  BY <1>1, PackedCut
<1>3. ReadAs(type, m, {x}, WriteUInt32Packed(number, list))
  BY ListReadAs
<1> QED BY <1>2, <1>3, Zenon DEF FieldOrCut

\* What is not written is not cut.
LEMMA DefaultCut ==
  ASSUME NEW type, NEW m, NEW x, NEW value, Member(type, m, x, value, value)
  PROVE  FieldOrCut(type, m, x, <<>>, {})
<1>1. ReadAs(type, m, {x}, <<>>)
  BY DefaultReadAs
<1>2. ASSUME NEW b, NEW ptr, NEW limit, CutIn(b, ptr, <<>>, limit)
      PROVE  FALSE
  BY <1>2, NotInNothing
<1>3. <<>> \in Seq(Nat)
  OBVIOUS
<1>4. CutField(type, m, x, <<>>, {})
  BY <1>2, <1>3, Zenon DEF CutField
<1> QED BY <1>1, <1>4, Zenon DEF FieldOrCut

\* A list of which some first ones are those of the other list; the last one need not be.
ListBegins(l, list) ==
  /\ IsList(l) /\ Len(l) <= Len(list)
  /\ \A i \in 1 .. Len(l) - 1 : l[i] = list[i]

\* What can be read of a message that the buffer ends in.
TransactionCut(q, m) ==
  /\ ListBegins(q.transaction_inputs, m.transaction_inputs)
  /\ ListBegins(q.transaction_outputs, m.transaction_outputs)
  /\ q.transaction_outputs # <<>> => q.transaction_inputs = m.transaction_inputs

CoinCut(q, m) ==
  /\ q.utxo \in Seq(Nat)
  /\ \/ q.public_keys = <<>>
     \/ q.version = m.version /\ q.utxo = m.utxo /\ q.amounts = m.amounts

BlockCut(q, m) ==
  LET n == Len(q.transactions) IN
  /\ ListBegins(q.transactions, m.transactions)
  /\ q.transactions # <<>> =>
       /\ q.block_header = m.block_header
       /\ \/ q.transactions[n] = m.transactions[n]
          \/ TransactionCut(q.transactions[n], m.transactions[n])

UndoBlockCut(q, m) ==
  LET n == Len(q.undo_coin_records) IN
  /\ q.transaction_hashes \in Seq(Nat) /\ ListBegins(q.undo_coin_records, m.undo_coin_records)
  /\ q.undo_coin_records # <<>> =>
       /\ q.transaction_hashes = m.transaction_hashes
       /\ \/ q.undo_coin_records[n] = m.undo_coin_records[n]
          \/ CoinCut(q.undo_coin_records[n], m.undo_coin_records[n])

CutOf(type, q, m) ==
  /\ type = "PTransaction" => TransactionCut(q, m)
  /\ type = "PBlock" => BlockCut(q, m)
  /\ type = "PUndoCoinRecord" => CoinCut(q, m)
  /\ type = "PUndoBlock" => UndoBlockCut(q, m)

\* All that is read of a message in a buffer that ends in it.
AreCuts(type, s, m, M) ==
  CutParses(type, s, M) /\ Cleared[type] \in M /\ \A q \in M : CutOf(type, q, m)

Cuts(type, s, m) == CHOOSE M : AreCuts(type, s, m, M)

ParsesOrCut(type, s, m) == Parses(type, s, m) /\ \E M : AreCuts(type, s, m, M)

\* The messages of a list; each is read, or one of its cuts.
AllParseOrCut(type, list, written) ==
  /\ AllParse(type, list, written)
  /\ \A k \in 1 .. Len(list) : ParsesOrCut(type, written[k], list[k])

\* A list that begins like the other one, with a message that is a cut of its own at the end.
MessagesBegin(type, l, list) ==
  /\ ListBegins(l, list)
  /\ l # <<>> => l[Len(l)] = list[Len(l)] \/ CutOf(type, l[Len(l)], list[Len(l)])

LEMMA ListBeginsIs ==
  ASSUME NEW list, IsList(list), NEW k \in 0 .. Len(list) - 1, NEW upto, upto = SubSeq(list, 1, k)
  PROVE  /\ IsList(upto) /\ Len(upto) = k /\ Len(list) \in Nat
         /\ \A i \in 1 .. k : upto[i] = list[i]
<1>1. PICK S : list \in Seq(S)
  BY DEF IsList
<1>2. Len(list) \in Nat
  BY <1>1, LenProperties
<1>3. upto = [i \in 1 .. k |-> list[i]]
  BY <1>1, <1>2
<1>4. \A i \in 1 .. k : list[i] \in S
  BY <1>1, <1>2, ElementOfSeq
<1>5. upto \in Seq(S) /\ Len(upto) = k
  BY <1>2, <1>3, <1>4
<1> QED BY <1>2, <1>3, <1>5 DEF IsList

\* The first k of a list, and these with another one at the end.
AreFirst(upto, list, k) ==
  /\ ListBegins(upto, list)
  /\ upto # <<>> => upto[Len(upto)] = list[Len(upto)]
  /\ \A q : /\ ListBegins(Append(upto, q), list) /\ Append(upto, q) # <<>>
            /\ Len(Append(upto, q)) = k + 1 /\ Append(upto, q)[k + 1] = q

\* The first messages of a list, and another one at its end, begin like the list.
LEMMA ListBegun ==
  ASSUME NEW list, IsList(list), NEW k \in 0 .. Len(list) - 1, NEW upto, upto = SubSeq(list, 1, k)
  PROVE  AreFirst(upto, list, k)
<1>1. /\ IsList(upto) /\ Len(upto) = k /\ Len(list) \in Nat
      /\ \A i \in 1 .. k : upto[i] = list[i]
  BY ListBeginsIs
<1>2. ListBegins(upto, list)
  BY <1>1 DEF ListBegins
<1>3. upto # <<>> => upto[Len(upto)] = list[Len(upto)]
  <2> HAVE upto # <<>>
  <2>1. k # 0
    <3>1. PICK S : upto \in Seq(S)
      BY <1>1 DEF IsList
    <3> QED BY <1>1, <3>1, EmptySeq
  <2> QED BY <1>1, <2>1
<1>4. ASSUME NEW q
      PROVE  /\ ListBegins(Append(upto, q), list) /\ Append(upto, q) # <<>>
             /\ Len(Append(upto, q)) = k + 1 /\ Append(upto, q)[k + 1] = q
  <2> DEFINE all == Append(upto, q)
  <2>1. PICK S : upto \in Seq(S)
    BY <1>1 DEF IsList
  <2> DEFINE T == S \cup {q}
  <2>2. upto \in Seq(T) /\ q \in T
    BY <2>1
  <2> HIDE DEF T
  <2>3. /\ all \in Seq(T) /\ Len(all) = Len(upto) + 1 /\ all[Len(upto) + 1] = q
        /\ \A i \in 1 .. Len(upto) : all[i] = upto[i]
    BY <2>2, AppendProperties
  <2> HIDE DEF all
  <2>4. IsList(all) /\ Len(all) = k + 1 /\ all[k + 1] = q
    BY <1>1, <2>3 DEF IsList
  <2>5. \A i \in 1 .. (k + 1) - 1 : all[i] = list[i]
    BY <1>1, <2>3
  <2>6. k + 1 <= Len(list)
    BY <1>1
  <2>7. ListBegins(all, list)
    BY <2>4, <2>5, <2>6 DEF ListBegins
  <2>8. all # <<>>
    <3>1. Len(<<>>) = 0 /\ k + 1 # 0
      BY <1>1
    <3> QED BY <2>4, <3>1
  <2> QED BY <2>4, <2>7, <2>8 DEF all
<1> QED BY <1>2, <1>3, <1>4 DEF AreFirst

LEMMA CutsAre ==
  ASSUME NEW type, NEW s, NEW m, ParsesOrCut(type, s, m)
  PROVE  AreCuts(type, s, m, Cuts(type, s, m))
BY DEF ParsesOrCut, Cuts

\* A member that is a list of messages.
LEMMA NestedOrCut ==
  ASSUME NEW type, NEW m, NEW number, NEW x, NEW sub, NestedField(type, m, number, x, sub),
         NEW list, list = m[x], NEW written, NEW n, NEW whole, NEW size,
         ListOf(number, n, written, whole, size), AllParseOrCut(sub, list, written)
  PROVE  \E V : FieldOrCut(type, m, x, whole, V) /\ \A l \in V : MessagesBegin(sub, l, list)
<1> DEFINE cuts == [k \in 1 .. Len(list) |-> Cuts(sub, written[k], list[k])]
           V == CutLists(list, cuts)
<1>1. IsList(list) /\ AllParse(sub, list, written)
  BY DEF AllParseOrCut, AllParse
<1>2. ASSUME NEW k \in 1 .. Len(list)
      PROVE  AreCuts(sub, written[k], list[k], cuts[k])
  <2> DEFINE w == written[k]
             e == list[k]
  <2>1. ParsesOrCut(sub, w, e)
    BY DEF AllParseOrCut
  <2>2. cuts[k] = Cuts(sub, w, e)
    OBVIOUS
  <2> HIDE DEF cuts, w, e
  <2>3. AreCuts(sub, w, e, cuts[k])
    BY <2>1, <2>2, CutsAre
  <2> QED BY <2>3 DEF w, e
<1> HIDE DEF cuts
<1>3. AllCut(sub, list, written, cuts)
  BY <1>1, <1>2 DEF AllCut, AreCuts
<1>4. FieldOrCut(type, m, x, whole, V)
  BY <1>3, NestedCut
<1>5. ASSUME NEW l \in V PROVE MessagesBegin(sub, l, list)
  <2>1. PICK k \in 0 .. Len(list) - 1 :
          l \in {SubSeq(list, 1, k)} \cup {Append(SubSeq(list, 1, k), q) : q \in cuts[k + 1]}
    BY DEF CutLists
  <2> DEFINE upto == SubSeq(list, 1, k)
             M == cuts[k + 1]
  <2>2. l = upto \/ \E q \in M : l = Append(upto, q)
    BY <2>1
  <2>3. /\ ListBegins(upto, list)
        /\ upto # <<>> => upto[Len(upto)] = list[Len(upto)]
        /\ \A q : /\ ListBegins(Append(upto, q), list) /\ Append(upto, q) # <<>>
                  /\ Len(Append(upto, q)) = k + 1 /\ Append(upto, q)[k + 1] = q
    <3>1. upto = SubSeq(list, 1, k)
      OBVIOUS
    <3> HIDE DEF upto, V
    <3>2. AreFirst(upto, list, k)
      BY <1>1, <3>1, ListBegun
    <3> QED BY <3>2 DEF AreFirst
  <2>4. \A q \in M : CutOf(sub, q, list[k + 1])
    <3>1. k + 1 \in 1 .. Len(list)
      <4>1. Len(list) \in Nat
        BY <1>1, LenProperties DEF IsList
      <4> QED BY <4>1
    <3> QED BY <1>2, <3>1 DEF AreCuts
  <2> HIDE DEF upto, M, V
  <2>5. CASE l = upto
    <3>1. ListBegins(l, list) /\ (l # <<>> => l[Len(l)] = list[Len(l)])
      BY <2>3, <2>5
    <3> QED BY <3>1, Zenon DEF MessagesBegin
  <2>6. ASSUME NEW q \in M, l = Append(upto, q) PROVE MessagesBegin(sub, l, list)
    <3>1. ListBegins(l, list) /\ Len(l) = k + 1 /\ l[k + 1] = q
      BY <2>3, <2>6
    <3>2. CutOf(sub, l[Len(l)], list[Len(l)])
      BY <2>4, <3>1
    <3> QED BY <3>1, <3>2, Zenon DEF MessagesBegin
  <2> QED BY <2>2, <2>5, <2>6
<1> HIDE DEF V
<1> QED BY <1>4, <1>5

\* What the members are when the buffer ends in one of them.
LEMMA CutMemberIs ==
  ASSUME NEW type, NEW m, NEW X, NEW x, x \in DOMAIN m, NEW V, NEW q \in CutMember(type, m, X, x, V)
  PROVE  /\ q[x] \in V
         /\ \A y \in DOMAIN m : y # x => q[y] = IF y \in X THEN m[y] ELSE Cleared[type][y]
BY DEF CutMember, With, Partly

\* Members: read as they were written, or the message is a cut of m.
MembersOrCut(type, m, X, s) ==
  \E M : ReadOrCut(type, m, X, s, M) /\ \A q \in M : CutOf(type, q, m)

\* The same for another member, behind those in X.
MemberOrCut(type, m, X, x, s) ==
  \E V : FieldOrCut(type, m, x, s, V) /\ \A q \in CutMember(type, m, X, x, V) : CutOf(type, q, m)

\* The types of which nothing is told.
PlainType(type) == type \notin {"PTransaction", "PBlock", "PUndoCoinRecord", "PUndoBlock"}

LEMMA PlainCut ==
  ASSUME NEW type, PlainType(type), NEW q, NEW m
  PROVE  CutOf(type, q, m)
BY DEF PlainType, CutOf

LEMMA MembersBegin ==
  ASSUME NEW type, NEW m, OfType(type, m), NEW x, NEW s, MemberOrCut(type, m, {}, x, s)
  PROVE  MembersOrCut(type, m, {x}, s)
<1> DEFINE N(V) == CutMember(type, m, {}, x, V)
<1>1. PICK V : FieldOrCut(type, m, x, s, V) /\ \A q \in N(V) : CutOf(type, q, m)
  BY DEF MemberOrCut
<1>2. ReadOrCut(type, m, {x}, s, N(V))
  BY <1>1, FirstMember
<1> HIDE DEF N
<1> QED BY <1>1, <1>2 DEF MembersOrCut

LEMMA MembersNext ==
  ASSUME NEW type, NEW m, OfType(type, m), NEW X, NEW s, MembersOrCut(type, m, X, s),
         NEW x, NEW t, MemberOrCut(type, m, X, x, t), x \notin X, NEW Y, Y = X \cup {x}
  PROVE  MembersOrCut(type, m, Y, s \o t)
<1> DEFINE N(V) == CutMember(type, m, X, x, V)
<1>1. PICK V : FieldOrCut(type, m, x, t, V) /\ \A q \in N(V) : CutOf(type, q, m)
  BY DEF MemberOrCut
<1>2. PICK M : ReadOrCut(type, m, X, s, M) /\ \A q \in M : CutOf(type, q, m)
  BY DEF MembersOrCut
<1>3. ReadOrCut(type, m, Y, s \o t, M \cup N(V))
  BY <1>1, <1>2, NextMember
<1> HIDE DEF N
<1>4. \A q \in M \cup N(V) : CutOf(type, q, m)
  BY <1>1, <1>2
<1> QED BY <1>3, <1>4 DEF MembersOrCut

\* A message of which all members are read, or the buffer ends in one of them.
LEMMA AllMembersCut ==
  ASSUME NEW type, NEW m, OfType(type, m), NEW X, X = DOMAIN m, NEW s,
         MembersOrCut(type, m, X, s), CutOf(type, Cleared[type], m)
  PROVE  ParsesOrCut(type, s, m)
<1>1. PICK M : ReadOrCut(type, m, X, s, M) /\ \A q \in M : CutOf(type, q, m)
  BY DEF MembersOrCut
<1>2. ReadAs(type, m, X, s) /\ CutParses(type, s, M)
  BY <1>1 DEF ReadOrCut
<1>3. Parses(type, s, m)
  BY <1>2, AllMembersRead
<1> DEFINE c == Cleared[type]
           N == M \cup {c}
<1>4. CutParses(type, s, N)
  <2>1. M \subseteq N
    OBVIOUS
  <2> HIDE DEF N
  <2> QED BY <1>2, <2>1 DEF CutParses
<1>5. c \in N /\ \A q \in N : CutOf(type, q, m)
  BY <1>1
<1> HIDE DEF N
<1>6. AreCuts(type, s, m, N)
  BY <1>4, <1>5, Zenon DEF AreCuts
<1> QED BY <1>3, <1>6 DEF ParsesOrCut

\* A number in a message of which nothing is told.
LEMMA PlainNumber ==
  ASSUME NEW type, PlainType(type), NEW m, NEW number, NEW x, NumberField(type, m, number, x),
         NEW n, n = m[x], NEW X
  PROVE  MemberOrCut(type, m, X, x, WriteUInt32(number, n))
<1>1. FieldOrCut(type, m, x, WriteUInt32(number, n), Nat)
  BY NumberCut
<1>2. \A q \in CutMember(type, m, X, x, Nat) : CutOf(type, q, m)
  BY PlainCut
<1> QED BY <1>1, <1>2, Zenon DEF MemberOrCut

-----------------------------------------------------------------------------
(* The messages: all of them are read, and cut, as they were written. *)

LEMMA BlockHeaderParses ==
  ASSUME NEW m \in PBlockHeaders
  PROVE  ParsesOrCut("PBlockHeader", PBlockHeader_InternalSerialize(m), m)
<1> DEFINE type == "PBlockHeader"
           v1 == m.version
           v2 == m.previous_block_hash
           v3 == m.merkle_root
           v4 == m.difficulty_target
           v5 == m.nonce
           v6 == m.timestamp
<1>1. /\ DOMAIN m = {"version", "previous_block_hash", "merkle_root", "difficulty_target",
                     "nonce", "timestamp"}
      /\ m = [x \in DOMAIN m |-> m[x]] /\ v1 \in UInt32Type /\ v2 \in UInt32Type
      /\ v3 \in UInt32Type /\ v4 \in UInt32Type /\ v5 \in UInt32Type /\ v6 \in UInt32Type
  BY DEF PBlockHeaders
<1>2. Cleared[type] = PBlockHeader_Clear
  BY DEF Cleared
<1>3. OfType(type, m) /\ PlainType(type)
  BY <1>1, <1>2 DEF OfType, PBlockHeader_Clear, PlainType
<1>4. /\ FieldOf(type, 8 * 1) = UInt32("version")
      /\ FieldOf(type, 8 * 2) = UInt32("previous_block_hash")
      /\ FieldOf(type, 8 * 3) = UInt32("merkle_root")
      /\ FieldOf(type, 8 * 4) = UInt32("difficulty_target")
      /\ FieldOf(type, 8 * 5) = UInt32("nonce")
      /\ FieldOf(type, 8 * 6) = UInt32("timestamp")
  BY DEF FieldOf, PBlockHeader_InternalParse
<1>5. /\ NumberField(type, m, 1, "version") /\ NumberField(type, m, 2, "previous_block_hash")
      /\ NumberField(type, m, 3, "merkle_root") /\ NumberField(type, m, 4, "difficulty_target")
      /\ NumberField(type, m, 5, "nonce") /\ NumberField(type, m, 6, "timestamp")
  BY <1>1, <1>2, <1>4 DEF NumberField, PBlockHeader_Clear
<1> HIDE DEF type
<1> DEFINE w1 == WriteUInt32(1, v1)
           w2 == WriteUInt32(2, v2)
           w3 == WriteUInt32(3, v3)
           w4 == WriteUInt32(4, v4)
           w5 == WriteUInt32(5, v5)
           w6 == WriteUInt32(6, v6)
           X1 == {"version"}
           X2 == X1 \cup {"previous_block_hash"}
           X3 == X2 \cup {"merkle_root"}
           X4 == X3 \cup {"difficulty_target"}
           X5 == X4 \cup {"nonce"}
           X6 == X5 \cup {"timestamp"}
<1>6. \A X : /\ MemberOrCut(type, m, X, "version", w1)
             /\ MemberOrCut(type, m, X, "previous_block_hash", w2)
             /\ MemberOrCut(type, m, X, "merkle_root", w3)
             /\ MemberOrCut(type, m, X, "difficulty_target", w4)
             /\ MemberOrCut(type, m, X, "nonce", w5)
             /\ MemberOrCut(type, m, X, "timestamp", w6)
  BY <1>3, <1>5, PlainNumber
<1>7. PBlockHeader_InternalSerialize(m) = w1 \o w2 \o w3 \o w4 \o w5 \o w6
  BY DEF PBlockHeader_InternalSerialize
<1> HIDE DEF w1, w2, w3, w4, w5, w6
<1>8. MembersOrCut(type, m, X1, w1)
  BY <1>3, <1>6, MembersBegin
<1>9. MembersOrCut(type, m, X2, w1 \o w2)
  BY <1>3, <1>6, <1>8, MembersNext
<1>10. MembersOrCut(type, m, X3, w1 \o w2 \o w3)
  BY <1>3, <1>6, <1>9, MembersNext
<1>11. MembersOrCut(type, m, X4, w1 \o w2 \o w3 \o w4)
  BY <1>3, <1>6, <1>10, MembersNext
<1>12. MembersOrCut(type, m, X5, w1 \o w2 \o w3 \o w4 \o w5)
  BY <1>3, <1>6, <1>11, MembersNext
<1>13. MembersOrCut(type, m, X6, w1 \o w2 \o w3 \o w4 \o w5 \o w6)
  BY <1>3, <1>6, <1>12, MembersNext
<1>14. X6 = DOMAIN m /\ CutOf(type, Cleared[type], m)
  BY <1>1, <1>3, PlainCut
<1> HIDE DEF X6
<1> QED BY <1>3, <1>7, <1>13, <1>14, AllMembersCut DEF type

LEMMA TransactionInputParses ==
  ASSUME NEW m \in PTransactionInputs
  PROVE  ParsesOrCut("PTransactionInput", PTransactionInput_InternalSerialize(m), m)
<1> DEFINE type == "PTransactionInput"
           v1 == m.reference_transaction_hash
           v2 == m.utxo_index
           v3 == m.signature
<1>1. /\ DOMAIN m = {"reference_transaction_hash", "utxo_index", "signature"}
      /\ m = [x \in DOMAIN m |-> m[x]] /\ v1 \in UInt32Type /\ v2 \in UInt32Type
      /\ v3 \in UInt32Type
  BY DEF PTransactionInputs
<1>2. Cleared[type] = PTransactionInput_Clear
  BY DEF Cleared
<1>3. OfType(type, m) /\ PlainType(type)
  BY <1>1, <1>2 DEF OfType, PTransactionInput_Clear, PlainType
<1>4. /\ FieldOf(type, 8 * 1) = UInt32("reference_transaction_hash")
      /\ FieldOf(type, 8 * 2) = UInt32("utxo_index")
      /\ FieldOf(type, 8 * 3) = UInt32("signature")
  BY DEF FieldOf, PTransactionInput_InternalParse
<1>5. /\ NumberField(type, m, 1, "reference_transaction_hash")
      /\ NumberField(type, m, 2, "utxo_index") /\ NumberField(type, m, 3, "signature")
  BY <1>1, <1>2, <1>4 DEF NumberField, PTransactionInput_Clear
<1> HIDE DEF type
<1> DEFINE w1 == WriteUInt32(1, v1)
           w2 == WriteUInt32(2, v2)
           w3 == WriteUInt32(3, v3)
           X1 == {"reference_transaction_hash"}
           X2 == X1 \cup {"utxo_index"}
           X3 == X2 \cup {"signature"}
<1>6. \A X : /\ MemberOrCut(type, m, X, "reference_transaction_hash", w1)
             /\ MemberOrCut(type, m, X, "utxo_index", w2)
             /\ MemberOrCut(type, m, X, "signature", w3)
  BY <1>3, <1>5, PlainNumber
<1>7. PTransactionInput_InternalSerialize(m) = w1 \o w2 \o w3
  BY DEF PTransactionInput_InternalSerialize
<1> HIDE DEF w1, w2, w3
<1>8. MembersOrCut(type, m, X1, w1)
  BY <1>3, <1>6, MembersBegin
<1>9. MembersOrCut(type, m, X2, w1 \o w2)
  BY <1>3, <1>6, <1>8, MembersNext
<1>10. MembersOrCut(type, m, X3, w1 \o w2 \o w3)
  BY <1>3, <1>6, <1>9, MembersNext
<1>11. X3 = DOMAIN m /\ CutOf(type, Cleared[type], m)
  BY <1>1, <1>3, PlainCut
<1> HIDE DEF X3
<1> QED BY <1>3, <1>7, <1>10, <1>11, AllMembersCut DEF type

LEMMA TransactionOutputParses ==
  ASSUME NEW m \in PTransactionOutputs
  PROVE  ParsesOrCut("PTransactionOutput", PTransactionOutput_InternalSerialize(m), m)
<1> DEFINE type == "PTransactionOutput"
           v1 == m.amount
           v2 == m.public_key
<1>1. /\ DOMAIN m = {"amount", "public_key"} /\ m = [x \in DOMAIN m |-> m[x]]
      /\ v1 \in UInt32Type /\ v2 \in UInt32Type
  BY DEF PTransactionOutputs
<1>2. Cleared[type] = PTransactionOutput_Clear
  BY DEF Cleared
<1>3. OfType(type, m) /\ PlainType(type)
  BY <1>1, <1>2 DEF OfType, PTransactionOutput_Clear, PlainType
<1>4. FieldOf(type, 8 * 1) = UInt32("amount") /\ FieldOf(type, 8 * 2) = UInt32("public_key")
  BY DEF FieldOf, PTransactionOutput_InternalParse
<1>5. NumberField(type, m, 1, "amount") /\ NumberField(type, m, 2, "public_key")
  BY <1>1, <1>2, <1>4 DEF NumberField, PTransactionOutput_Clear
<1> HIDE DEF type
<1> DEFINE w1 == WriteUInt32(1, v1)
           w2 == WriteUInt32(2, v2)
           X1 == {"amount"}
           X2 == X1 \cup {"public_key"}
<1>6. \A X : MemberOrCut(type, m, X, "amount", w1) /\ MemberOrCut(type, m, X, "public_key", w2)
  BY <1>3, <1>5, PlainNumber
<1>7. PTransactionOutput_InternalSerialize(m) = w1 \o w2
  BY DEF PTransactionOutput_InternalSerialize
<1> HIDE DEF w1, w2
<1>8. MembersOrCut(type, m, X1, w1)
  BY <1>3, <1>6, MembersBegin
<1>9. MembersOrCut(type, m, X2, w1 \o w2)
  BY <1>3, <1>6, <1>8, MembersNext
<1>10. X2 = DOMAIN m /\ CutOf(type, Cleared[type], m)
  BY <1>1, <1>3, PlainCut
<1> HIDE DEF X2
<1> QED BY <1>3, <1>7, <1>9, <1>10, AllMembersCut DEF type

\* What is parsed or cut is parsed.
LEMMA AllParsed ==
  ASSUME NEW type, NEW list, NEW written, IsList(list), written \in Seq(Seq(Nat)),
         Len(written) = Len(list), \A k \in 1 .. Len(list) : ParsesOrCut(type, written[k], list[k])
  PROVE  AllParseOrCut(type, list, written)
BY DEF AllParseOrCut, AllParse, ParsesOrCut

LEMMA ListsParse ==
  /\ \A list \in Seq(PBlockHeaders) : AllParseOrCut("PBlockHeader", list, HeadersWritten(list))
  /\ \A list \in Seq(PTransactionInputs) :
       AllParseOrCut("PTransactionInput", list, InputsWritten(list))
  /\ \A list \in Seq(PTransactionOutputs) :
       AllParseOrCut("PTransactionOutput", list, OutputsWritten(list))
<1>1. ASSUME NEW list \in Seq(PBlockHeaders)
      PROVE  AllParseOrCut("PBlockHeader", list, HeadersWritten(list))
  <2>1. HeadersWritten(list) \in Seq(Seq(Nat)) /\ Len(HeadersWritten(list)) = Len(list)
    <3>1. 1 \in Nat
      OBVIOUS
    <3> QED BY <3>1, HeaderList DEF ListOf
  <2>2. DOMAIN list = 1 .. Len(list) /\ \A k \in 1 .. Len(list) : list[k] \in PBlockHeaders
    BY LenProperties, ElementOfSeq
  <2>3. \A k \in 1 .. Len(list) : ParsesOrCut("PBlockHeader", HeadersWritten(list)[k], list[k])
    BY <2>2, BlockHeaderParses DEF HeadersWritten
  <2>4. IsList(list)
    BY DEF IsList
  <2> QED BY <2>1, <2>3, <2>4, AllParsed
<1>2. ASSUME NEW list \in Seq(PTransactionInputs)
      PROVE  AllParseOrCut("PTransactionInput", list, InputsWritten(list))
  <2>1. InputsWritten(list) \in Seq(Seq(Nat)) /\ Len(InputsWritten(list)) = Len(list)
    <3>1. 1 \in Nat
      OBVIOUS
    <3> QED BY <3>1, InputList DEF ListOf
  <2>2. DOMAIN list = 1 .. Len(list) /\ \A k \in 1 .. Len(list) : list[k] \in PTransactionInputs
    BY LenProperties, ElementOfSeq
  <2>3. \A k \in 1 .. Len(list) : ParsesOrCut("PTransactionInput", InputsWritten(list)[k], list[k])
    BY <2>2, TransactionInputParses DEF InputsWritten
  <2>4. IsList(list)
    BY DEF IsList
  <2> QED BY <2>1, <2>3, <2>4, AllParsed
<1>3. ASSUME NEW list \in Seq(PTransactionOutputs)
      PROVE  AllParseOrCut("PTransactionOutput", list, OutputsWritten(list))
  <2>1. OutputsWritten(list) \in Seq(Seq(Nat)) /\ Len(OutputsWritten(list)) = Len(list)
    <3>1. 1 \in Nat
      OBVIOUS
    <3> QED BY <3>1, OutputList DEF ListOf
  <2>2. DOMAIN list = 1 .. Len(list) /\ \A k \in 1 .. Len(list) : list[k] \in PTransactionOutputs
    BY LenProperties, ElementOfSeq
  <2>3. \A k \in 1 .. Len(list) : ParsesOrCut("PTransactionOutput", OutputsWritten(list)[k], list[k])
    BY <2>2, TransactionOutputParses DEF OutputsWritten
  <2>4. IsList(list)
    BY DEF IsList
  <2> QED BY <2>1, <2>3, <2>4, AllParsed
<1> QED BY <1>1, <1>2, <1>3

LEMMA ListBeginsItself ==
  ASSUME NEW list, IsList(list)
  PROVE  ListBegins(list, list) /\ ListBegins(<<>>, list)
<1>1. Len(list) \in Nat /\ Len(<<>>) = 0 /\ IsList(<<>>)
  BY LenProperties, EmptySeq DEF IsList
<1> QED BY <1>1 DEF ListBegins

LEMMA TransactionParses ==
  ASSUME NEW m \in PTransactions
  PROVE  ParsesOrCut("PTransaction", PTransaction_InternalSerialize(m), m)
<1> DEFINE type == "PTransaction"
           v1 == m.version
           v2 == m.transaction_inputs
           v3 == m.transaction_outputs
           v4 == m.lock_time
           w1 == WriteUInt32(1, v1)
           w2 == WriteMessages(2, v2,
                   PTransactionInput_ByteSizeLong, PTransactionInput_InternalSerialize)
           w3 == WriteMessages(3, v3,
                   PTransactionOutput_ByteSizeLong, PTransactionOutput_InternalSerialize)
           w4 == WriteUInt32(4, v4)
           X1 == {"version"}
           X2 == X1 \cup {"transaction_inputs"}
           X3 == X2 \cup {"transaction_outputs"}
           X4 == X3 \cup {"lock_time"}
<1>1. /\ DOMAIN m = {"version", "transaction_inputs", "transaction_outputs", "lock_time"}
      /\ m = [x \in DOMAIN m |-> m[x]] /\ v1 \in UInt32Type /\ v4 \in UInt32Type
      /\ v2 \in Seq(PTransactionInputs) /\ v3 \in Seq(PTransactionOutputs)
  BY DEF PTransactions
<1>2. Cleared[type] = PTransaction_Clear
  BY DEF Cleared
<1>3. OfType(type, m)
  BY <1>1, <1>2 DEF OfType, PTransaction_Clear
<1>4. /\ FieldOf(type, 8 * 1) = UInt32("version")
      /\ FieldOf(type, 8 * 2 + 2) = Messages("PTransactionInput", "transaction_inputs")
      /\ FieldOf(type, 8 * 3 + 2) = Messages("PTransactionOutput", "transaction_outputs")
      /\ FieldOf(type, 8 * 4) = UInt32("lock_time")
  BY DEF FieldOf, PTransaction_InternalParse
<1>5. NumberField(type, m, 1, "version") /\ NumberField(type, m, 4, "lock_time")
  BY <1>1, <1>2, <1>4 DEF NumberField, PTransaction_Clear
<1>6. /\ NestedField(type, m, 2, "transaction_inputs", "PTransactionInput")
      /\ NestedField(type, m, 3, "transaction_outputs", "PTransactionOutput")
  <2>1. /\ ListField(FieldOf(type, 8 * 2 + 2), "PTransactionInput", "transaction_inputs", v2)
        /\ ListField(FieldOf(type, 8 * 3 + 2), "PTransactionOutput", "transaction_outputs", v3)
    BY <1>4, ListFields
  <2> QED BY <1>1, <1>2, <2>1 DEF NestedField, PTransaction_Clear
<1>7. /\ ListOf(2, Len(v2), InputsWritten(v2), w2, SizeOfMessages(v2, PTransactionInput_ByteSizeLong))
      /\ ListOf(3, Len(v3), OutputsWritten(v3), w3, SizeOfMessages(v3, PTransactionOutput_ByteSizeLong))
  BY <1>1, InputList, OutputList
<1>8. PTransaction_InternalSerialize(m) = w1 \o w2 \o w3 \o w4
  BY DEF PTransaction_InternalSerialize
<1>9. /\ AllParseOrCut("PTransactionInput", v2, InputsWritten(v2))
      /\ AllParseOrCut("PTransactionOutput", v3, OutputsWritten(v3))
  BY <1>1, ListsParse
<1>10. /\ ListBegins(v2, v2) /\ ListBegins(<<>>, v2) /\ ListBegins(v3, v3) /\ ListBegins(<<>>, v3)
  BY <1>1, ListBeginsItself DEF IsList
<1>11. Cleared[type].transaction_inputs = <<>> /\ Cleared[type].transaction_outputs = <<>>
  BY <1>2 DEF PTransaction_Clear
<1>12. CutOf(type, Cleared[type], m)
  BY <1>10, <1>11 DEF CutOf, TransactionCut
<1>13. MemberOrCut(type, m, {}, "version", w1)
  <2>1. FieldOrCut(type, m, "version", w1, Nat)
    BY <1>5, NumberCut
  <2>2. ASSUME NEW q \in CutMember(type, m, {}, "version", Nat) PROVE CutOf(type, q, m)
    <3>1. q.transaction_inputs = <<>> /\ q.transaction_outputs = <<>>
      <4>1. "version" \in DOMAIN m
        BY <1>1
      <4> DEFINE V == Nat
      <4>2. q \in CutMember(type, m, {}, "version", V)
        OBVIOUS
      <4> HIDE DEF type, V
      <4>3. \A y \in DOMAIN m : y # "version" =>
              q[y] = IF y \in {} THEN m[y] ELSE Cleared[type][y]
        BY <4>1, <4>2, CutMemberIs
      <4> QED BY <1>1, <4>3, <1>11
    <3> QED BY <1>10, <3>1 DEF CutOf, TransactionCut
  <2> HIDE DEF type, w1
  <2> QED BY <2>1, <2>2, Zenon DEF MemberOrCut
<1> DEFINE k2 == SizeOfMessages(v2, PTransactionInput_ByteSizeLong)
           k3 == SizeOfMessages(v3, PTransactionOutput_ByteSizeLong)
<1> HIDE DEF w1, w2, w3, w4, k2, k3
<1>14. MemberOrCut(type, m, X1, "transaction_inputs", w2)
  <2>1. PICK V : /\ FieldOrCut(type, m, "transaction_inputs", w2, V)
                 /\ \A l \in V : MessagesBegin("PTransactionInput", l, v2)
    <3>1. ListOf(2, Len(v2), InputsWritten(v2), w2, k2)
      BY <1>7 DEF k2
    <3> HIDE DEF type
    <3> QED BY <1>6, <1>9, <3>1, NestedOrCut
  <2>2. ASSUME NEW q \in CutMember(type, m, X1, "transaction_inputs", V) PROVE CutOf(type, q, m)
    <3>1. q.transaction_inputs \in V /\ q.transaction_outputs = <<>>
      <4>1. "transaction_inputs" \in DOMAIN m
        BY <1>1
      <4> HIDE DEF type, X1
      <4>2. /\ q["transaction_inputs"] \in V
            /\ \A y \in DOMAIN m : y # "transaction_inputs" =>
                 q[y] = IF y \in X1 THEN m[y] ELSE Cleared[type][y]
        BY <4>1, CutMemberIs
      <4> QED BY <1>1, <4>2, <1>11 DEF X1
    <3>2. ListBegins(q.transaction_inputs, v2)
      BY <2>1, <3>1 DEF MessagesBegin
    <3> QED BY <1>10, <3>1, <3>2 DEF CutOf, TransactionCut
  <2> HIDE DEF type, X1
  <2> QED BY <2>1, <2>2, Zenon DEF MemberOrCut
<1>15. MemberOrCut(type, m, X2, "transaction_outputs", w3)
  <2>1. PICK V : /\ FieldOrCut(type, m, "transaction_outputs", w3, V)
                 /\ \A l \in V : MessagesBegin("PTransactionOutput", l, v3)
    <3>1. ListOf(3, Len(v3), OutputsWritten(v3), w3, k3)
      BY <1>7 DEF k3
    <3> HIDE DEF type
    <3> QED BY <1>6, <1>9, <3>1, NestedOrCut
  <2>2. ASSUME NEW q \in CutMember(type, m, X2, "transaction_outputs", V) PROVE CutOf(type, q, m)
    <3>1. q.transaction_outputs \in V /\ q.transaction_inputs = v2
      <4>1. "transaction_outputs" \in DOMAIN m
        BY <1>1
      <4> HIDE DEF type, X2
      <4>2. /\ q["transaction_outputs"] \in V
            /\ \A y \in DOMAIN m : y # "transaction_outputs" =>
                 q[y] = IF y \in X2 THEN m[y] ELSE Cleared[type][y]
        BY <4>1, CutMemberIs
      <4> QED BY <1>1, <4>2 DEF X2
    <3>2. ListBegins(q.transaction_outputs, v3)
      BY <2>1, <3>1 DEF MessagesBegin
    <3> QED BY <1>10, <3>1, <3>2 DEF CutOf, TransactionCut
  <2> HIDE DEF type, X2
  <2> QED BY <2>1, <2>2, Zenon DEF MemberOrCut
<1>16. MemberOrCut(type, m, X3, "lock_time", w4)
  <2>1. FieldOrCut(type, m, "lock_time", w4, Nat)
    BY <1>5, NumberCut DEF w4
  <2>2. ASSUME NEW q \in CutMember(type, m, X3, "lock_time", Nat) PROVE CutOf(type, q, m)
    <3>1. q.transaction_inputs = v2 /\ q.transaction_outputs = v3
      <4>1. "lock_time" \in DOMAIN m
        BY <1>1
      <4> DEFINE V == Nat
      <4>2. q \in CutMember(type, m, X3, "lock_time", V)
        OBVIOUS
      <4> HIDE DEF type, V, X3
      <4>3. \A y \in DOMAIN m : y # "lock_time" =>
              q[y] = IF y \in X3 THEN m[y] ELSE Cleared[type][y]
        BY <4>1, <4>2, CutMemberIs
      <4> QED BY <1>1, <4>3 DEF X3
    <3> QED BY <1>10, <3>1 DEF CutOf, TransactionCut
  <2> HIDE DEF type, X3
  <2> QED BY <2>1, <2>2, Zenon DEF MemberOrCut
<1> HIDE DEF type
<1>17. MembersOrCut(type, m, X1, w1)
  BY <1>3, <1>13, MembersBegin
<1>18. MembersOrCut(type, m, X2, w1 \o w2)
  BY <1>3, <1>14, <1>17, MembersNext
<1>19. MembersOrCut(type, m, X3, w1 \o w2 \o w3)
  BY <1>3, <1>15, <1>18, MembersNext
<1>20. MembersOrCut(type, m, X4, w1 \o w2 \o w3 \o w4)
  BY <1>3, <1>16, <1>19, MembersNext
<1>21. X4 = DOMAIN m
  BY <1>1
<1> HIDE DEF X4
<1> QED BY <1>3, <1>8, <1>12, <1>20, <1>21, AllMembersCut DEF type

LEMMA TransactionsParse ==
  ASSUME NEW list \in Seq(PTransactions)
  PROVE  AllParseOrCut("PTransaction", list, TransactionsWritten(list))
<1>1. TransactionsWritten(list) \in Seq(Seq(Nat)) /\ Len(TransactionsWritten(list)) = Len(list)
  <2>1. 1 \in Nat
    OBVIOUS
  <2> QED BY <2>1, TransactionList DEF ListOf
<1>2. DOMAIN list = 1 .. Len(list) /\ \A k \in 1 .. Len(list) : list[k] \in PTransactions
  BY LenProperties, ElementOfSeq
<1>3. \A k \in 1 .. Len(list) : ParsesOrCut("PTransaction", TransactionsWritten(list)[k], list[k])
  BY <1>2, TransactionParses DEF TransactionsWritten
<1>4. IsList(list)
  BY DEF IsList
<1> QED BY <1>1, <1>3, <1>4, AllParsed

CoinType(type) == type \in {"PCoinRecord", "PUndoCoinRecord"}

\* A record is cut before its keys.
LEMMA CoinMemberCut ==
  ASSUME NEW type, CoinType(type), NEW m \in PCoinRecords, NEW x, x \in DOMAIN m, x # "public_keys",
         NEW X, "public_keys" \notin X, NEW V, x = "utxo" => V \subseteq Seq(Nat), NEW s,
         FieldOrCut(type, m, x, s, V)
  PROVE  MemberOrCut(type, m, X, x, s)
<1> DEFINE c == Cleared[type]
<1>1. /\ DOMAIN m = {"version", "is_coin_base", "height", "utxo", "amounts", "public_keys"}
      /\ m.utxo \in Seq(UInt32Type)
  BY DEF PCoinRecords
<1>2. m.utxo \in Seq(Nat) /\ <<>> \in Seq(Nat)
  <2> DEFINE l == m.utxo
  <2>1. l \in Seq(UInt32Type)
    BY <1>1
  <2> HIDE DEF l
  <2>2. l \in Seq(Nat)
    BY <2>1, UInt32Numbers
  <2> QED BY <2>2 DEF l
<1>3. c.utxo = <<>> /\ c.public_keys = <<>>
  BY DEF CoinType, Cleared, PUndoCoinRecord_Clear, PCoinRecord_Clear
<1>4. ASSUME NEW q \in CutMember(type, m, X, x, V) PROVE CutOf(type, q, m)
  <2> HIDE DEF c
  <2>1. /\ q[x] \in V
        /\ \A y \in DOMAIN m : y # x => q[y] = IF y \in X THEN m[y] ELSE c[y]
    BY CutMemberIs DEF c
  <2>2. q.public_keys = <<>>
    BY <1>1, <1>3, <2>1
  <2>3. q.utxo \in Seq(Nat)
    <3>1. CASE x = "utxo"
      BY <2>1, <3>1
    <3>2. CASE x # "utxo"
      <4>1. q.utxo = m.utxo \/ q.utxo = c.utxo
        BY <1>1, <2>1, <3>2
      <4> QED BY <1>2, <1>3, <4>1
    <3> QED BY <3>1, <3>2
  <2> QED BY <2>2, <2>3 DEF CutOf, CoinCut, CoinType
<1> QED BY <1>4, Zenon DEF MemberOrCut

LEMMA CoinRecordParses ==
  ASSUME NEW m \in PCoinRecords, NEW type, CoinType(type)
  PROVE  ParsesOrCut(type, PCoinRecord_InternalSerialize(m), m)
<1> DEFINE v1 == m.version
           v3 == m.height
           v4 == m.utxo
           v5 == m.amounts
           v6 == m.public_keys
           w1 == WriteUInt32(1, v1)
           w2 == WriteBool(2, m.is_coin_base)
           w3 == WriteUInt32(3, v3)
           w4 == WriteUInt32Packed(4, v4)
           w5 == WriteUInt32Packed(5, v5)
           w6 == WriteUInt32Packed(6, v6)
<1>1. /\ DOMAIN m = {"version", "is_coin_base", "height", "utxo", "amounts", "public_keys"}
      /\ m = [x \in DOMAIN m |-> m[x]] /\ v1 \in UInt32Type /\ m.is_coin_base = FALSE
      /\ v3 \in UInt32Type
      /\ v4 \in Seq(UInt32Type) /\ v5 \in Seq(UInt32Type) /\ v6 \in Seq(UInt32Type)
  BY DEF PCoinRecords
<1>2. Cleared[type] = PCoinRecord_Clear
  BY DEF Cleared, PUndoCoinRecord_Clear, CoinType
<1>3. OfType(type, m)
  BY <1>1, <1>2 DEF OfType, PCoinRecord_Clear
<1>4. /\ FieldOf(type, 8 * 1) = UInt32("version")
      /\ FieldOf(type, 8 * 3) = UInt32("height")
      /\ FieldOf(type, 8 * 4 + 2) = PackedUInt32("utxo")
      /\ FieldOf(type, 8 * 5 + 2) = PackedUInt32("amounts")
      /\ FieldOf(type, 8 * 6 + 2) = PackedUInt32("public_keys")
  <2>1. FieldOf(type, 8 * 1) = PCoinRecord_InternalParse(8)
    BY DEF FieldOf, PUndoCoinRecord_InternalParse, CoinType
  <2>2. FieldOf(type, 8 * 3) = PCoinRecord_InternalParse(24)
    BY DEF FieldOf, PUndoCoinRecord_InternalParse, CoinType
  <2>3. FieldOf(type, 8 * 4 + 2) = PCoinRecord_InternalParse(34)
    BY DEF FieldOf, PUndoCoinRecord_InternalParse, CoinType
  <2>4. FieldOf(type, 8 * 5 + 2) = PCoinRecord_InternalParse(42)
    BY DEF FieldOf, PUndoCoinRecord_InternalParse, CoinType
  <2>5. FieldOf(type, 8 * 6 + 2) = PCoinRecord_InternalParse(50)
    BY DEF FieldOf, PUndoCoinRecord_InternalParse, CoinType
  <2> QED BY <2>1, <2>2, <2>3, <2>4, <2>5 DEF PCoinRecord_InternalParse
<1>5. NumberField(type, m, 1, "version") /\ NumberField(type, m, 3, "height")
  BY <1>1, <1>2, <1>4 DEF NumberField, PCoinRecord_Clear
<1>6. /\ PackedField(type, m, 4, "utxo") /\ PackedField(type, m, 5, "amounts")
      /\ PackedField(type, m, 6, "public_keys")
  BY <1>1, <1>2, <1>4 DEF PackedField, PCoinRecord_Clear
<1>7. FieldOrCut(type, m, "is_coin_base", w2, {})
  <2>1. Member(type, m, "is_coin_base", m.is_coin_base, m.is_coin_base)
    <3>1. Cleared[type].is_coin_base = FALSE
      BY <1>2 DEF PCoinRecord_Clear
    <3>2. "is_coin_base" \in DOMAIN m /\ m.is_coin_base = FALSE
      BY <1>1
    <3> QED BY <3>1, <3>2, Zenon DEF Member
  <2>2. w2 = <<>>
    BY <1>1 DEF WriteBool
  <2> DEFINE flag == m.is_coin_base
  <2> HIDE DEF flag, w2
  <2>3. FieldOrCut(type, m, "is_coin_base", <<>>, {})
    BY <2>1, DefaultCut DEF flag
  <2> QED BY <2>2, <2>3
<1>8. PCoinRecord_InternalSerialize(m) = w1 \o w2 \o w3 \o w4 \o w5 \o w6
  BY DEF PCoinRecord_InternalSerialize
<1>9. FieldOrCut(type, m, "version", w1, Nat) /\ FieldOrCut(type, m, "height", w3, Nat)
  BY <1>5, NumberCut
<1> DEFINE N == Seq(Nat)
<1>10. /\ FieldOrCut(type, m, "utxo", w4, N) /\ FieldOrCut(type, m, "amounts", w5, N)
       /\ FieldOrCut(type, m, "public_keys", w6, N)
  BY <1>6, ListCut
<1> HIDE DEF w1, w2, w3, w4, w5, w6
<1> DEFINE X1 == {"version"}
           X2 == X1 \cup {"is_coin_base"}
           X3 == X2 \cup {"height"}
           X4 == X3 \cup {"utxo"}
           X5 == X4 \cup {"amounts"}
           X6 == X5 \cup {"public_keys"}
<1>11. /\ "version" \in DOMAIN m /\ "is_coin_base" \in DOMAIN m /\ "height" \in DOMAIN m
       /\ "utxo" \in DOMAIN m /\ "amounts" \in DOMAIN m
       /\ "public_keys" \notin {} /\ "public_keys" \notin X1 /\ "public_keys" \notin X2
       /\ "public_keys" \notin X3 /\ "public_keys" \notin X4 /\ N \subseteq Seq(Nat)
  BY <1>1
<1>12. /\ MemberOrCut(type, m, {}, "version", w1) /\ MemberOrCut(type, m, X1, "is_coin_base", w2)
       /\ MemberOrCut(type, m, X2, "height", w3) /\ MemberOrCut(type, m, X3, "utxo", w4)
       /\ MemberOrCut(type, m, X4, "amounts", w5)
  <2> HIDE DEF X1, X2, X3, X4, N
  <2>1. MemberOrCut(type, m, {}, "version", w1)
    BY <1>9, <1>11, CoinMemberCut
  <2>2. MemberOrCut(type, m, X1, "is_coin_base", w2)
    BY <1>7, <1>11, CoinMemberCut
  <2>3. MemberOrCut(type, m, X2, "height", w3)
    BY <1>9, <1>11, CoinMemberCut
  <2>4. MemberOrCut(type, m, X3, "utxo", w4)
    BY <1>10, <1>11, CoinMemberCut
  <2>5. MemberOrCut(type, m, X4, "amounts", w5)
    BY <1>10, <1>11, CoinMemberCut
  <2> QED BY <2>1, <2>2, <2>3, <2>4, <2>5
<1>13. MemberOrCut(type, m, X5, "public_keys", w6)
  <2>1. ASSUME NEW q \in CutMember(type, m, X5, "public_keys", N) PROVE CutOf(type, q, m)
    <3>1. q.version = m.version /\ q.utxo = m.utxo /\ q.amounts = m.amounts
      <4>1. "public_keys" \in DOMAIN m
        BY <1>1
      <4> HIDE DEF X5, N
      <4>2. \A y \in DOMAIN m : y # "public_keys" => q[y] = IF y \in X5 THEN m[y] ELSE Cleared[type][y]
        BY <4>1, CutMemberIs
      <4> QED BY <1>1, <4>2 DEF X5
    <3>2. q.utxo \in Seq(Nat)
      <4> DEFINE l == m.utxo
      <4>1. l \in Seq(UInt32Type) /\ q.utxo = l
        BY <1>1, <3>1
      <4> HIDE DEF l
      <4>2. l \in Seq(Nat)
        BY <4>1, UInt32Numbers
      <4> QED BY <4>1, <4>2
    <3> QED BY <3>1, <3>2 DEF CutOf, CoinCut, CoinType
  <2> HIDE DEF X5, N
  <2> QED BY <1>10, <2>1, Zenon DEF MemberOrCut
<1>14. CutOf(type, Cleared[type], m)
  <2>1. Cleared[type].utxo = <<>> /\ Cleared[type].public_keys = <<>> /\ <<>> \in Seq(Nat)
    BY <1>2 DEF PCoinRecord_Clear
  <2> QED BY <2>1 DEF CutOf, CoinCut, CoinType
<1>15. MembersOrCut(type, m, X1, w1)
  BY <1>3, <1>12, MembersBegin
<1>16. MembersOrCut(type, m, X2, w1 \o w2)
  BY <1>3, <1>12, <1>15, MembersNext
<1>17. MembersOrCut(type, m, X3, w1 \o w2 \o w3)
  BY <1>3, <1>12, <1>16, MembersNext
<1>18. MembersOrCut(type, m, X4, w1 \o w2 \o w3 \o w4)
  BY <1>3, <1>12, <1>17, MembersNext
<1>19. MembersOrCut(type, m, X5, w1 \o w2 \o w3 \o w4 \o w5)
  BY <1>3, <1>12, <1>18, MembersNext
<1>20. MembersOrCut(type, m, X6, w1 \o w2 \o w3 \o w4 \o w5 \o w6)
  BY <1>3, <1>13, <1>19, MembersNext
<1>21. X6 = DOMAIN m
  BY <1>1
<1> HIDE DEF X6
<1> QED BY <1>3, <1>8, <1>14, <1>20, <1>21, AllMembersCut

LEMMA CoinsParse ==
  ASSUME NEW list \in Seq(PCoinRecords)
  PROVE  AllParseOrCut("PUndoCoinRecord", list, CoinsWritten(list))
<1>1. CoinsWritten(list) \in Seq(Seq(Nat)) /\ Len(CoinsWritten(list)) = Len(list)
  <2>1. 1 \in Nat
    OBVIOUS
  <2> QED BY <2>1, CoinList DEF ListOf
<1>2. DOMAIN list = 1 .. Len(list) /\ \A k \in 1 .. Len(list) : list[k] \in PCoinRecords
  BY LenProperties, ElementOfSeq
<1>3. \A k \in 1 .. Len(list) : ParsesOrCut("PUndoCoinRecord", CoinsWritten(list)[k], list[k])
  <2>1. \A m \in PCoinRecords : ParsesOrCut("PUndoCoinRecord", PCoinRecord_InternalSerialize(m), m)
    BY CoinRecordParses DEF CoinType
  <2>2. \A k \in 1 .. Len(list) : CoinsWritten(list)[k] = PCoinRecord_InternalSerialize(list[k])
    BY <1>2 DEF CoinsWritten, PUndoCoinRecord_InternalSerialize
  <2> QED BY <1>2, <2>1, <2>2
<1>4. IsList(list)
  BY DEF IsList
<1> QED BY <1>1, <1>3, <1>4, AllParsed

\* A block all of whose transactions are there.
LEMMA BlockCutBehind ==
  ASSUME NEW q, NEW m, NEW list, IsList(list), m.transactions = list, q.transactions = list,
         q.block_header = m.block_header
  PROVE  CutOf("PBlock", q, m)
<1>1. ListBegins(list, list)
  BY ListBeginsItself
<1> QED BY <1>1 DEF CutOf, BlockCut

LEMMA BlockCutWithin ==
  ASSUME NEW q, NEW m, NEW list, m.transactions = list, NEW l, q.transactions = l,
         MessagesBegin("PTransaction", l, list), q.block_header = m.block_header
  PROVE  CutOf("PBlock", q, m)
<1>1. ListBegins(l, list)
  BY DEF MessagesBegin
<1>2. l # <<>> => l[Len(l)] = list[Len(l)] \/ TransactionCut(l[Len(l)], list[Len(l)])
  BY DEF MessagesBegin, CutOf
<1> QED BY <1>1, <1>2 DEF CutOf, BlockCut

LEMMA BlockCutBefore ==
  ASSUME NEW q, NEW m, NEW list, IsList(list), m.transactions = list, q.transactions = <<>>
  PROVE  CutOf("PBlock", q, m)
<1>1. ListBegins(<<>>, list)
  BY ListBeginsItself
<1> QED BY <1>1 DEF CutOf, BlockCut

LEMMA BlockParses ==
  ASSUME NEW m \in PBlocks, NEW header, header = m.block_header, Len(header) = 1
  PROVE  ParsesOrCut("PBlock", PBlock_InternalSerialize(m), m)
<1> DEFINE type == "PBlock"
           v1 == m.block_header
           v2 == m.transactions
           v3 == m.hash
           v4 == m.calculate_fees
           v5 == m.obtain_merkle_root
           w1 == WriteMessages(1, v1, PBlockHeader_ByteSizeLong, PBlockHeader_InternalSerialize)
           w2 == WriteMessages(2, v2, PTransaction_ByteSizeLong, PTransaction_InternalSerialize)
           w3 == WriteUInt32(3, v3)
           w4 == WriteUInt32(4, v4)
           w5 == WriteUInt32(5, v5)
           X1 == {"block_header"}
           X2 == X1 \cup {"transactions"}
           X3 == X2 \cup {"hash"}
           X4 == X3 \cup {"calculate_fees"}
           X5 == X4 \cup {"obtain_merkle_root"}
<1>1. /\ DOMAIN m = {"block_header", "transactions", "hash", "calculate_fees", "obtain_merkle_root"}
      /\ m = [x \in DOMAIN m |-> m[x]] /\ v1 \in Seq(PBlockHeaders) /\ v2 \in Seq(PTransactions)
      /\ v3 \in UInt32Type /\ v4 \in UInt32Type /\ v5 \in UInt32Type
  BY DEF PBlocks
<1>2. Cleared[type] = PBlock_Clear
  BY DEF Cleared
<1>3. OfType(type, m)
  BY <1>1, <1>2 DEF OfType, PBlock_Clear
<1>4. /\ FieldOf(type, 8 * 1 + 2) = Message("PBlockHeader", "block_header")
      /\ FieldOf(type, 8 * 2 + 2) = Messages("PTransaction", "transactions")
      /\ FieldOf(type, 8 * 3) = UInt32("hash")
      /\ FieldOf(type, 8 * 4) = UInt32("calculate_fees")
      /\ FieldOf(type, 8 * 5) = UInt32("obtain_merkle_root")
  BY DEF FieldOf, PBlock_InternalParse
<1>5. /\ NumberField(type, m, 3, "hash") /\ NumberField(type, m, 4, "calculate_fees")
      /\ NumberField(type, m, 5, "obtain_merkle_root")
  BY <1>1, <1>2, <1>4 DEF NumberField, PBlock_Clear
<1>6. /\ NestedField(type, m, 1, "block_header", "PBlockHeader")
      /\ NestedField(type, m, 2, "transactions", "PTransaction")
  <2>1. /\ ListField(FieldOf(type, 8 * 1 + 2), "PBlockHeader", "block_header", v1)
        /\ ListField(FieldOf(type, 8 * 2 + 2), "PTransaction", "transactions", v2)
    BY <1>4, ListFields
  <2> QED BY <1>1, <1>2, <2>1 DEF NestedField, PBlock_Clear
<1>7. /\ ListOf(1, Len(v1), HeadersWritten(v1), w1, SizeOfMessages(v1, PBlockHeader_ByteSizeLong))
      /\ ListOf(2, Len(v2), TransactionsWritten(v2), w2, SizeOfMessages(v2, PTransaction_ByteSizeLong))
  BY <1>1, HeaderList, TransactionList
<1>8. PBlock_InternalSerialize(m) = w1 \o w2 \o w3 \o w4 \o w5
  BY DEF PBlock_InternalSerialize
<1>9. /\ AllParseOrCut("PBlockHeader", v1, HeadersWritten(v1))
      /\ AllParseOrCut("PTransaction", v2, TransactionsWritten(v2))
  BY <1>1, ListsParse, TransactionsParse
<1>10. /\ FieldOrCut(type, m, "hash", w3, Nat) /\ FieldOrCut(type, m, "calculate_fees", w4, Nat)
       /\ FieldOrCut(type, m, "obtain_merkle_root", w5, Nat)
  <2> HIDE DEF type
  <2> QED BY <1>5, NumberCut
<1> DEFINE k1 == SizeOfMessages(v1, PBlockHeader_ByteSizeLong)
           k2 == SizeOfMessages(v2, PTransaction_ByteSizeLong)
<1>11. Cleared[type].transactions = <<>> /\ IsList(v2)
  BY <1>1, <1>2 DEF PBlock_Clear, IsList
<1>12. CutOf(type, Cleared[type], m)
  BY <1>11, BlockCutBefore
<1> HIDE DEF w1, w2, w3, w4, w5, k1, k2
<1>13. MemberOrCut(type, m, {}, "block_header", w1)
  <2>1. PICK V : FieldOrCut(type, m, "block_header", w1, V)
    <3>1. ListOf(1, Len(v1), HeadersWritten(v1), w1, k1)
      BY <1>7 DEF k1
    <3> HIDE DEF type
    <3> QED BY <1>6, <1>9, <3>1, NestedOrCut
  <2>2. ASSUME NEW q \in CutMember(type, m, {}, "block_header", V) PROVE CutOf(type, q, m)
    <3>1. q.transactions = <<>>
      <4>1. "block_header" \in DOMAIN m
        BY <1>1
      <4> HIDE DEF type
      <4>2. \A y \in DOMAIN m : y # "block_header" => q[y] = IF y \in {} THEN m[y] ELSE Cleared[type][y]
        BY <4>1, CutMemberIs
      <4> QED BY <1>1, <1>11, <4>2
    <3> QED BY <1>11, <3>1, BlockCutBefore
  <2> HIDE DEF type
  <2> QED BY <2>1, <2>2, Zenon DEF MemberOrCut
<1>14. MemberOrCut(type, m, X1, "transactions", w2)
  <2>1. PICK V : /\ FieldOrCut(type, m, "transactions", w2, V)
                 /\ \A l \in V : MessagesBegin("PTransaction", l, v2)
    <3>1. ListOf(2, Len(v2), TransactionsWritten(v2), w2, k2)
      BY <1>7 DEF k2
    <3> HIDE DEF type
    <3> QED BY <1>6, <1>9, <3>1, NestedOrCut
  <2>2. ASSUME NEW q \in CutMember(type, m, X1, "transactions", V) PROVE CutOf(type, q, m)
    <3>1. q.transactions \in V /\ q.block_header = v1
      <4>1. "transactions" \in DOMAIN m
        BY <1>1
      <4> HIDE DEF type, X1
      <4>2. /\ q["transactions"] \in V
            /\ \A y \in DOMAIN m : y # "transactions" => q[y] = IF y \in X1 THEN m[y] ELSE Cleared[type][y]
        BY <4>1, CutMemberIs
      <4> QED BY <1>1, <4>2 DEF X1
    <3> DEFINE l == q.transactions
    <3>2. MessagesBegin("PTransaction", l, v2)
      BY <2>1, <3>1
    <3> QED BY <3>1, <3>2, BlockCutWithin
  <2> HIDE DEF type, X1
  <2> QED BY <2>1, <2>2, Zenon DEF MemberOrCut
<1>15. ASSUME NEW x, x \in {"hash", "calculate_fees", "obtain_merkle_root"}, NEW X,
              X1 \cup {"transactions"} \subseteq X, NEW w, FieldOrCut(type, m, x, w, Nat)
       PROVE  MemberOrCut(type, m, X, x, w)
  <2> DEFINE N == Nat
  <2>1. ASSUME NEW q \in CutMember(type, m, X, x, N) PROVE CutOf(type, q, m)
    <3>1. x \in DOMAIN m
      BY <1>1, <1>15
    <3>2. \A y \in DOMAIN m : y # x => q[y] = IF y \in X THEN m[y] ELSE Cleared[type][y]
      <4> HIDE DEF type, N
      <4> QED BY <3>1, CutMemberIs
    <3>3. q.transactions = v2 /\ q.block_header = v1
      BY <1>1, <1>15, <3>2
    <3> QED BY <1>11, <3>3, BlockCutBehind
  <2> HIDE DEF type, N
  <2>2. FieldOrCut(type, m, x, w, N)
    BY <1>15 DEF N
  <2> QED BY <2>1, <2>2, Zenon DEF MemberOrCut
<1>16. /\ MemberOrCut(type, m, X2, "hash", w3) /\ MemberOrCut(type, m, X3, "calculate_fees", w4)
       /\ MemberOrCut(type, m, X4, "obtain_merkle_root", w5)
  <2>1. /\ X1 \cup {"transactions"} \subseteq X2 /\ X1 \cup {"transactions"} \subseteq X3
        /\ X1 \cup {"transactions"} \subseteq X4
    OBVIOUS
  <2> HIDE DEF type, X1, X2, X3, X4
  <2> QED BY <1>10, <1>15, <2>1
<1> HIDE DEF type
<1>17. MembersOrCut(type, m, X1, w1)
  BY <1>3, <1>13, MembersBegin
<1>18. MembersOrCut(type, m, X2, w1 \o w2)
  BY <1>3, <1>14, <1>17, MembersNext
<1>19. MembersOrCut(type, m, X3, w1 \o w2 \o w3)
  BY <1>3, <1>16, <1>18, MembersNext
<1>20. MembersOrCut(type, m, X4, w1 \o w2 \o w3 \o w4)
  BY <1>3, <1>16, <1>19, MembersNext
<1>21. MembersOrCut(type, m, X5, w1 \o w2 \o w3 \o w4 \o w5)
  BY <1>3, <1>16, <1>20, MembersNext
<1>22. X5 = DOMAIN m
  BY <1>1
<1> HIDE DEF X5
<1> QED BY <1>3, <1>8, <1>12, <1>21, <1>22, AllMembersCut DEF type

LEMMA UndoBlockParses ==
  ASSUME NEW m \in PUndoBlocks
  PROVE  ParsesOrCut("PUndoBlock", PUndoBlock_InternalSerialize(m), m)
<1> DEFINE type == "PUndoBlock"
           v1 == m.transaction_hashes
           v2 == m.undo_coin_records
           w1 == WriteUInt32Packed(1, v1)
           w2 == WriteMessages(2, v2, PUndoCoinRecord_ByteSizeLong, PUndoCoinRecord_InternalSerialize)
           X1 == {"transaction_hashes"}
           X2 == X1 \cup {"undo_coin_records"}
<1>1. /\ DOMAIN m = {"transaction_hashes", "undo_coin_records"}
      /\ m = [x \in DOMAIN m |-> m[x]] /\ v1 \in Seq(UInt32Type) /\ v2 \in Seq(PCoinRecords)
  BY DEF PUndoBlocks
<1>2. Cleared[type] = PUndoBlock_Clear
  BY DEF Cleared
<1>3. OfType(type, m)
  BY <1>1, <1>2 DEF OfType, PUndoBlock_Clear
<1>4. /\ FieldOf(type, 8 * 1 + 2) = PackedUInt32("transaction_hashes")
      /\ FieldOf(type, 8 * 2 + 2) = Messages("PUndoCoinRecord", "undo_coin_records")
  BY DEF FieldOf, PUndoBlock_InternalParse
<1>5. PackedField(type, m, 1, "transaction_hashes")
  BY <1>1, <1>2, <1>4 DEF PackedField, PUndoBlock_Clear
<1>6. NestedField(type, m, 2, "undo_coin_records", "PUndoCoinRecord")
  <2>1. ListField(FieldOf(type, 8 * 2 + 2), "PUndoCoinRecord", "undo_coin_records", v2)
    BY <1>4, ListFields
  <2> QED BY <1>1, <1>2, <2>1 DEF NestedField, PUndoBlock_Clear
<1>7. ListOf(2, Len(v2), CoinsWritten(v2), w2, SizeOfMessages(v2, PUndoCoinRecord_ByteSizeLong))
  BY <1>1, CoinList
<1>8. PUndoBlock_InternalSerialize(m) = w1 \o w2
  BY DEF PUndoBlock_InternalSerialize
<1>9. AllParseOrCut("PUndoCoinRecord", v2, CoinsWritten(v2))
  BY <1>1, CoinsParse
<1>10. /\ Cleared[type].transaction_hashes = <<>> /\ Cleared[type].undo_coin_records = <<>>
       /\ IsList(v2)
  BY <1>1, <1>2 DEF PUndoBlock_Clear, IsList
<1>11. v1 \in Seq(Nat) /\ <<>> \in Seq(Nat)
  <2>1. v1 \in Seq(UInt32Type)
    BY <1>1
  <2> HIDE DEF v1
  <2>2. v1 \in Seq(Nat)
    BY <2>1, UInt32Numbers
  <2> QED BY <2>2
<1>12. ASSUME NEW q, q.transaction_hashes \in Seq(Nat), q.undo_coin_records = <<>>
       PROVE  CutOf(type, q, m)
  <2>1. ListBegins(<<>>, v2)
    BY <1>10, ListBeginsItself
  <2> QED BY <1>12, <2>1 DEF CutOf, UndoBlockCut
<1>13. CutOf(type, Cleared[type], m)
  BY <1>10, <1>11, <1>12
<1> DEFINE k2 == SizeOfMessages(v2, PUndoCoinRecord_ByteSizeLong)
           N == Seq(Nat)
<1> HIDE DEF w2, k2
<1>14. MemberOrCut(type, m, {}, "transaction_hashes", w1)
  <2>1. FieldOrCut(type, m, "transaction_hashes", w1, N)
    <3> HIDE DEF type
    <3> QED BY <1>5, ListCut
  <2>2. ASSUME NEW q \in CutMember(type, m, {}, "transaction_hashes", N) PROVE CutOf(type, q, m)
    <3>1. q.transaction_hashes \in N /\ q.undo_coin_records = <<>>
      <4>1. "transaction_hashes" \in DOMAIN m
        BY <1>1
      <4> HIDE DEF type, N
      <4>2. /\ q["transaction_hashes"] \in N
            /\ \A y \in DOMAIN m : y # "transaction_hashes" =>
                 q[y] = IF y \in {} THEN m[y] ELSE Cleared[type][y]
        BY <4>1, CutMemberIs
      <4> QED BY <1>1, <1>10, <4>2
    <3> QED BY <1>12, <3>1
  <2> HIDE DEF type, w1, N
  <2> QED BY <2>1, <2>2, Zenon DEF MemberOrCut
<1> HIDE DEF w1
<1>15. MemberOrCut(type, m, X1, "undo_coin_records", w2)
  <2>1. PICK V : /\ FieldOrCut(type, m, "undo_coin_records", w2, V)
                 /\ \A l \in V : MessagesBegin("PUndoCoinRecord", l, v2)
    <3>1. ListOf(2, Len(v2), CoinsWritten(v2), w2, k2)
      BY <1>7 DEF k2
    <3> HIDE DEF type
    <3> QED BY <1>6, <1>9, <3>1, NestedOrCut
  <2>2. ASSUME NEW q \in CutMember(type, m, X1, "undo_coin_records", V) PROVE CutOf(type, q, m)
    <3>1. q.undo_coin_records \in V /\ q.transaction_hashes = v1
      <4>1. "undo_coin_records" \in DOMAIN m
        BY <1>1
      <4> HIDE DEF type, X1
      <4>2. /\ q["undo_coin_records"] \in V
            /\ \A y \in DOMAIN m : y # "undo_coin_records" =>
                 q[y] = IF y \in X1 THEN m[y] ELSE Cleared[type][y]
        BY <4>1, CutMemberIs
      <4> QED BY <1>1, <4>2 DEF X1
    <3> DEFINE l == q.undo_coin_records
    <3>2. ListBegins(l, v2)
      BY <2>1, <3>1 DEF MessagesBegin
    <3>3. l # <<>> => l[Len(l)] = v2[Len(l)] \/ CoinCut(l[Len(l)], v2[Len(l)])
      BY <2>1, <3>1 DEF MessagesBegin, CutOf
    <3> QED BY <1>11, <3>1, <3>2, <3>3 DEF CutOf, UndoBlockCut
  <2> HIDE DEF type, X1
  <2> QED BY <2>1, <2>2, Zenon DEF MemberOrCut
<1> HIDE DEF type
<1>16. MembersOrCut(type, m, X1, w1)
  BY <1>3, <1>14, MembersBegin
<1>17. MembersOrCut(type, m, X2, w1 \o w2)
  BY <1>3, <1>15, <1>16, MembersNext
<1>18. X2 = DOMAIN m
  BY <1>1
<1> HIDE DEF X2
<1> QED BY <1>3, <1>8, <1>13, <1>17, <1>18, AllMembersCut DEF type

LEMMA BlockRecordParses ==
  ASSUME NEW m \in PBlockRecords, NEW header, header = m.block_header, Len(header) = 1
  PROVE  Parses("PBlockRecord", PBlockRecord_InternalSerialize(m), m)
<1> DEFINE type == "PBlockRecord"
           v1 == m.block_header
           v2 == m.height
           v3 == m.num_transactions
           v4 == m.block_file_stored
           v5 == m.block_offset_start
           v6 == m.block_offset_end
           v7 == m.undo_file_stored
           v8 == m.undo_offset_start
           v9 == m.undo_offset_end
           w1 == WriteMessages(1, v1, PBlockHeader_ByteSizeLong, PBlockHeader_InternalSerialize)
           w2 == WriteUInt32(2, v2)
           w3 == WriteUInt32(3, v3)
           w4 == WriteString(4, v4)
           w5 == WriteUInt32(5, v5)
           w6 == WriteUInt32(6, v6)
           w7 == WriteString(7, v7)
           w8 == WriteUInt32(8, v8)
           w9 == WriteUInt32(9, v9)
<1>1. /\ DOMAIN m = {"block_header", "height", "num_transactions", "block_file_stored",
                     "block_offset_start", "block_offset_end", "undo_file_stored",
                     "undo_offset_start", "undo_offset_end"}
      /\ m = [x \in DOMAIN m |-> m[x]] /\ v1 \in Seq(PBlockHeaders)
      /\ v2 \in UInt32Type /\ v3 \in UInt32Type /\ v4 \in Seq(Nat) /\ v5 \in UInt32Type
      /\ v6 \in UInt32Type /\ v7 \in Seq(Nat) /\ v8 \in UInt32Type /\ v9 \in UInt32Type
  BY DEF PBlockRecords
<1>2. Cleared[type] = PBlockRecord_Clear
  BY DEF Cleared
<1>3. OfType(type, m)
  BY <1>1, <1>2 DEF OfType, PBlockRecord_Clear
<1>4. /\ FieldOf(type, 8 * 1 + 2) = Message("PBlockHeader", "block_header")
      /\ FieldOf(type, 8 * 2) = UInt32("height")
      /\ FieldOf(type, 8 * 3) = UInt32("num_transactions")
      /\ FieldOf(type, 8 * 4 + 2) = String("block_file_stored")
      /\ FieldOf(type, 8 * 5) = UInt32("block_offset_start")
      /\ FieldOf(type, 8 * 6) = UInt32("block_offset_end")
      /\ FieldOf(type, 8 * 7 + 2) = String("undo_file_stored")
      /\ FieldOf(type, 8 * 8) = UInt32("undo_offset_start")
      /\ FieldOf(type, 8 * 9) = UInt32("undo_offset_end")
  BY DEF FieldOf, PBlockRecord_InternalParse
<1>5. /\ NumberField(type, m, 2, "height") /\ NumberField(type, m, 3, "num_transactions")
      /\ NumberField(type, m, 5, "block_offset_start")
      /\ NumberField(type, m, 6, "block_offset_end")
      /\ NumberField(type, m, 8, "undo_offset_start")
      /\ NumberField(type, m, 9, "undo_offset_end")
  BY <1>1, <1>2, <1>4 DEF NumberField, PBlockRecord_Clear
<1>6. TextField(type, m, 4, "block_file_stored") /\ TextField(type, m, 7, "undo_file_stored")
  BY <1>1, <1>2, <1>4 DEF TextField, PBlockRecord_Clear
<1>7. NestedField(type, m, 1, "block_header", "PBlockHeader")
  <2>1. ListField(FieldOf(type, 8 * 1 + 2), "PBlockHeader", "block_header", v1)
    BY <1>4, ListFields
  <2> QED BY <1>1, <1>2, <2>1 DEF NestedField, PBlockRecord_Clear
<1>8. ListOf(1, Len(v1), HeadersWritten(v1), w1, SizeOfMessages(v1, PBlockHeader_ByteSizeLong))
  BY <1>1, HeaderList
<1>9. PBlockRecord_InternalSerialize(m) = w1 \o w2 \o w3 \o w4 \o w5 \o w6 \o w7 \o w8 \o w9
  BY DEF PBlockRecord_InternalSerialize
<1>10. /\ ReadAs(type, m, {"height"}, w2) /\ ReadAs(type, m, {"num_transactions"}, w3)
       /\ ReadAs(type, m, {"block_offset_start"}, w5) /\ ReadAs(type, m, {"block_offset_end"}, w6)
       /\ ReadAs(type, m, {"undo_offset_start"}, w8) /\ ReadAs(type, m, {"undo_offset_end"}, w9)
  <2> HIDE DEF type
  <2> QED BY <1>5, NumberReadAs
<1>11. ReadAs(type, m, {"block_file_stored"}, w4) /\ ReadAs(type, m, {"undo_file_stored"}, w7)
  <2> HIDE DEF type
  <2> QED BY <1>6, TextReadAs
<1> DEFINE k1 == SizeOfMessages(v1, PBlockHeader_ByteSizeLong)
<1> HIDE DEF type, w1, w2, w3, w4, w5, w6, w7, w8, w9, k1
<1>12. ReadAs(type, m, {"block_header"}, w1)
  <2>1. ListOf(1, Len(v1), HeadersWritten(v1), w1, k1) /\ AllParse("PBlockHeader", v1, HeadersWritten(v1))
    BY <1>1, <1>8, ListsParse DEF AllParseOrCut, k1
  <2> QED BY <1>7, <2>1, NestedReadAs
<1> DEFINE X2 == {"block_header", "height"}
           X3 == X2 \cup {"num_transactions"}
           X4 == X3 \cup {"block_file_stored"}
           X5 == X4 \cup {"block_offset_start"}
           X6 == X5 \cup {"block_offset_end"}
           X7 == X6 \cup {"undo_file_stored"}
           X8 == X7 \cup {"undo_offset_start"}
           X9 == X8 \cup {"undo_offset_end"}
<1>13. ReadAs(type, m, X2, w1 \o w2)
  BY <1>10, <1>12, ReadNext
<1>14. ReadAs(type, m, X3, w1 \o w2 \o w3)
  BY <1>10, <1>13, ReadNext
<1>15. ReadAs(type, m, X4, w1 \o w2 \o w3 \o w4)
  BY <1>11, <1>14, ReadNext
<1>16. ReadAs(type, m, X5, w1 \o w2 \o w3 \o w4 \o w5)
  BY <1>10, <1>15, ReadNext
<1>17. ReadAs(type, m, X6, w1 \o w2 \o w3 \o w4 \o w5 \o w6)
  BY <1>10, <1>16, ReadNext
<1>18. ReadAs(type, m, X7, w1 \o w2 \o w3 \o w4 \o w5 \o w6 \o w7)
  BY <1>11, <1>17, ReadNext
<1>19. ReadAs(type, m, X8, w1 \o w2 \o w3 \o w4 \o w5 \o w6 \o w7 \o w8)
  BY <1>10, <1>18, ReadNext
<1>20. ReadAs(type, m, X9, w1 \o w2 \o w3 \o w4 \o w5 \o w6 \o w7 \o w8 \o w9)
  BY <1>10, <1>19, ReadNext
<1>21. X9 = DOMAIN m
  BY <1>1
<1> HIDE DEF X9
<1> QED BY <1>3, <1>9, <1>20, <1>21, AllMembersRead DEF type

-----------------------------------------------------------------------------
(* The outermost call. *)

\* The function in Iterations.
Runs(b, first, n, f) == f = [k \in 0 .. n |-> IF k = 0 THEN first ELSE InternalParse(b, f[k - 1])]

LEMMA RunsExist ==
  ASSUME NEW b, NEW first, NEW n \in Nat
  PROVE  \E f : Runs(b, first, n, f)
<1> DEFINE S == {k \in 0 .. n : \E f : Runs(b, first, k, f)}
<1>1. 0 \in S
  <2> DEFINE f == [k \in 0 .. 0 |-> first]
  <2>1. Runs(b, first, 0, f)
    BY DEF Runs
  <2> QED BY <2>1
<1>2. ASSUME NEW k \in 0 .. n - 1, k \in S PROVE k + 1 \in S
  <2>1. PICK f : Runs(b, first, k, f)
    BY <1>2
  <2> DEFINE last == InternalParse(b, f[k])
             g == [j \in 0 .. k + 1 |-> IF j <= k THEN f[j] ELSE last]
  <2>2. \A j \in 0 .. k : f[j] = IF j = 0 THEN first ELSE InternalParse(b, f[j - 1])
    BY <2>1 DEF Runs
  <2>3. ASSUME NEW j \in 0 .. k + 1
        PROVE  g[j] = IF j = 0 THEN first ELSE InternalParse(b, g[j - 1])
    <3>1. CASE j = 0
      BY <2>2, <3>1
    <3>2. CASE j # 0 /\ j <= k
      <4>1. j - 1 \in 0 .. k + 1 /\ j - 1 <= k /\ j \in 0 .. k
        BY <3>2
      <4>2. g[j] = f[j] /\ g[j - 1] = f[j - 1]
        BY <3>2, <4>1
      <4> QED BY <2>2, <3>2, <4>1, <4>2
    <3>3. CASE j = k + 1
      <4>1. j - 1 = k /\ k \in 0 .. k + 1 /\ j # 0 /\ ~(j <= k)
        BY <3>3
      <4>2. g[j] = last /\ g[j - 1] = f[k]
        <5> HIDE DEF last
        <5> QED BY <4>1
      <4> QED BY <3>3, <4>1, <4>2
    <3> QED BY <3>1, <3>2, <3>3
  <2>4. g = [j \in 0 .. k + 1 |-> IF j = 0 THEN first ELSE InternalParse(b, g[j - 1])]
    <3> HIDE DEF g
    <3>1. DOMAIN g = 0 .. k + 1 /\ g = [j \in DOMAIN g |-> g[j]]
      BY DEF g
    <3> QED BY <2>3, <3>1
  <2>5. Runs(b, first, k + 1, g)
    BY <2>4 DEF Runs
  <2>6. k + 1 \in 0 .. n
    OBVIOUS
  <2> QED BY <2>5, <2>6
<1> HIDE DEF S
<1>3. n \in S
  BY <1>1, <1>2, Upwards
<1> QED BY <1>3 DEF S

LEMMA IterationsAre ==
  ASSUME NEW type, NEW b \in Seq(Nat)
  PROVE  \E run :
           /\ run[0] = ParseCall(type, Len(b), CursorAt(0, Cleared[type]), <<>>)
           /\ RunOf(b, run) /\ ParseFromString(type, b) = run[MaxIterations(b)].cursor.msg
<1> DEFINE n == MaxIterations(b)
           first == ParseCall(type, Len(b), CursorAt(0, Cleared[type]), <<>>)
           run == CHOOSE run : run = [k \in 0 .. MaxIterations(b) |->
                    IF k = 0 THEN ParseCall(type, Len(b), CursorAt(0, Cleared[type]), <<>>)
                    ELSE InternalParse(b, run[k - 1])]
<1>1. n \in Nat
  BY LenProperties DEF MaxIterations
<1>2. run = [k \in 0 .. n |-> IF k = 0 THEN first ELSE InternalParse(b, run[k - 1])]
  <2> HIDE DEF first, n
  <2>1. \E g : Runs(b, first, n, g)
    BY <1>1, RunsExist
  <2>2. \E g : g = [k \in 0 .. n |-> IF k = 0 THEN first ELSE InternalParse(b, g[k - 1])]
    BY <2>1 DEF Runs
  <2> QED BY <2>2, Zenon DEF first, n
<1>3. ParseFromString(type, b) = run[n].cursor.msg
  BY DEF ParseFromString, Iterations
<1> HIDE DEF run, first, n
<1>4. \A k \in 0 .. n : run[k] = IF k = 0 THEN first ELSE InternalParse(b, run[k - 1])
  BY <1>2
<1>5. run[0] = first
  BY <1>1, <1>4
<1>6. ASSUME NEW k \in 0 .. n - 1 PROVE run[k + 1] = InternalParse(b, run[k])
  <2>1. k + 1 \in 0 .. n /\ k + 1 # 0 /\ (k + 1) - 1 = k
    BY <1>1
  <2> QED BY <1>4, <2>1
<1>7. RunOf(b, run)
  BY <1>6 DEF RunOf, n
<1> QED BY <1>3, <1>5, <1>7, Zenon DEF first, n

\* The outermost call stays where it is left.
LEMMA StaysDone ==
  ASSUME NEW b \in Seq(Nat), NEW run, RunOf(b, run), NEW j \in 0 .. MaxIterations(b),
         NEW type, NEW limit, NEW cursor, run[j] = ParseCall(type, limit, cursor, <<>>),
         Done(b, cursor, limit)
  PROVE  run[MaxIterations(b)] = ParseCall(type, limit, cursor, <<>>)
<1> DEFINE n == MaxIterations(b) - j
           call == ParseCall(type, limit, cursor, <<>>)
           T == {k \in 0 .. n : run[j + k] = call}
<1>1. MaxIterations(b) \in Nat /\ n \in Nat /\ j + n = MaxIterations(b)
  BY LenProperties DEF MaxIterations
<1>2. InternalParse(b, call) = call
  <2>1. call.callers = <<>> /\ call.cursor = cursor /\ call.limit = limit
    BY CallIs
  <2> HIDE DEF call
  <2> QED BY <2>1, Zenon DEF InternalParse
<1> HIDE DEF call
<1>3. 0 \in T
  BY <1>1 DEF call
<1>4. ASSUME NEW k \in 0 .. n - 1, k \in T PROVE k + 1 \in T
  <2>1. j + k \in 0 .. MaxIterations(b) - 1 /\ (j + k) + 1 = j + (k + 1) /\ k + 1 \in 0 .. n
    BY <1>1
  <2>2. run[(j + k) + 1] = InternalParse(b, run[j + k])
    BY <2>1 DEF RunOf
  <2>3. run[j + k] = call
    BY <1>4
  <2>4. run[j + (k + 1)] = call
    BY <1>2, <2>1, <2>2, <2>3, Zenon
  <2> QED BY <2>1, <2>4
<1> HIDE DEF T, n
<1>5. n \in Nat
  BY <1>1
<1>6. \A i \in 0 .. n : i \in T
  BY <1>3, <1>4, <1>5, Upwards
<1>7. n \in T
  BY <1>5, <1>6
<1>8. run[j + n] = call
  BY <1>7 DEF T
<1> QED BY <1>1, <1>8, Zenon DEF call

LEMMA Begins0 ==
  ASSUME NEW type, NEW b \in Seq(Nat), NEW run, RunOf(b, run),
         run[0] = ParseCall(type, Len(b), CursorAt(0, Cleared[type]), <<>>)
  PROVE  At(b, run, type, Len(b), 0, Cleared[type], <<>>)
<1>1. Len(b) \in Nat /\ MaxIterations(b) \in Nat
  BY LenProperties DEF MaxIterations
<1>2. IsList(<<>>) /\ Len(<<>>) = 0
  BY EmptySeq DEF IsList
<1>3. 0 \in 0 .. MaxIterations(b) /\ 0 <= Len(b) /\ Len(b) <= Len(b) /\ 0 + Len(<<>>) <= 0
  BY <1>1, <1>2
<1> QED BY <1>1, <1>2, <1>3 DEF At

\* A message that is alone in the buffer.
LEMMA ParsedAlone ==
  ASSUME NEW type, NEW s, NEW m, Parses(type, s, m), Len(s) <= INT_MAX
  PROVE  ParseFromString(type, s) = m
<1>1. s \in Seq(Nat) /\ Len(s) \in Nat
  BY LenProperties DEF Parses
<1>2. PICK run : /\ run[0] = ParseCall(type, Len(s), CursorAt(0, Cleared[type]), <<>>)
                 /\ RunOf(s, run) /\ ParseFromString(type, s) = run[MaxIterations(s)].cursor.msg
  BY <1>1, IterationsAre
<1>3. At(s, run, type, Len(s), 0, Cleared[type], <<>>)
  BY <1>1, <1>2, Begins0
<1>4. Within(s, 0, s, Len(s))
  <2>1. Holds(s, 0, s)
    BY <1>1 DEF Holds
  <2>2. 0 + Len(s) <= Len(s)
    BY <1>1
  <2> QED BY <2>1, <2>2 DEF Within
<1>5. At(s, run, type, Len(s), 0 + Len(s), m, <<>>)
  BY <1>3, <1>4, Zenon DEF Parses
<1>6. PICK j \in 0 .. MaxIterations(s) :
        run[j] = ParseCall(type, Len(s), CursorAt(Len(s), m), <<>>)
  <2>1. 0 + Len(s) = Len(s)
    BY <1>1
  <2>2. At(s, run, type, Len(s), Len(s), m, <<>>)
    BY <1>5, <2>1, Zenon
  <2> QED BY <2>2 DEF At
<1> DEFINE end == Len(s)
           cursor == CursorAt(end, m)
<1>7. Done(s, cursor, end)
  <2>1. cursor.ptr = end
    BY CursorIs
  <2>2. end >= end
    BY <1>1
  <2> HIDE DEF cursor
  <2> QED BY <2>1, <2>2 DEF Done
<1>8. run[MaxIterations(s)] = ParseCall(type, end, cursor, <<>>)
  <2>1. run[j] = ParseCall(type, end, cursor, <<>>)
    BY <1>6
  <2> HIDE DEF end, cursor
  <2> QED BY <1>1, <1>2, <1>7, <2>1, StaysDone
<1>9. run[MaxIterations(s)].cursor = cursor
  <2> HIDE DEF end, cursor
  <2> QED BY <1>8, CallIs
<1>10. cursor.msg = m
  BY CursorIs
<1> QED BY <1>2, <1>9, <1>10, Zenon

LEMMA LeftParsed ==
  ASSUME NEW b, NEW run, NEW type, NEW msg, Left(b, run, type, Len(b), msg, <<>>)
  PROVE  run[MaxIterations(b)].cursor.msg = msg
<1> DEFINE limit == Len(b)
           none == <<>>
<1>1. PICK j, cursor :
        /\ j \in 0 .. MaxIterations(b)
        /\ run[j] = ParseCall(type, limit, cursor, none) /\ LeftWith(b, cursor, msg)
  BY DEF Left
<1>2. b \in Seq(Nat) /\ RunOf(b, run)
  BY DEF Left
<1>3. Done(b, cursor, limit)
  BY <1>1 DEF LeftWith, Done
<1>4. run[MaxIterations(b)] = ParseCall(type, limit, cursor, none)
  <2> HIDE DEF limit
  <2> QED BY <1>1, <1>2, <1>3, StaysDone
<1>5. run[MaxIterations(b)].cursor = cursor
  <2> HIDE DEF limit, none
  <2> QED BY <1>4, CallIs
<1>6. cursor.msg = msg
  BY <1>1 DEF LeftWith
<1> QED BY <1>5, <1>6, Zenon

\* What is read of a buffer that ends before what was written does.
LEMMA ParsedCut ==
  ASSUME NEW type, NEW s, NEW m, ParsesOrCut(type, s, m), Len(s) <= INT_MAX,
         NEW length \in 0 .. Len(s) - 1, NEW b, b = SubSeq(s, 1, length)
  PROVE  CutOf(type, ParseFromString(type, b), m)
<1>1. PICK M : AreCuts(type, s, m, M)
  BY DEF ParsesOrCut
<1>2. /\ CutParses(type, s, M) /\ s \in Seq(Nat) /\ \A q \in M : CutOf(type, q, m)
  BY <1>1 DEF AreCuts, CutParses
<1>3. Len(s) \in Nat
  BY <1>2, LenProperties
<1>4. b \in Seq(Nat) /\ Len(b) = length /\ \A k \in 1 .. length : b[k] = s[k]
  BY <1>2, <1>3
<1>5. PICK run : /\ run[0] = ParseCall(type, Len(b), CursorAt(0, Cleared[type]), <<>>)
                 /\ RunOf(b, run) /\ ParseFromString(type, b) = run[MaxIterations(b)].cursor.msg
  BY <1>4, IterationsAre
<1>6. At(b, run, type, Len(b), 0, Cleared[type], <<>>)
  BY <1>4, <1>5, Begins0
<1>7. CutIn(b, 0, s, Len(b))
  <2>1. 0 <= Len(b) /\ Len(b) < 0 + Len(s) /\ Len(b) <= Len(b) /\ Len(b) - 0 = length
    BY <1>3, <1>4
  <2>2. \A k \in 1 .. length : 0 + k = k
    OBVIOUS
  <2>3. \A k \in 1 .. Len(b) - 0 : b[0 + k] = s[k]
    BY <1>4, <2>1, <2>2
  <2> QED BY <1>2, <1>4, <2>1, <2>3 DEF CutIn
<1> DEFINE none == <<>>
           c == Cleared[type]
<1>8. PICK q \in M : Left(b, run, type, Len(b), q, none)
  <2>1. At(b, run, type, Len(b), 0, c, none)
    BY <1>6
  <2> HIDE DEF none
  <2> QED BY <1>2, <1>7, <2>1, Zenon DEF CutParses, c
<1>9. run[MaxIterations(b)].cursor.msg = q
  <2>1. Left(b, run, type, Len(b), q, <<>>)
    BY <1>8
  <2> QED BY <2>1, LeftParsed
<1>10. ParseFromString(type, b) = q
  BY <1>5, <1>9, Zenon
<1> QED BY <1>2, <1>8, <1>10, Zenon

\* What is behind a message is a zero, and more.
Terminated(b, s) ==
  /\ b \in Seq(Nat) /\ Holds(b, 0, s) /\ Holds(b, Len(s), <<0>>)
  /\ Len(s) \in Nat /\ Len(b) \in Nat /\ Len(s) < Len(b)

LEMMA TerminatedIs ==
  ASSUME NEW s \in Seq(Nat), NEW f \in Seq(Nat)
  PROVE  Terminated(s \o <<0>> \o f, s)
<1> DEFINE zero == <<0>>
           sz == s \o zero
           b == sz \o f
<1>1. zero \in Seq(Nat) /\ Len(zero) = 1
  OBVIOUS
<1> HIDE DEF zero
<1>2. sz \in Seq(Nat)
  BY <1>1, ConcatProperties
<1>3. b \in Seq(Nat) /\ Len(b) \in Nat
  BY <1>2, ConcatProperties, LenProperties
<1>4. Holds(b, 0, b)
  <2>1. 0 + Len(b) <= Len(b) /\ \A k \in 1 .. Len(b) : 0 + k = k
    BY <1>3
  <2> QED BY <1>3, <2>1 DEF Holds
<1>5. Holds(b, 0, sz)
  <2>1. Holds(b, 0, sz \o f)
    BY <1>4
  <2> HIDE DEF b, sz
  <2> QED BY <1>2, <2>1, HoldsJoined
<1>6. /\ Holds(b, 0, s) /\ Holds(b, 0 + Len(s), zero) /\ Len(s) \in Nat
  <2> HIDE DEF b
  <2> QED BY <1>1, <1>5, HoldsJoined
<1>7. 0 + Len(s) = Len(s)
  BY <1>6
<1>8. Holds(b, Len(s), zero)
  BY <1>6, <1>7, Zenon
<1>9. Len(s) + 1 <= Len(b)
  <2> HIDE DEF b
  <2> QED BY <1>1, <1>8 DEF Holds
<1>10. Len(s) < Len(b)
  BY <1>3, <1>6, <1>9
<1> QED BY <1>3, <1>6, <1>8, <1>10, Zenon DEF Terminated, zero

\* A zero ends the message.
EndsHere(b, type, limit, ptr, msg) ==
  \E cursor :
    /\ InternalParse(b, ParseCall(type, limit, CursorAt(ptr, msg), <<>>))
         = ParseCall(type, limit, cursor, <<>>)
    /\ cursor.ended = TRUE /\ cursor.msg = msg

ZeroAt(b, ptr) == Holds(b, ptr, <<0>>)

LEMMA Ends ==
  ASSUME NEW b, NEW ptr, NEW msg, NEW type, NEW limit, ptr \in Nat, limit \in Nat, ptr < limit,
         Len(b) \in Nat, limit <= Len(b), ZeroAt(b, ptr), FieldOf(type, 0) = NoField
  PROVE  EndsHere(b, type, limit, ptr, msg)
<1> DEFINE cursor == CursorAt(ptr, msg)
           none == <<>>
           call == ParseCall(type, limit, cursor, none)
           read == ReadVarint(b, ptr)
           at == CursorAt(ptr + 1, msg)
           last == [at EXCEPT !.ended = TRUE]
<1>1. call.type = type /\ call.limit = limit /\ call.cursor = cursor /\ call.callers = none
  BY CallIs
<1>2. cursor.ptr = ptr /\ cursor.msg = msg /\ cursor.failed = FALSE /\ cursor.ended = FALSE
  BY DEF CursorAt
<1>3. ~Done(b, cursor, limit)
  <2> HIDE DEF cursor
  <2> QED BY <1>2 DEF Done
<1>4. ~Malformed(b, ptr) /\ read = [value |-> 0, ptr |-> ptr + 1]
  <2>1. 0 \in 0 .. 127
    OBVIOUS
  <2>2. Holds(b, ptr, <<0>>)
    BY DEF ZeroAt
  <2> QED BY <2>1, <2>2, TagRead DEF VarintAt
<1>5. read.value = 0 /\ read.ptr = ptr + 1
  BY <1>4
<1>6. [cursor EXCEPT !.ptr = ptr + 1] = at
  BY CursorMoves
<1>7. last.ended = TRUE /\ last.msg = msg
  BY DEF CursorAt
<1>8. [call EXCEPT !.cursor = last] = ParseCall(type, limit, last, none)
  <2>1. ASSUME NEW x
        PROVE  [call EXCEPT !.cursor = x] = ParseCall(type, limit, x, none)
    <3> HIDE DEF cursor, none
    <3> QED BY CallGoesOn
  <2> HIDE DEF cursor, last, none, call
  <2> QED BY <2>1, Zenon
<1>9. Unusual(0, b, at) = last
  <2> HIDE DEF at
  <2>1. Unusual(0, b, at) = [at EXCEPT !.ended = TRUE]
    BY DEF Unusual
  <2> QED BY <2>1 DEF last
<1> HIDE DEF cursor, call, read, at, last, none
<1>10. InternalParse(b, call) =
         IF call.callers = <<>> /\ Done(b, cursor, limit) THEN call
         ELSE IF Done(b, cursor, limit) THEN Return(b, call)
         ELSE IF Malformed(b, ptr) THEN [call EXCEPT !.cursor = Failed(cursor)]
         ELSE IF FieldOf(type, 0) = NoField THEN [call EXCEPT !.cursor = Unusual(0, b, at)]
         ELSE IF Malformed(b, at.ptr) THEN [call EXCEPT !.cursor = Failed(at)]
         ELSE IF FieldOf(type, 0).reader \in {"message", "another message"}
              THEN ParseMessage(b, call, FieldOf(type, 0), at)
         ELSE [call EXCEPT !.cursor = ReadField(FieldOf(type, 0), b, at)]
  <2>1. at = [cursor EXCEPT !.ptr = read.ptr]
    BY <1>5, <1>6, Zenon
  <2> QED BY <1>1, <1>2, <1>5, <2>1, Zenon DEF InternalParse, read
<1>11. InternalParse(b, call) = ParseCall(type, limit, last, none)
  BY <1>3, <1>4, <1>8, <1>9, <1>10, Zenon
<1> QED BY <1>7, <1>11, Zenon DEF call, cursor, none, EndsHere

\* A message that a zero ends.
LEMMA ParsedTerminated ==
  ASSUME NEW type, FieldOf(type, 0) = NoField, NEW s, NEW m, Parses(type, s, m),
         Len(s) <= INT_MAX, NEW b, Terminated(b, s)
  PROVE  ParseFromString(type, b) = m
<1>1. /\ b \in Seq(Nat) /\ Holds(b, 0, s) /\ Holds(b, Len(s), <<0>>)
      /\ Len(s) \in Nat /\ Len(b) \in Nat /\ Len(s) < Len(b)
  BY DEF Terminated
<1>2. PICK run : /\ run[0] = ParseCall(type, Len(b), CursorAt(0, Cleared[type]), <<>>)
                 /\ RunOf(b, run) /\ ParseFromString(type, b) = run[MaxIterations(b)].cursor.msg
  BY <1>1, IterationsAre
<1>3. At(b, run, type, Len(b), 0, Cleared[type], <<>>)
  BY <1>1, <1>2, Begins0
<1>4. Within(b, 0, s, Len(b))
  <2>1. 0 + Len(s) <= Len(b)
    BY <1>1
  <2> QED BY <1>1, <2>1 DEF Within
<1>5. At(b, run, type, Len(b), 0 + Len(s), m, <<>>)
  BY <1>3, <1>4, Zenon DEF Parses
<1> DEFINE end == Len(s)
           limit == Len(b)
           none == <<>>
<1>6. PICK j \in 0 .. MaxIterations(b) :
        run[j] = ParseCall(type, limit, CursorAt(end, m), none) /\ j + Len(none) <= end
  <2>1. 0 + end = end
    BY <1>1
  <2>2. At(b, run, type, limit, end, m, none)
    BY <1>5, <2>1, Zenon
  <2> QED BY <2>2 DEF At
<1>7. PICK cursor :
        /\ InternalParse(b, ParseCall(type, limit, CursorAt(end, m), none))
             = ParseCall(type, limit, cursor, none)
        /\ cursor.ended = TRUE /\ cursor.msg = m
  <2> HIDE DEF end, limit
  <2>1. /\ end \in Nat /\ limit \in Nat /\ end < limit /\ Len(b) \in Nat
        /\ limit <= Len(b) /\ ZeroAt(b, end)
    BY <1>1 DEF end, limit, ZeroAt
  <2>2. EndsHere(b, type, limit, end, m)
    BY <2>1, Ends
  <2> QED BY <2>2 DEF none, EndsHere
<1>8. j \in 0 .. MaxIterations(b) - 1 /\ j + 1 \in 0 .. MaxIterations(b)
  <2>1. Len(none) = 0
    OBVIOUS
  <2>2. MaxIterations(b) = limit + 2
    BY DEF MaxIterations
  <2> HIDE DEF none, end, limit
  <2>3. limit \in Nat /\ end \in Nat /\ end < limit
    BY <1>1 DEF end, limit
  <2> QED BY <1>6, <2>1, <2>2, <2>3
<1>9. run[j + 1] = ParseCall(type, limit, cursor, none)
  <2>1. run[j + 1] = InternalParse(b, run[j])
    BY <1>2, <1>8 DEF RunOf
  <2> QED BY <1>6, <1>7, <2>1, Zenon
<1>10. Done(b, cursor, limit)
  BY <1>7, Zenon DEF Done
<1>11. run[MaxIterations(b)] = ParseCall(type, limit, cursor, none)
  <2>1. run[j + 1] = ParseCall(type, limit, cursor, <<>>)
    BY <1>9
  <2> HIDE DEF end, limit
  <2>2. RunOf(b, run) /\ b \in Seq(Nat) /\ j + 1 \in 0 .. MaxIterations(b)
    BY <1>1, <1>2, <1>8
  <2>3. run[MaxIterations(b)] = ParseCall(type, limit, cursor, <<>>)
    BY <1>10, <2>1, <2>2, StaysDone
  <2> QED BY <2>3 DEF none
<1>12. run[MaxIterations(b)].cursor = cursor
  <2> HIDE DEF end, limit, none
  <2> QED BY <1>11, CallIs
<1> QED BY <1>2, <1>7, <1>12, Zenon

-----------------------------------------------------------------------------
(* Objects read back. *)

\* Nothing is read of an empty buffer.
LEMMA NothingParsed ==
  ASSUME NEW type, NEW s, NEW m, Parses(type, s, m), Len(s) = 0
  PROVE  m = Cleared[type]
<1>1. s \in Seq(Nat) /\ 0 <= INT_MAX
  BY SMT DEF Parses, INT_MAX
<1>2. PICK run : /\ run[0] = ParseCall(type, Len(s), CursorAt(0, Cleared[type]), <<>>)
                 /\ RunOf(s, run) /\ ParseFromString(type, s) = run[MaxIterations(s)].cursor.msg
  BY <1>1, IterationsAre
<1>3. At(s, run, type, Len(s), 0, Cleared[type], <<>>)
  BY <1>1, <1>2, Begins0
<1>4. Within(s, 0, s, Len(s))
  <2>1. 0 \in Nat /\ 0 + Len(s) <= Len(s) /\ Len(s) <= INT_MAX
    BY <1>1
  <2>2. Holds(s, 0, s)
    BY <1>1, <2>1 DEF Holds
  <2> QED BY <2>1, <2>2 DEF Within
<1>5. At(s, run, type, Len(s), 0 + Len(s), m, <<>>)
  BY <1>3, <1>4, Zenon DEF Parses
<1> DEFINE none == <<>>
           n == Len(s)
<1>6. At(s, run, type, n, 0, m, none)
  <2>1. 0 + Len(s) = 0
    OBVIOUS
  <2> QED BY <1>5, <2>1, Zenon
<1>7. PICK j \in 0 .. MaxIterations(s) :
        run[j] = ParseCall(type, n, CursorAt(0, m), none) /\ j + Len(none) <= 0
  BY <1>6 DEF At
<1>8. j = 0
  <2>1. Len(none) = 0
    OBVIOUS
  <2> HIDE DEF none
  <2> QED BY <1>7, <2>1
<1>9. ParseCall(type, n, CursorAt(0, m), none) = ParseCall(type, n, CursorAt(0, Cleared[type]), none)
  BY <1>2, <1>7, <1>8, Zenon
<1> HIDE DEF n, none
<1>10. CursorAt(0, m) = CursorAt(0, Cleared[type])
  <2>1. \A cursor : ParseCall(type, n, cursor, none).cursor = cursor
    BY CallIs
  <2> QED BY <1>9, <2>1, Zenon
<1>11. \A msg : CursorAt(0, msg).msg = msg
  BY CursorIs
<1> QED BY <1>10, <1>11, Zenon

\* The header of a block, and of a block's record, is always set.
LEMMA HeaderSet ==
  ASSUME NEW o
  PROVE  Len(ToPBlock(o).block_header) = 1 /\ Len(ToPBlockRecord(o).block_header) = 1
<1> DEFINE h == <<ToPBlockHeader(o.block_header)>>
           txs == Each(ToPTransaction, o.transactions)
<1>1. Len(h) = 1
  OBVIOUS
<1> HIDE DEF h, txs
<1>2. ToPBlock(o).block_header = h
  BY DEF ToPBlock, PBlock_Clear, h, txs
<1>3. ToPBlockRecord(o).block_header = h
  BY DEF ToPBlockRecord, PBlockRecord_Clear, h
<1> QED BY <1>1, <1>2, <1>3, Zenon

LEMMA BlockNotCleared ==
  ASSUME NEW o
  PROVE  ToPBlock(o) # Cleared["PBlock"]
<1> DEFINE m == Len(ToPBlock(o).block_header)
           n == Len(Cleared["PBlock"].block_header)
<1>1. m = 1
  BY HeaderSet
<1>2. n = 0
  BY DEF Cleared, PBlock_Clear
<1>3. ToPBlock(o) = Cleared["PBlock"] => m = n
  OBVIOUS
<1> HIDE DEF m, n
<1> QED BY <1>1, <1>2, <1>3

LEMMA BlockRead ==
  ASSUME NEW o \in BlockType, NEW b, b # <<>>, ParseFromString("PBlock", b) = ToPBlock(o)
  PROVE  Block_deserialize(b) = o
<1>1. /\ HeaderOf(ToPBlock(o)) = o.block_header
      /\ Each(ToTransaction, ToPBlock(o).transactions) = o.transactions
  BY BlockConverted
<1>2. Block_deserialize(b) = [block_header |-> HeaderOf(ToPBlock(o)),
                              transactions |-> Each(ToTransaction, ToPBlock(o).transactions)]
  BY Zenon DEF Block_deserialize
<1>3. o = [block_header |-> o.block_header, transactions |-> o.transactions]
  BY DEF BlockType
<1> QED BY <1>1, <1>2, <1>3, Zenon

LEMMA BlockRecordRead ==
  ASSUME NEW o \in BlockRecordType, NEW b, ParseFromString("PBlockRecord", b) = ToPBlockRecord(o)
  PROVE  BlockRecord_deserialize(b) = o
<1> DEFINE p == ToPBlockRecord(o)
<1>1. /\ HeaderOf(p) = o.block_header /\ p.height = o.height
      /\ p.num_transactions = o.num_transactions
      /\ p.block_file_stored = o.block_file_stored
      /\ p.block_offset_start = o.block_offset_start
      /\ p.block_offset_end = o.block_offset_end
      /\ p.undo_file_stored = o.undo_file_stored
      /\ p.undo_offset_start = o.undo_offset_start
      /\ p.undo_offset_end = o.undo_offset_end
  BY BlockRecordConverted
<1>2. /\ UInt16(o.block_offset_start) = o.block_offset_start
      /\ UInt16(o.block_offset_end) = o.block_offset_end
      /\ UInt16(o.undo_offset_start) = o.undo_offset_start
      /\ UInt16(o.undo_offset_end) = o.undo_offset_end
  <2>1. /\ o.block_offset_start \in UInt16Type /\ o.block_offset_end \in UInt16Type
        /\ o.undo_offset_start \in UInt16Type /\ o.undo_offset_end \in UInt16Type
    BY DEF BlockRecordType
  <2> QED BY <2>1, SmallNumbers
<1>3. BlockRecord_deserialize(b) =
        [block_header |-> HeaderOf(p), num_transactions |-> p.num_transactions,
         height |-> p.height, block_file_stored |-> p.block_file_stored,
         block_offset_start |-> UInt16(p.block_offset_start),
         block_offset_end |-> UInt16(p.block_offset_end),
         undo_file_stored |-> p.undo_file_stored,
         undo_offset_start |-> UInt16(p.undo_offset_start),
         undo_offset_end |-> UInt16(p.undo_offset_end)]
  BY Zenon DEF BlockRecord_deserialize
<1>4. o = [block_header |-> o.block_header, num_transactions |-> o.num_transactions,
           height |-> o.height, block_file_stored |-> o.block_file_stored,
           block_offset_start |-> o.block_offset_start,
           block_offset_end |-> o.block_offset_end,
           undo_file_stored |-> o.undo_file_stored,
           undo_offset_start |-> o.undo_offset_start,
           undo_offset_end |-> o.undo_offset_end]
  BY DEF BlockRecordType
<1> HIDE DEF p
<1> QED BY <1>1, <1>2, <1>3, <1>4, Zenon

\* An undo block is read without reading past the end of a list.
LEMMA UndoBlockRead ==
  ASSUME NEW o \in Object["UndoBlock"], ~SomeReadsPast(make_undo_block(o).undo_coin_records),
         NEW b, ParseFromString("PUndoBlock", b) = ToPUndoBlock(make_undo_block(o))
  PROVE  /\ UndoBlock_deserialize(b)
              = [make_undo_block(o) EXCEPT !.undo_coin_records = Each(Listed, @)]
         /\ LET p == ParseFromString("PUndoBlock", b)
            IN  /\ ~(Len(p.transaction_hashes) > Len(p.undo_coin_records))
                /\ ~SomeReadsPast(p.undo_coin_records)
<1> DEFINE undo == make_undo_block(o)
           p == ToPUndoBlock(undo)
           hashes == undo.transaction_hashes
           records == undo.undo_coin_records
           coins == p.undo_coin_records
           n == Len(records)
<1>1. /\ hashes \in Seq(UInt32Type) /\ records \in Seq(CoinRecordType)
      /\ undo = [transaction_hashes |-> hashes, undo_coin_records |-> records]
      /\ Len(records) = Len(hashes) /\ p.transaction_hashes = hashes
      /\ Len(coins) = Len(records) /\ ~SomeReadsPast(coins)
      /\ \A i \in DOMAIN records : ToCoinRecord(coins[i]) = Listed(records[i])
  BY UndoBlockWritten
<1>2. UndoBlock_deserialize(b) =
        [transaction_hashes |-> p.transaction_hashes,
         undo_coin_records |-> [i \in DOMAIN p.transaction_hashes |-> ToCoinRecord(coins[i])]]
  BY Zenon DEF UndoBlock_deserialize
<1>3. ParseFromString("PUndoBlock", b) = p
  OBVIOUS
<1> DEFINE recoverable == [undo EXCEPT !.undo_coin_records = Each(Listed, @)]
<1>4. recoverable = [undo EXCEPT !.undo_coin_records = Each(Listed, records)]
  OBVIOUS
<1> HIDE DEF p, undo, hashes, coins, records, n, recoverable
<1>5. n \in Nat /\ DOMAIN records = 1 .. n /\ DOMAIN hashes = 1 .. n
  BY <1>1, LenProperties DEF n
<1>6. [i \in DOMAIN p.transaction_hashes |-> ToCoinRecord(coins[i])] = Each(Listed, records)
  BY <1>1, <1>5 DEF Each
<1>7. recoverable = [transaction_hashes |-> hashes, undo_coin_records |-> Each(Listed, records)]
  <2> DEFINE listed == Each(Listed, records)
  <2>1. undo = [transaction_hashes |-> hashes, undo_coin_records |-> records]
    BY <1>1
  <2> HIDE DEF listed
  <2>2. [undo EXCEPT !.undo_coin_records = listed]
          = [transaction_hashes |-> hashes, undo_coin_records |-> listed]
    BY <2>1
  <2> QED BY <1>4, <2>2 DEF listed
<1>8. UndoBlock_deserialize(b) = recoverable
  BY <1>1, <1>2, <1>6, <1>7, Zenon
<1>9. ~(Len(p.transaction_hashes) > Len(p.undo_coin_records)) /\ ~SomeReadsPast(p.undo_coin_records)
  BY <1>1, <1>5 DEF coins, n
<1> QED BY <1>3, <1>8, <1>9, Zenon DEF recoverable, undo

-----------------------------------------------------------------------------
(* Objects of which the end is missing. *)

\* Lists that begin alike do so in the sense of the properties.
LEMMA ListsBegin ==
  ASSUME NEW part, NEW whole, ListBegins(part, whole), IsList(whole)
  PROVE  Begins(part, whole)
<1> DEFINE n == Len(part)
<1>1. PICK S : part \in Seq(S)
  BY DEF ListBegins, IsList
<1>2. PICK T : whole \in Seq(T)
  BY DEF IsList
<1>3. n \in Nat /\ Len(whole) \in Nat /\ n <= Len(whole)
  BY <1>1, <1>2, LenProperties DEF ListBegins
<1>4. SubSeq(part, 1, n - 1) = [i \in 1 .. n - 1 |-> part[i]]
  <2> HIDE DEF n
  <2>1. n = Len(part)
    BY DEF n
  <2> QED BY <1>1, <1>3, <2>1
<1>5. SubSeq(whole, 1, n - 1) = [i \in 1 .. n - 1 |-> whole[i]]
  <2> HIDE DEF n
  <2> QED BY <1>2, <1>3
<1>6. \A i \in 1 .. n - 1 : part[i] = whole[i]
  BY DEF ListBegins
<1>7. SubSeq(part, 1, n - 1) = SubSeq(whole, 1, n - 1)
  <2> HIDE DEF n
  <2> QED BY <1>4, <1>5, <1>6
<1> QED BY <1>3, <1>7 DEF Begins

LEMMA EachList ==
  ASSUME NEW list, IsList(list), NEW c, c = [i \in DOMAIN list |-> c[i]]
  PROVE  /\ IsList(c) /\ Len(c) = Len(list) /\ DOMAIN list = 1 .. Len(list) /\ Len(list) \in Nat
         /\ (c # <<>>) => (list # <<>> /\ Len(list) \in DOMAIN list)
<1>1. PICK S : list \in Seq(S)
  BY DEF IsList
<1>2. Len(list) \in Nat /\ DOMAIN list = 1 .. Len(list)
  BY <1>1, LenProperties
<1> DEFINE T == {c[i] : i \in DOMAIN list}
<1>3. c \in [1 .. Len(list) -> T]
  BY <1>2
<1> HIDE DEF T
<1>4. c \in Seq(T) /\ Len(c) = Len(list)
  BY <1>2, <1>3
<1>5. c # <<>> => list # <<>> /\ Len(list) # 0
  BY <1>1, <1>4, EmptySeq
<1> QED BY <1>2, <1>4, <1>5 DEF IsList

\* What the first elements of a list are converted to.
LEMMA EachBegins ==
  ASSUME NEW l, NEW list, ListBegins(l, list), IsList(list),
         NEW c, c = [i \in DOMAIN l |-> c[i]], NEW w, w = [i \in DOMAIN list |-> w[i]],
         \A i \in DOMAIN l : i \in DOMAIN list /\ l[i] = list[i] => c[i] = w[i]
  PROVE  /\ ListBegins(c, w) /\ Begins(c, w)
         /\ c # <<>> => /\ l # <<>> /\ Len(c) = Len(l)
                        /\ Len(l) \in DOMAIN l /\ Len(l) \in DOMAIN list
<1>1. /\ IsList(l) /\ Len(l) <= Len(list) /\ \A i \in 1 .. Len(l) - 1 : l[i] = list[i]
  BY DEF ListBegins
<1>2. /\ IsList(c) /\ Len(c) = Len(l) /\ DOMAIN l = 1 .. Len(l) /\ Len(l) \in Nat
      /\ (c # <<>>) => (l # <<>> /\ Len(l) \in DOMAIN l)
  BY <1>1, EachList
<1>3. IsList(w) /\ Len(w) = Len(list) /\ DOMAIN list = 1 .. Len(list) /\ Len(list) \in Nat
  BY EachList
<1>4. ASSUME NEW i \in 1 .. Len(c) - 1 PROVE c[i] = w[i]
  <2>1. i \in DOMAIN l /\ i \in DOMAIN list /\ i \in 1 .. Len(l) - 1
    BY <1>1, <1>2, <1>3
  <2> QED BY <1>1, <2>1
<1>5. ListBegins(c, w)
  BY <1>1, <1>2, <1>3, <1>4 DEF ListBegins
<1>6. Begins(c, w)
  BY <1>3, <1>5, ListsBegin
<1> QED BY <1>1, <1>2, <1>3, <1>5, <1>6

\* What CutKeepsPrefix says of a transaction.
TransactionKept(last, was) ==
  /\ Begins(last.transaction_inputs, was.transaction_inputs)
  /\ Begins(last.transaction_outputs, was.transaction_outputs)
  /\ last.transaction_outputs # <<>> => last.transaction_inputs = was.transaction_inputs

\* The transaction that is made of a cut message.
LEMMA TransactionCutRead ==
  ASSUME NEW q, NEW m \in PTransactions, TransactionCut(q, m)
  PROVE  TransactionKept(ToTransaction(q), ToTransaction(m))
<1> DEFINE qi == q.transaction_inputs
           mi == m.transaction_inputs
           qo == q.transaction_outputs
           mo == m.transaction_outputs
           last == ToTransaction(q)
           was == ToTransaction(m)
           li == Each(ToTransactionInput, qi)
           wi == Each(ToTransactionInput, mi)
           lo == Each(ToTransactionOutput, qo)
           wo == Each(ToTransactionOutput, mo)
<1>1. IsList(mi) /\ IsList(mo)
  BY DEF IsList, PTransactions
<1>2. ListBegins(qi, mi) /\ ListBegins(qo, mo) /\ (qo # <<>> => qi = mi)
  BY DEF TransactionCut
<1>3. /\ last.transaction_inputs = li /\ last.transaction_outputs = lo
      /\ was.transaction_inputs = wi /\ was.transaction_outputs = wo
  BY DEF ToTransaction
<1> HIDE DEF qi, mi, qo, mo, last, was
<1>4. Begins(li, wi)
  <2>1. /\ li = [i \in DOMAIN qi |-> ToTransactionInput(qi[i])]
        /\ wi = [i \in DOMAIN mi |-> ToTransactionInput(mi[i])]
    BY DEF Each
  <2> HIDE DEF li, wi
  <2>2. li = [i \in DOMAIN qi |-> li[i]] /\ wi = [i \in DOMAIN mi |-> wi[i]]
    BY <2>1
  <2>3. ASSUME NEW i \in DOMAIN qi, i \in DOMAIN mi, qi[i] = mi[i]
        PROVE  li[i] = wi[i]
    BY <2>1, <2>3
  <2> QED BY <1>1, <1>2, <2>2, <2>3, EachBegins
<1>5. Begins(lo, wo) /\ (lo # <<>> => qo # <<>>)
  <2>1. /\ lo = [i \in DOMAIN qo |-> ToTransactionOutput(qo[i])]
        /\ wo = [i \in DOMAIN mo |-> ToTransactionOutput(mo[i])]
    BY DEF Each
  <2> HIDE DEF lo, wo
  <2>2. lo = [i \in DOMAIN qo |-> lo[i]] /\ wo = [i \in DOMAIN mo |-> wo[i]]
    BY <2>1
  <2>3. ASSUME NEW i \in DOMAIN qo, i \in DOMAIN mo, qo[i] = mo[i]
        PROVE  lo[i] = wo[i]
    BY <2>1, <2>3
  <2> QED BY <1>1, <1>2, <2>2, <2>3, EachBegins
<1>6. lo # <<>> => li = wi
  BY <1>2, <1>5, Zenon
<1> HIDE DEF li, lo, wi, wo
<1> QED BY <1>3, <1>4, <1>5, <1>6, Zenon DEF TransactionKept, last, was

LEMMA TransactionAllKept ==
  ASSUME NEW t \in TransactionType
  PROVE  TransactionKept(t, t)
<1> DEFINE ins == t.transaction_inputs
           outs == t.transaction_outputs
<1>1. ins \in Seq(TransactionInputType) /\ outs \in Seq(TransactionOutputType)
  BY DEF TransactionType
<1> HIDE DEF ins, outs
<1>2. IsList(ins) /\ IsList(outs) /\ Len(ins) \in Nat /\ Len(outs) \in Nat
  BY <1>1, LenProperties DEF IsList
<1>3. ListBegins(ins, ins) /\ ListBegins(outs, outs)
  BY <1>2 DEF ListBegins
<1>4. Begins(ins, ins) /\ Begins(outs, outs)
  BY <1>2, <1>3, ListsBegin
<1> QED BY <1>4 DEF TransactionKept, ins, outs

\* What CutKeepsPrefix says of a block.
BlockKept(r, o) ==
  LET cut == r.transactions IN
  /\ Begins(cut, o.transactions)
  /\ cut # <<>> =>
       /\ r.block_header = o.block_header
       /\ TransactionKept(cut[Len(cut)], o.transactions[Len(cut)])

\* The block that is made of a cut message.
LEMMA BlockCutRead ==
  ASSUME NEW o \in BlockType, NEW p, BlockCut(p, ToPBlock(o)), NEW r,
         r = [block_header |-> HeaderOf(p), transactions |-> Each(ToTransaction, p.transactions)]
  PROVE  BlockKept(r, o)
<1> DEFINE m == ToPBlock(o)
           l == p.transactions
           list == m.transactions
           c == Each(ToTransaction, l)
           w == Each(ToTransaction, list)
           txs == o.transactions
           n == Len(l)
<1>1. m \in PBlocks /\ HeaderOf(m) = o.block_header /\ w = txs
  BY BlockConverted
<1>2. list \in Seq(PTransactions) /\ IsList(list)
  BY <1>1 DEF PBlocks, IsList
<1>3. /\ ListBegins(l, list)
      /\ l # <<>> => p.block_header = m.block_header
      /\ l # <<>> => l[n] = list[n] \/ TransactionCut(l[n], list[n])
  BY DEF BlockCut
<1>4. p.block_header = m.block_header => HeaderOf(p) = HeaderOf(m)
  BY DEF HeaderOf
<1>5. r.transactions = c /\ r.block_header = HeaderOf(p)
  OBVIOUS
<1>6. txs \in Seq(TransactionType)
  BY DEF BlockType
<1> HIDE DEF l, list, m, txs
<1>7. /\ c = [i \in DOMAIN l |-> ToTransaction(l[i])]
      /\ w = [i \in DOMAIN list |-> ToTransaction(list[i])]
  BY DEF Each
<1> HIDE DEF c, w
<1>8. /\ Begins(c, w)
      /\ c # <<>> => l # <<>> /\ Len(c) = n /\ n \in DOMAIN l /\ n \in DOMAIN list
  <2>1. c = [i \in DOMAIN l |-> c[i]] /\ w = [i \in DOMAIN list |-> w[i]]
    BY <1>7
  <2>2. ASSUME NEW i \in DOMAIN l, i \in DOMAIN list, l[i] = list[i]
        PROVE  c[i] = w[i]
    BY <1>7, <2>2
  <2> QED BY <1>2, <1>3, <2>1, <2>2, EachBegins
<1>9. ASSUME c # <<>> PROVE TransactionKept(c[n], txs[n])
  <2>1. n \in DOMAIN l /\ n \in DOMAIN list /\ l # <<>>
    BY <1>8, <1>9
  <2>2. c[n] = ToTransaction(l[n]) /\ w[n] = ToTransaction(list[n]) /\ w[n] = txs[n]
    BY <1>1, <1>7, <2>1
  <2>3. list[n] \in PTransactions
    BY <1>2, <2>1, ElementOfSeq
  <2>4. CASE l[n] = list[n]
    <3>1. n \in DOMAIN txs
      BY <1>1, <1>7, <2>1
    <3>2. txs[n] \in TransactionType
      BY <1>6, <3>1, ElementOfSeq
    <3>3. TransactionKept(txs[n], txs[n])
      BY <3>2, TransactionAllKept
    <3> QED BY <2>2, <2>4, <3>3, Zenon
  <2>5. CASE TransactionCut(l[n], list[n])
    <3> DEFINE q == l[n]
               e == list[n]
    <3>1. TransactionCut(q, e) /\ e \in PTransactions
      BY <2>3, <2>5
    <3> HIDE DEF q, e
    <3>2. TransactionKept(ToTransaction(q), ToTransaction(e))
      BY <3>1, TransactionCutRead
    <3> QED BY <2>2, <3>2, Zenon DEF q, e
  <2> QED BY <1>3, <2>1, <2>4, <2>5
<1>10. c # <<>> => r.block_header = o.block_header
  BY <1>1, <1>3, <1>4, <1>5, <1>8, Zenon
<1> QED BY <1>1, <1>5, <1>8, <1>9, <1>10, Zenon DEF BlockKept, txs

\* What CutUndoBlock says of a record.
CoinKept(last, was) ==
  last.utxo = <<>> \/ last = [was EXCEPT !.public_keys = last.public_keys]

\* The record that is made of a message.
LEMMA ToCoinRecordIs ==
  ASSUME NEW p
  PROVE  ToCoinRecord(p) = [version |-> UInt8(p.version), utxo |-> p.utxo,
                            amounts |-> SubSeq(p.amounts, 1, Len(p.utxo)),
                            public_keys |-> SubSeq(p.public_keys, 1, Len(p.utxo))]
<1> DEFINE ver == p.version
           utxo == p.utxo
           amounts == SubSeq(p.amounts, 1, Len(p.utxo))
           keys == SubSeq(p.public_keys, 1, Len(p.utxo))
           l == Listed(p)
<1>1. l = [version |-> ver, utxo |-> utxo, amounts |-> amounts, public_keys |-> keys]
  BY Zenon DEF Listed
<1>2. ToCoinRecord(p) = [l EXCEPT !.version = UInt8(l.version)]
  BY Zenon DEF ToCoinRecord
<1> HIDE DEF ver, utxo, amounts, keys, l
<1>3. ToCoinRecord(p)
        = [version |-> UInt8(ver), utxo |-> utxo, amounts |-> amounts, public_keys |-> keys]
  BY <1>1, <1>2
<1> QED BY <1>3, Zenon DEF ver, utxo, amounts, keys

\* The record that is made of a cut message.
LEMMA CoinCutRead ==
  ASSUME NEW q, NEW m, q = m \/ CoinCut(q, m), ~ReadsPast(q)
  PROVE  CoinKept(ToCoinRecord(q), ToCoinRecord(m))
<1> DEFINE n == Len(q.utxo)
           last == [version |-> UInt8(q.version), utxo |-> q.utxo,
                    amounts |-> SubSeq(q.amounts, 1, n), public_keys |-> SubSeq(q.public_keys, 1, n)]
           k == Len(m.utxo)
           was == [version |-> UInt8(m.version), utxo |-> m.utxo,
                   amounts |-> SubSeq(m.amounts, 1, k), public_keys |-> SubSeq(m.public_keys, 1, k)]
<1>1. ToCoinRecord(q) = last /\ ToCoinRecord(m) = was
  BY ToCoinRecordIs, Zenon
<1>2. CASE q.version = m.version /\ q.utxo = m.utxo /\ q.amounts = m.amounts
  <2> DEFINE ver == UInt8(m.version)
             utxo == m.utxo
             amounts == SubSeq(m.amounts, 1, k)
             keys == SubSeq(q.public_keys, 1, k)
             others == SubSeq(m.public_keys, 1, k)
  <2>1. /\ last = [version |-> ver, utxo |-> utxo, amounts |-> amounts, public_keys |-> keys]
        /\ was = [version |-> ver, utxo |-> utxo, amounts |-> amounts, public_keys |-> others]
    BY <1>2, Zenon
  <2> HIDE DEF ver, utxo, amounts, keys, others, last, was
  <2>2. last = [was EXCEPT !.public_keys = last.public_keys]
    BY <2>1
  <2> QED BY <1>1, <2>2, Zenon DEF CoinKept
<1>3. CASE q.utxo \in Seq(Nat) /\ q.public_keys = <<>>
  <2> DEFINE utxo == q.utxo
  <2>1. utxo \in Seq(Nat) /\ ~(Len(utxo) > 0)
    <3>1. Len(q.public_keys) = 0
      BY <1>3, EmptySeq
    <3>2. ~(Len(utxo) > Len(q.public_keys))
      BY DEF ReadsPast
    <3> QED BY <1>3, <3>1, <3>2
  <2>2. last.utxo = utxo
    OBVIOUS
  <2> HIDE DEF utxo, last
  <2>3. Len(utxo) \in Nat
    BY <2>1, LenProperties
  <2>4. Len(utxo) = 0
    BY <2>1, <2>3
  <2>5. utxo = <<>>
    BY <2>1, <2>4, EmptySeq
  <2> QED BY <1>1, <2>2, <2>5, Zenon DEF CoinKept
<1>4. CASE q = m
  BY <1>2, <1>4
<1> QED BY <1>2, <1>3, <1>4, Zenon DEF CoinCut

\* What CutUndoBlock says of an undo block.
UndoBlockKept(r, all) ==
  \/ r = [transaction_hashes |-> <<>>, undo_coin_records |-> <<>>]
  \/ /\ r.transaction_hashes = all.transaction_hashes
     /\ Begins(r.undo_coin_records, all.undo_coin_records)
     /\ LET n == Len(r.undo_coin_records) IN
        CoinKept(r.undo_coin_records[n], all.undo_coin_records[n])

\* What is read of the message p, and what can be recovered of the message m.
LEMMA UndoBlockCutRead ==
  ASSUME NEW m \in PUndoBlocks, NEW p, UndoBlockCut(p, m),
         ~(Len(p.transaction_hashes) > Len(p.undo_coin_records)),
         ~SomeReadsPast(p.undo_coin_records),
         Len(m.undo_coin_records) = Len(m.transaction_hashes),
         NEW all, all.transaction_hashes = m.transaction_hashes,
         all.undo_coin_records = Each(ToCoinRecord, m.undo_coin_records),
         NEW r, r = [transaction_hashes |-> p.transaction_hashes,
                     undo_coin_records |->
                       [i \in DOMAIN p.transaction_hashes |-> ToCoinRecord(p.undo_coin_records[i])]]
  PROVE  UndoBlockKept(r, all)
<1> DEFINE hashes == p.transaction_hashes
           l == p.undo_coin_records
           mh == m.transaction_hashes
           list == m.undo_coin_records
           c == [i \in DOMAIN hashes |-> ToCoinRecord(l[i])]
           w == Each(ToCoinRecord, list)
           n == Len(l)
<1>1. mh \in Seq(UInt32Type) /\ list \in Seq(PCoinRecords) /\ Len(list) = Len(mh)
  BY DEF PUndoBlocks
<1>2. /\ hashes \in Seq(Nat) /\ ListBegins(l, list)
      /\ l # <<>> => hashes = mh
      /\ l # <<>> => (l[n] = list[n] \/ CoinCut(l[n], list[n]))
  BY DEF UndoBlockCut
<1>3. ~(Len(hashes) > Len(l)) /\ ~SomeReadsPast(l)
  OBVIOUS
<1>4. /\ r = [transaction_hashes |-> hashes, undo_coin_records |-> c]
      /\ all.transaction_hashes = mh /\ all.undo_coin_records = w
  OBVIOUS
<1> HIDE DEF hashes, l, mh, list
<1>5. /\ IsList(list) /\ IsList(l) /\ Len(l) <= Len(list)
      /\ DOMAIN l = 1 .. n /\ n \in Nat /\ DOMAIN list = 1 .. Len(list) /\ Len(list) \in Nat
      /\ Len(hashes) \in Nat /\ DOMAIN hashes = 1 .. Len(hashes)
      /\ (l = <<>> <=> n = 0)
  <2>1. IsList(list) /\ IsList(l) /\ Len(l) <= Len(list)
    BY <1>1, <1>2 DEF IsList, ListBegins
  <2>2. PICK S : l \in Seq(S)
    BY <2>1 DEF IsList
  <2> QED BY <1>1, <1>2, <2>1, <2>2, LenProperties, EmptySeq
<1> HIDE DEF n
<1>6. w = [i \in DOMAIN list |-> ToCoinRecord(list[i])]
  BY DEF Each
<1>7. CASE l = <<>>
  <2>1. Len(hashes) = 0
    BY <1>3, <1>5, <1>7 DEF n
  <2>2. hashes = <<>> /\ c = <<>>
    <3>1. hashes = <<>>
      BY <1>2, <2>1, EmptySeq
    <3>2. DOMAIN hashes = {}
      BY <1>5, <2>1
    <3>3. c = <<>>
      BY <3>2
    <3> QED BY <3>1, <3>3
  <2> HIDE DEF c
  <2> QED BY <1>4, <2>2, Zenon DEF UndoBlockKept
<1>8. CASE l # <<>>
  <2> HIDE DEF c, w
  <2>1. hashes = mh /\ Len(hashes) = Len(list)
    BY <1>1, <1>2, <1>8
  <2>2. n = Len(list) /\ n # 0 /\ n \in DOMAIN l /\ n \in DOMAIN list /\ DOMAIN hashes = DOMAIN l
    <3>1. Len(l) = n /\ ~(Len(hashes) > Len(l))
      BY <1>3 DEF n
    <3>2. n # 0
      BY <1>5, <1>8, Zenon
    <3>3. Len(list) \in Nat /\ n \in Nat /\ n <= Len(list) /\ ~(Len(list) > n)
      BY <1>5, <2>1, <3>1, Zenon
    <3>4. n = Len(list)
      BY <3>3
    <3> QED BY <1>5, <2>1, <3>2, <3>4
  <2>3. c = [i \in DOMAIN l |-> ToCoinRecord(l[i])]
    BY <2>2 DEF c
  <2>4. Begins(c, w)
    <3>1. c = [i \in DOMAIN l |-> c[i]] /\ w = [i \in DOMAIN list |-> w[i]]
      BY <1>6, <2>3
    <3>2. ASSUME NEW i \in DOMAIN l, i \in DOMAIN list, l[i] = list[i]
          PROVE  c[i] = w[i]
      BY <1>6, <2>3, <3>2
    <3>3. ListBegins(l, list) /\ IsList(list)
      BY <1>2, <1>5
    <3> QED BY <3>1, <3>2, <3>3, EachBegins
  <2>5. Len(c) = n
    <3>1. c = [i \in DOMAIN l |-> c[i]]
      BY <2>3
    <3> QED BY <1>5, <3>1, EachList DEF n
  <2>6. CoinKept(c[n], w[n])
    <3> DEFINE q == l[n]
               e == list[n]
    <3>1. q = e \/ CoinCut(q, e)
      BY <1>2, <1>8
    <3>2. ~ReadsPast(q)
      BY <1>3, <2>2 DEF SomeReadsPast
    <3>3. c[n] = ToCoinRecord(q) /\ w[n] = ToCoinRecord(e)
      BY <1>6, <2>2, <2>3
    <3> HIDE DEF q, e
    <3>4. CoinKept(ToCoinRecord(q), ToCoinRecord(e))
      BY <3>1, <3>2, CoinCutRead
    <3> QED BY <3>3, <3>4, Zenon
  <2>7. r.transaction_hashes = hashes /\ r.undo_coin_records = c
    BY <1>4
  <2> QED BY <1>4, <2>1, <2>4, <2>5, <2>6, <2>7, Zenon DEF UndoBlockKept
<1> QED BY <1>7, <1>8

\* What is written of an object parses to the message that stands for it.
LEMMA SerializedParses ==
  ASSUME kind \in Kind, object \in Object[kind], ~SerializeReadsPast
  PROVE  /\ kind = "TransactionInput" =>
              Parses("PTransactionInput", Serialized, ToPTransactionInput(object))
         /\ kind = "TransactionOutput" =>
              Parses("PTransactionOutput", Serialized, ToPTransactionOutput(object))
         /\ kind = "Transaction" => Parses("PTransaction", Serialized, ToPTransaction(object))
         /\ kind = "BlockHeader" => Parses("PBlockHeader", Serialized, ToPBlockHeader(object))
         /\ kind = "Block" => ParsesOrCut("PBlock", Serialized, ToPBlock(object))
         /\ kind = "BlockRecord" => Parses("PBlockRecord", Serialized, ToPBlockRecord(object))
         /\ kind = "CoinRecord" => Parses("PCoinRecord", Serialized, ToPCoinRecord(object))
         /\ kind = "UndoBlock" =>
              ParsesOrCut("PUndoBlock", Serialized, ToPUndoBlock(make_undo_block(object)))
<1>1. ASSUME kind = "TransactionInput"
      PROVE  Parses("PTransactionInput", Serialized, ToPTransactionInput(object))
  <2>1. ToPTransactionInput(object) \in PTransactionInputs
    BY <1>1, ObjectTypes, TransactionInputConverted
  <2>2. Serialized = PTransactionInput_InternalSerialize(ToPTransactionInput(object))
    BY <1>1, SerializedIs DEF TransactionInput_serialize
  <2> QED BY <2>1, <2>2, TransactionInputParses DEF ParsesOrCut
<1>2. ASSUME kind = "TransactionOutput"
      PROVE  Parses("PTransactionOutput", Serialized, ToPTransactionOutput(object))
  <2>1. ToPTransactionOutput(object) \in PTransactionOutputs
    BY <1>2, ObjectTypes, TransactionOutputConverted
  <2>2. Serialized = PTransactionOutput_InternalSerialize(ToPTransactionOutput(object))
    BY <1>2, SerializedIs DEF TransactionOutput_serialize
  <2> QED BY <2>1, <2>2, TransactionOutputParses DEF ParsesOrCut
<1>3. ASSUME kind = "Transaction"
      PROVE  Parses("PTransaction", Serialized, ToPTransaction(object))
  <2>1. ToPTransaction(object) \in PTransactions
    BY <1>3, ObjectTypes, TransactionConverted
  <2>2. Serialized = PTransaction_InternalSerialize(ToPTransaction(object))
    BY <1>3, SerializedIs DEF Transaction_serialize
  <2> QED BY <2>1, <2>2, TransactionParses DEF ParsesOrCut
<1>4. ASSUME kind = "BlockHeader"
      PROVE  Parses("PBlockHeader", Serialized, ToPBlockHeader(object))
  <2>1. ToPBlockHeader(object) \in PBlockHeaders
    BY <1>4, ObjectTypes, BlockHeaderConverted
  <2>2. Serialized = PBlockHeader_InternalSerialize(ToPBlockHeader(object))
    BY <1>4, SerializedIs DEF BlockHeader_serialize
  <2> QED BY <2>1, <2>2, BlockHeaderParses DEF ParsesOrCut
<1>5. ASSUME kind = "Block"
      PROVE  ParsesOrCut("PBlock", Serialized, ToPBlock(object))
  <2> DEFINE m == ToPBlock(object)
  <2>1. m \in PBlocks
    BY <1>5, ObjectTypes, BlockConverted
  <2>2. Serialized = PBlock_InternalSerialize(m)
    BY <1>5, SerializedIs DEF Block_serialize
  <2>3. Len(m.block_header) = 1
    BY HeaderSet
  <2> HIDE DEF m
  <2>4. ParsesOrCut("PBlock", PBlock_InternalSerialize(m), m)
    BY <2>1, <2>3, BlockParses
  <2> QED BY <2>2, <2>4 DEF m
<1>6. ASSUME kind = "BlockRecord"
      PROVE  Parses("PBlockRecord", Serialized, ToPBlockRecord(object))
  <2> DEFINE m == ToPBlockRecord(object)
  <2>1. m \in PBlockRecords
    BY <1>6, ObjectTypes, BlockRecordConverted
  <2>2. Serialized = PBlockRecord_InternalSerialize(m)
    BY <1>6, SerializedIs DEF BlockRecord_serialize
  <2>3. Len(m.block_header) = 1
    BY HeaderSet
  <2> HIDE DEF m
  <2>4. Parses("PBlockRecord", PBlockRecord_InternalSerialize(m), m)
    BY <2>1, <2>3, BlockRecordParses
  <2> QED BY <2>2, <2>4 DEF m
<1>7. ASSUME kind = "CoinRecord"
      PROVE  Parses("PCoinRecord", Serialized, ToPCoinRecord(object))
  <2>1. ToPCoinRecord(object) \in PCoinRecords
    BY <1>7, ObjectTypes, CompleteIsWritten, CoinRecordConverted
  <2>2. Serialized = PCoinRecord_InternalSerialize(ToPCoinRecord(object))
    BY <1>7, SerializedIs DEF CoinRecord_serialize
  <2>3. CoinType("PCoinRecord")
    BY DEF CoinType
  <2>4. ParsesOrCut("PCoinRecord", Serialized, ToPCoinRecord(object))
    BY <2>1, <2>2, <2>3, CoinRecordParses
  <2> QED BY <2>4 DEF ParsesOrCut
<1>8. ASSUME kind = "UndoBlock"
      PROVE  ParsesOrCut("PUndoBlock", Serialized, ToPUndoBlock(make_undo_block(object)))
  <2>1. ToPUndoBlock(make_undo_block(object)) \in PUndoBlocks
    BY <1>8, UndoBlockWritten DEF SerializeReadsPast
  <2>2. Serialized = PUndoBlock_InternalSerialize(ToPUndoBlock(make_undo_block(object)))
    BY <1>8, SerializedIs DEF UndoBlock_serialize
  <2> QED BY <2>1, <2>2, UndoBlockParses
<1> QED BY <1>1, <1>2, <1>3, <1>4, <1>5, <1>6, <1>7, <1>8

\* The bytes are read as if what was written were alone.
ReadAlike ==
  \A type, m :
    (kind \in InFile => type \in {"PBlock", "PUndoBlock"}) /\ Parses(type, Serialized, m)
    => ParseFromString(type, bytes) = m

LEMMA ReadBack ==
  ASSUME kind \in Kind, object \in Object[kind], ~SerializeReadsPast, ReadAlike,
         Len(bytes) \in Nat, Len(Serialized) \in Nat, Len(Serialized) <= Len(bytes)
  PROVE  Deserialized = Recoverable /\ ~DeserializeReadsPast
<1>1. kind # "UndoBlock" => Recoverable = object /\ ~DeserializeReadsPast
  BY DEF Recoverable, DeserializeReadsPast
<1>2. CASE kind = "TransactionInput"
  <2>1. ParseFromString("PTransactionInput", bytes) = ToPTransactionInput(object)
    BY <1>2, SerializedParses DEF ReadAlike, InFile
  <2>2. ToTransactionInput(ToPTransactionInput(object)) = object
    BY <1>2, ObjectTypes, TransactionInputConverted
  <2>3. Deserialized = ToTransactionInput(ParseFromString("PTransactionInput", bytes))
    BY <1>2, DeserializedIs DEF TransactionInput_deserialize
  <2> QED BY <1>1, <1>2, <2>1, <2>2, <2>3
<1>3. CASE kind = "TransactionOutput"
  <2>1. ParseFromString("PTransactionOutput", bytes) = ToPTransactionOutput(object)
    BY <1>3, SerializedParses DEF ReadAlike, InFile
  <2>2. ToTransactionOutput(ToPTransactionOutput(object)) = object
    BY <1>3, ObjectTypes, TransactionOutputConverted
  <2>3. Deserialized = ToTransactionOutput(ParseFromString("PTransactionOutput", bytes))
    BY <1>3, DeserializedIs DEF TransactionOutput_deserialize
  <2> QED BY <1>1, <1>3, <2>1, <2>2, <2>3
<1>4. CASE kind = "Transaction"
  <2>1. ParseFromString("PTransaction", bytes) = ToPTransaction(object)
    BY <1>4, SerializedParses DEF ReadAlike, InFile
  <2>2. ToTransaction(ToPTransaction(object)) = object
    BY <1>4, ObjectTypes, TransactionConverted
  <2>3. Deserialized = ToTransaction(ParseFromString("PTransaction", bytes))
    BY <1>4, DeserializedIs DEF Transaction_deserialize
  <2> QED BY <1>1, <1>4, <2>1, <2>2, <2>3
<1>5. CASE kind = "BlockHeader"
  <2>1. ParseFromString("PBlockHeader", bytes) = ToPBlockHeader(object)
    BY <1>5, SerializedParses DEF ReadAlike, InFile
  <2>2. ToBlockHeader(ToPBlockHeader(object)) = object
    BY <1>5, ObjectTypes, BlockHeaderConverted
  <2>3. Deserialized = ToBlockHeader(ParseFromString("PBlockHeader", bytes))
    BY <1>5, DeserializedIs DEF BlockHeader_deserialize
  <2> QED BY <1>1, <1>5, <2>1, <2>2, <2>3
<1>6. CASE kind = "Block"
  <2>1. Parses("PBlock", Serialized, ToPBlock(object))
    BY <1>6, SerializedParses DEF ParsesOrCut
  <2>2. ParseFromString("PBlock", bytes) = ToPBlock(object)
    BY <2>1 DEF ReadAlike
  <2>3. Len(Serialized) # 0
    <3>1. ToPBlock(object) # Cleared["PBlock"]
      BY BlockNotCleared
    <3> QED BY <2>1, <3>1, NothingParsed
  <2>4. bytes # <<>>
    <3>1. Len(bytes) # 0
      BY <2>3
    <3>2. Len(<<>>) = 0
      BY EmptySeq
    <3> QED BY <3>1, <3>2, Zenon
  <2>5. object \in BlockType
    BY <1>6, ObjectTypes
  <2>6. Block_deserialize(bytes) = object
    BY <2>2, <2>4, <2>5, BlockRead
  <2>7. Deserialized = Block_deserialize(bytes)
    BY <1>6, DeserializedIs
  <2> QED BY <1>1, <1>6, <2>6, <2>7
<1>7. CASE kind = "BlockRecord"
  <2>1. ParseFromString("PBlockRecord", bytes) = ToPBlockRecord(object)
    BY <1>7, SerializedParses DEF ReadAlike, InFile
  <2>2. object \in BlockRecordType
    BY <1>7, ObjectTypes
  <2>3. BlockRecord_deserialize(bytes) = object
    BY <2>1, <2>2, BlockRecordRead
  <2>4. Deserialized = BlockRecord_deserialize(bytes)
    BY <1>7, DeserializedIs
  <2> QED BY <1>1, <1>7, <2>3, <2>4
<1>8. CASE kind = "CoinRecord"
  <2>1. ParseFromString("PCoinRecord", bytes) = ToPCoinRecord(object)
    BY <1>8, SerializedParses DEF ReadAlike, InFile
  <2>2. ToCoinRecord(ToPCoinRecord(object)) = object
    <3>1. object \in CoinRecordType /\ Complete(object) /\ ~ReadsPast(object)
      BY <1>8, ObjectTypes, CompleteIsWritten
    <3> QED BY <3>1, CoinRecordConverted
  <2>3. Deserialized = ToCoinRecord(ParseFromString("PCoinRecord", bytes))
    BY <1>8, DeserializedIs DEF CoinRecord_deserialize
  <2> QED BY <1>1, <1>8, <2>1, <2>2, <2>3
<1>9. CASE kind = "UndoBlock"
  <2> DEFINE undo == make_undo_block(object)
  <2>1. ParseFromString("PUndoBlock", bytes) = ToPUndoBlock(undo)
    <3>1. Parses("PUndoBlock", Serialized, ToPUndoBlock(undo))
      BY <1>9, SerializedParses DEF ParsesOrCut
    <3> QED BY <3>1 DEF ReadAlike
  <2>2. object \in Object["UndoBlock"] /\ ~SomeReadsPast(undo.undo_coin_records)
    BY <1>9 DEF SerializeReadsPast
  <2>3. /\ UndoBlock_deserialize(bytes) = [undo EXCEPT !.undo_coin_records = Each(Listed, @)]
        /\ LET p == ParseFromString("PUndoBlock", bytes)
           IN  /\ ~(Len(p.transaction_hashes) > Len(p.undo_coin_records))
               /\ ~SomeReadsPast(p.undo_coin_records)
    BY <2>1, <2>2, UndoBlockRead
  <2>4. Deserialized = UndoBlock_deserialize(bytes)
    BY <1>9, DeserializedIs
  <2>5. Recoverable = [undo EXCEPT !.undo_coin_records = Each(Listed, @)]
    BY <1>9 DEF Recoverable
  <2>6. ~DeserializeReadsPast
    BY <2>3, Zenon DEF DeserializeReadsPast
  <2> QED BY <2>3, <2>4, <2>5, <2>6, Zenon
<1> QED BY <1>2, <1>3, <1>4, <1>5, <1>6, <1>7, <1>8, <1>9 DEF Kind

\* protobuf can serialize what is written.
LEMMA SerializedFits ==
  ASSUME kind \in Kind, object \in Object[kind], ~SerializeReadsPast
  PROVE  Serialized \in Seq(Nat) /\ Len(Serialized) \in Nat /\ Len(Serialized) <= INT_MAX
<1>1. Serialized \in Seq(Nat) /\ Len(Serialized) = ByteSizeLong(kind, object)
  BY SerializedSize DEF Writes
<1>2. ByteSizeLong(kind, object) <= INT_MAX
  BY CodecAssumption DEF SerializeReadsPast
<1>3. Len(Serialized) \in Nat
  BY <1>1, LenProperties
<1>4. Len(Serialized) <= INT_MAX
  BY <1>1, <1>2, Zenon
<1> QED BY <1>1, <1>3, <1>4

\* As it was written.
LEMMA StoredRead ==
  ASSUME kind \in Kind, object \in Object[kind], ~SerializeReadsPast, bytes = Serialized
  PROVE  Deserialized = Recoverable /\ ~DeserializeReadsPast
<1>1. Serialized \in Seq(Nat) /\ Len(Serialized) \in Nat /\ Len(Serialized) <= INT_MAX
  BY SerializedFits
<1>2. ReadAlike
  <2>1. ASSUME NEW type, NEW m, Parses(type, Serialized, m)
        PROVE  ParseFromString(type, bytes) = m
    BY <1>1, <2>1, ParsedAlone
  <2> QED BY <2>1, Zenon DEF ReadAlike
<1>3. Len(bytes) \in Nat /\ Len(Serialized) <= Len(bytes)
  BY <1>1
<1> QED BY <1>1, <1>2, <1>3, ReadBack

\* What the record is followed by, past its end.
FollowedBy(f) == bytes = Serialized \o <<0>> \o f

LEMMA LongerRead ==
  ASSUME kind \in InFile, object \in Object[kind], ~SerializeReadsPast,
         NEW f \in Following, FollowedBy(f)
  PROVE  Deserialized = Recoverable /\ ~DeserializeReadsPast
<1>1. kind \in Kind
  BY DEF InFile, Kind
<1>2. Serialized \in Seq(Nat) /\ Len(Serialized) \in Nat /\ Len(Serialized) <= INT_MAX
  BY <1>1, SerializedFits
<1>3. f \in Seq(Nat)
  <2>1. Byte \subseteq Nat
    BY DEF Byte
  <2>2. f \in Seq(Byte)
    BY CodecAssumption
  <2> QED BY <2>1, <2>2, SeqMonotonic
<1>4. Terminated(bytes, Serialized)
  BY <1>2, <1>3, TerminatedIs DEF FollowedBy
<1>5. ReadAlike
  <2>1. ASSUME NEW type, type \in {"PBlock", "PUndoBlock"}, NEW m, Parses(type, Serialized, m)
        PROVE  ParseFromString(type, bytes) = m
    <3>1. FieldOf("PBlock", 0) = NoField
      BY DEF FieldOf, PBlock_InternalParse
    <3>2. FieldOf("PUndoBlock", 0) = NoField
      BY DEF FieldOf, PUndoBlock_InternalParse
    <3>3. FieldOf(type, 0) = NoField
      BY <2>1, <3>1, <3>2
    <3> QED BY <1>2, <1>4, <2>1, <3>3, ParsedTerminated
  <2> QED BY <2>1, Zenon DEF ReadAlike
<1>6. Len(bytes) \in Nat /\ Len(Serialized) <= Len(bytes)
  BY <1>4 DEF Terminated
<1> QED BY <1>1, <1>2, <1>5, <1>6, ReadBack

\* Less of it than was written.
CutAt(length) == bytes = SubSeq(Serialized, 1, length)

\* A block that is read short of its end.
LEMMA BlockShorterRead ==
  ASSUME kind = "Block", object \in Object[kind], NEW length \in 0 .. Len(Serialized) - 1,
         CutAt(length)
  PROVE  Deserialized = NullBlock \/ BlockKept(Deserialized, object)
<1> DEFINE m == ToPBlock(object)
           p == ParseFromString("PBlock", bytes)
           r == [block_header |-> HeaderOf(p), transactions |-> Each(ToTransaction, p.transactions)]
<1>1. kind \in Kind /\ object \in BlockType /\ ~SerializeReadsPast
  BY ObjectTypes DEF Kind, SerializeReadsPast
<1>2. ParsesOrCut("PBlock", Serialized, m) /\ Len(Serialized) <= INT_MAX
  BY <1>1, SerializedParses, SerializedFits
<1>3. CutOf("PBlock", p, m)
  <2>1. bytes = SubSeq(Serialized, 1, length)
    BY DEF CutAt
  <2> HIDE DEF m
  <2> QED BY <1>2, <2>1, ParsedCut
<1>4. BlockCut(p, m)
  BY <1>3 DEF CutOf
<1>5. Deserialized = NullBlock \/ Deserialized = r
  <2>1. Deserialized = Block_deserialize(bytes)
    BY DeserializedIs
  <2> QED BY <2>1, Zenon DEF Block_deserialize
<1> HIDE DEF p
<1>6. BlockKept(r, object)
  BY <1>1, <1>4, BlockCutRead
<1> QED BY <1>5, <1>6, Zenon

\* An undo block that is read short of its end.
LEMMA UndoBlockShorterRead ==
  ASSUME kind = "UndoBlock", object \in Object[kind], ~SerializeReadsPast, ~DeserializeReadsPast,
         NEW length \in 0 .. Len(Serialized) - 1, CutAt(length)
  PROVE  UndoBlockKept(Deserialized, Recoverable)
<1> DEFINE undo == make_undo_block(object)
           m == ToPUndoBlock(undo)
           p == ParseFromString("PUndoBlock", bytes)
           r == [transaction_hashes |-> p.transaction_hashes,
                 undo_coin_records |->
                   [i \in DOMAIN p.transaction_hashes |-> ToCoinRecord(p.undo_coin_records[i])]]
           records == undo.undo_coin_records
           coins == m.undo_coin_records
           hashes == undo.transaction_hashes
           all == Recoverable
<1>1. kind \in Kind
  BY DEF Kind
<1>2. ParsesOrCut("PUndoBlock", Serialized, m) /\ Len(Serialized) <= INT_MAX
  BY <1>1, SerializedParses, SerializedFits
<1>3. UndoBlockCut(p, m)
  <2>1. bytes = SubSeq(Serialized, 1, length)
    BY DEF CutAt
  <2> HIDE DEF m
  <2>2. CutOf("PUndoBlock", p, m)
    BY <1>2, <2>1, ParsedCut
  <2> QED BY <2>2 DEF CutOf
<1>4. /\ undo = [transaction_hashes |-> hashes, undo_coin_records |-> records]
      /\ Len(records) = Len(hashes) /\ m \in PUndoBlocks /\ m.transaction_hashes = hashes
      /\ DOMAIN coins = DOMAIN records /\ Len(coins) = Len(records)
      /\ \A i \in DOMAIN records : ToCoinRecord(coins[i]) = Listed(records[i])
  <2>1. object \in Object["UndoBlock"] /\ ~SomeReadsPast(make_undo_block(object).undo_coin_records)
    BY DEF SerializeReadsPast
  <2> QED BY <2>1, UndoBlockWritten
<1>5. /\ ~(Len(p.transaction_hashes) > Len(p.undo_coin_records))
      /\ ~SomeReadsPast(p.undo_coin_records)
  BY Zenon DEF DeserializeReadsPast
<1>6. Deserialized = r
  <2>1. Deserialized = UndoBlock_deserialize(bytes)
    BY DeserializedIs
  <2> QED BY <2>1, Zenon DEF UndoBlock_deserialize
<1>7. all = [undo EXCEPT !.undo_coin_records = Each(Listed, records)]
  BY DEF Recoverable
<1> HIDE DEF undo, records, coins, hashes, all
<1>8. Each(ToCoinRecord, coins) = Each(Listed, records)
  BY <1>4 DEF Each
<1>9. all.transaction_hashes = hashes /\ all.undo_coin_records = Each(ToCoinRecord, coins)
  <2> DEFINE listed == Each(Listed, records)
  <2>1. all = [undo EXCEPT !.undo_coin_records = listed]
    BY <1>7
  <2> HIDE DEF listed
  <2>2. all.transaction_hashes = hashes /\ all.undo_coin_records = listed
    BY <1>4, <2>1
  <2> QED BY <1>8, <2>2 DEF listed
<1>10. Len(m.undo_coin_records) = Len(m.transaction_hashes)
  BY <1>4 DEF coins
<1>11. all.transaction_hashes = m.transaction_hashes
  BY <1>4, <1>9
<1>12. all.undo_coin_records = Each(ToCoinRecord, m.undo_coin_records)
  BY <1>9 DEF coins
<1> HIDE DEF m, p
<1>13. UndoBlockKept(r, all)
  BY <1>3, <1>4, <1>5, <1>10, <1>11, <1>12, UndoBlockCutRead
<1> QED BY <1>6, <1>13, Zenon DEF all

-----------------------------------------------------------------------------
(* The states. *)

Pc == {"object", "stored", "longer", "shorter", "read", "undefined"}

\* What is read is what was written, less its end.
CutShort ==
  kind \in InFile /\ \E length \in 0 .. Len(Serialized) - 1 : bytes = SubSeq(Serialized, 1, length)

\* The object that is made of it: the one that was there, as far as it was read.
CutRead ==
  /\ kind \in InFile
  /\ kind = "Block" => result = NullBlock \/ BlockKept(result, object)
  /\ kind = "UndoBlock" => UndoBlockKept(result, Recoverable)

\* What is read is what was written, or more, or less; deserialize reads past the end
\* of a list in the last case only.
CodecInv ==
  /\ kind \in Kind /\ object \in Object[kind] /\ pc \in Pc
  /\ pc \in {"stored", "longer", "shorter", "read"} => ~SerializeReadsPast
  /\ pc = "stored" => bytes = Serialized
  /\ pc = "longer" => kind \in InFile /\ \E f \in Following : FollowedBy(f)
  /\ pc = "shorter" => CutShort
  /\ pc \in {"object", "stored", "longer", "shorter"} => place = "none"
  /\ pc = "read" => place \in {"stored", "longer", "shorter"}
  /\ pc = "read" /\ place # "shorter" => result = Recoverable
  /\ pc = "read" /\ place = "shorter" => CutRead
  /\ pc = "undefined" =>
       \/ place = "none" /\ SerializeReadsPast
       \/ place = "shorter" /\ ~SerializeReadsPast

LEMMA ObjectUnchanged ==
  ASSUME UNCHANGED <<kind, object>>
  PROVE  /\ Serialized' = Serialized /\ SerializeReadsPast' = SerializeReadsPast
         /\ Recoverable' = Recoverable
<1>1. Serialized' = Serialized
  BY DEF Serialized
<1>2. SerializeReadsPast' = SerializeReadsPast
  BY DEF SerializeReadsPast, SomeReadsPast
<1>3. Recoverable' = Recoverable
  BY DEF Recoverable
<1> QED BY <1>1, <1>2, <1>3

LEMMA CodecBegins ==
  ASSUME CodecInit
  PROVE  CodecInv
BY DEF CodecInit, CodecInv, Pc

LEMMA CodecSteps ==
  ASSUME CodecInv, [CodecNext]_codecVars
  PROVE  CodecInv'
<1>1. CASE serialize
  BY <1>1, ObjectUnchanged DEF serialize, CodecInv, Pc
<1>2. CASE serialize_undefined
  BY <1>2, ObjectUnchanged DEF serialize_undefined, CodecInv, Pc
<1>3. CASE deserialize
  <2>1. /\ pc \in {"stored", "longer", "shorter"} /\ UNCHANGED <<kind, object>>
        /\ pc' = "read" /\ place' = pc /\ result' = Deserialized
    BY <1>3 DEF deserialize
  <2>2. /\ Serialized' = Serialized /\ SerializeReadsPast' = SerializeReadsPast
        /\ Recoverable' = Recoverable
    BY <2>1, ObjectUnchanged
  <2>3. pc = "stored" => Deserialized = Recoverable
    BY StoredRead DEF CodecInv
  <2>4. pc = "longer" => Deserialized = Recoverable
    BY LongerRead DEF CodecInv
  <2>5. ASSUME pc = "shorter" PROVE CutRead'
    <3>1. kind \in InFile /\ \E length \in 0 .. Len(Serialized) - 1 : CutAt(length)
      BY <2>5 DEF CodecInv, CutShort, CutAt
    <3>2. object \in Object[kind] /\ ~SerializeReadsPast /\ ~DeserializeReadsPast
      BY <1>3, <2>1, <2>5 DEF deserialize, CodecInv
    <3>3. kind = "Block" => Deserialized = NullBlock \/ BlockKept(Deserialized, object)
      BY <3>1, <3>2, BlockShorterRead
    <3>4. kind = "UndoBlock" => UndoBlockKept(Deserialized, Recoverable)
      BY <3>1, <3>2, UndoBlockShorterRead
    <3> QED BY <2>1, <2>2, <3>1, <3>3, <3>4, Zenon DEF CutRead
  <2> QED BY <2>1, <2>2, <2>3, <2>4, <2>5 DEF CodecInv, Pc
<1>4. CASE deserialize_undefined
  <2>1. /\ pc \in {"stored", "longer", "shorter"} /\ UNCHANGED <<kind, object>>
        /\ pc' = "undefined" /\ place' = pc /\ DeserializeReadsPast
    BY <1>4 DEF deserialize_undefined
  <2>2. SerializeReadsPast' = SerializeReadsPast
    BY <2>1, ObjectUnchanged
  <2>3. pc # "stored"
    BY <2>1, StoredRead DEF CodecInv
  <2>4. pc # "longer"
    BY <2>1, LongerRead DEF CodecInv
  <2> QED BY <2>1, <2>2, <2>3, <2>4 DEF CodecInv, Pc
<1>5. ASSUME NEW following \in Following, ReadLonger(following)
      PROVE  CodecInv'
  BY <1>5, ObjectUnchanged DEF ReadLonger, CodecInv, Pc, FollowedBy
<1>6. ASSUME NEW length \in 0 .. Len(bytes) - 1, ReadShorter(length)
      PROVE  CodecInv'
  <2>1. /\ pc = "stored" /\ kind \in InFile /\ UNCHANGED <<kind, object, place, result>>
        /\ pc' = "shorter" /\ bytes' = SubSeq(bytes, 1, length)
    BY <1>6 DEF ReadShorter
  <2>2. Serialized' = Serialized /\ SerializeReadsPast' = SerializeReadsPast
    BY <2>1, ObjectUnchanged
  <2>3. bytes = Serialized /\ place = "none" /\ ~SerializeReadsPast
    BY <2>1 DEF CodecInv
  <2>4. CutShort'
    BY <1>6, <2>1, <2>2, <2>3 DEF CutShort
  <2> QED BY <2>1, <2>2, <2>3, <2>4 DEF CodecInv, Pc
<1>7. CASE UNCHANGED codecVars
  BY <1>7, ObjectUnchanged DEF codecVars, CodecInv, Pc, FollowedBy, CutShort, CutRead
<1> QED BY <1>1, <1>2, <1>3, <1>4, <1>5, <1>6, <1>7 DEF CodecNext

\* The size that ByteSizeLong computes for an object, and that SerializeToString makes
\* room for, is what is then written; submessages begin with theirs.
THEOREM SizesAgreeHolds == CodecSpec => []SizesAgree
<1>1. CodecInv => SizesAgree
  BY SerializedSize DEF CodecInv, SizesAgree, Writes
<1> QED BY <1>1, CodecBegins, CodecSteps, PTL DEF CodecSpec

\* deserialize makes of what serialize wrote the object that it was, in every member
\* and however deep; of an undo block, what is recoverable of it.
THEOREM RoundTripHolds == CodecSpec => []RoundTrip
<1>1. CodecInv => RoundTrip
  BY DEF CodecInv, RoundTrip
<1> QED BY <1>1, CodecBegins, CodecSteps, PTL DEF CodecSpec

\* A block, or an undo block, that is read from a file on past its end is what was
\* written there: nothing that follows the terminator gets into it.
THEOREM TerminatorEndsHolds == CodecSpec => []TerminatorEnds
<1>1. CodecInv => TerminatorEnds
  BY DEF CodecInv, TerminatorEnds
<1> QED BY <1>1, CodecBegins, CodecSteps, PTL DEF CodecSpec

\* Writing an undo block reads past the end of a list exactly where the first so many
\* transactions of the block have more inputs than outputs, and reading one back does
\* only where its end is missing.
THEOREM UndefinedWhenInputsExceedHolds == CodecSpec => []UndefinedWhenInputsExceed
<1>1. ASSUME CodecInv PROVE UndefinedWhenInputsExceed
  <2> DEFINE excess ==
        \E i \in DOMAIN object.transactions :
           SumOfSizes(SubSeq(object.transactions, 1, i), LAMBDA tx :
             Len(tx.transaction_inputs) - Len(tx.transaction_outputs)) > 0
  <2>1. ASSUME kind = "UndoBlock" PROVE SerializeReadsPast <=> excess
    <3>1. object \in BlockType
      BY <1>1, <2>1, ObjectTypes DEF CodecInv
    <3>2. SomeReadsPast(make_undo_block(object).undo_coin_records) <=> excess
      BY <3>1, UndoReadsPast
    <3> QED BY <2>1, <3>2 DEF SerializeReadsPast
  <2> HIDE DEF excess
  <2>2. pc = "undefined" /\ place = "none" => SerializeReadsPast
    BY <1>1 DEF CodecInv
  <2>3. SerializeReadsPast /\ pc # "object" => pc = "undefined" /\ place = "none"
    BY <1>1 DEF CodecInv, Pc
  <2>4. pc = "undefined" => place \in {"none", "shorter"}
    BY <1>1 DEF CodecInv
  <2>5. kind = "UndoBlock" /\ pc # "object" => ((pc = "undefined" /\ place = "none") <=> excess)
    BY <2>1, <2>2, <2>3
  <2> QED BY <2>4, <2>5 DEF UndefinedWhenInputsExceed, excess
<1> QED BY <1>1, CodecBegins, CodecSteps, PTL DEF CodecSpec

\* A block that is read from a file short of its end is the one that was there less its
\* end: its first transactions, with the header of the block unless there are none, and
\* the last of them short of its own end.
THEOREM CutKeepsPrefixHolds == CodecSpec => []CutKeepsPrefix
<1>1. CodecInv => CutKeepsPrefix
  BY DEF CodecInv, CutRead, CutKeepsPrefix, BlockKept, TransactionKept
<1> QED BY <1>1, CodecBegins, CodecSteps, PTL DEF CodecSpec

\* An undo block that is read from a file short of its end, without reading past the end
\* of a list, is nothing, or as it was but for the values of its last record.
THEOREM CutUndoBlockHolds == CodecSpec => []CutUndoBlock
<1>1. CodecInv => CutUndoBlock
  BY DEF CodecInv, CutRead, CutUndoBlock, UndoBlockKept, CoinKept
<1> QED BY <1>1, CodecBegins, CodecSteps, PTL DEF CodecSpec

=============================================================================
