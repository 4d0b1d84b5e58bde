------------------------ MODULE PacketConverterProofs ------------------------
(***************************************************************************)
(* Proofs about the reading of a payload, for all records, cuts and widths *)
(* of the integers: the offset stays inside, the callback gets all that    *)
(* converts or nothing, the metrics take every packet, and their sums are  *)
(* exact as long as no square passes the width of int.                     *)
(***************************************************************************)
EXTENDS PacketConverter, FiniteSetTheorems, WellFoundedInduction, TLAPS

-----------------------------------------------------------------------------
(* Induction up to a bound, and the running sums it is needed for. *)

\* The least element of a set of numbers.
LEMMA Least ==
  ASSUME NEW T \in SUBSET Nat, T # {}
  PROVE  \E m \in T : \A k \in T : m <= k
<1> DEFINE R == OpToRel(<, Nat)
<1>1. \E x \in T : \A y \in T : ~(<<y, x>> \in R)
  BY NatLessThanWellFounded, WFMin
<1>2. \A x, y \in Nat : y < x => <<y, x>> \in R
  BY DEF OpToRel
<1> HIDE DEF R
<1>3. PICK x \in T : \A y \in T : ~(<<y, x>> \in R)
  BY <1>1
<1>4. ASSUME NEW y \in T PROVE x <= y
  <2>1. x \in Nat /\ y \in Nat
    OBVIOUS
  <2>2. ~(y < x)
    BY <2>1, <1>2, <1>3
  <2>3. QED
    BY <2>1, <2>2
<1>5. QED
  BY <1>4

\* A set that holds 0 and with each number the next holds all of them.
LEMMA Induction ==
  ASSUME NEW n \in Nat, NEW G, 0 \in G, \A i \in 1..n : i - 1 \in G => i \in G
  PROVE  0..n \subseteq G
<1> DEFINE T == {i \in 0..n : i \notin G}
<1>1. SUFFICES ASSUME T # {} PROVE FALSE
  OBVIOUS
<1>2. PICK m \in T : \A k \in T : m <= k
  <2>1. T \in SUBSET Nat
    OBVIOUS
  <2>2. QED
    BY <1>1, <2>1, Least
<1>3. m \in 1..n /\ m - 1 \in 0..n /\ m - 1 \notin T
  BY <1>2
<1>4. QED
  BY <1>3

\* f is the running sum of v, as a recursive function defines it.
IsSum(f, n, v) == f = [i \in 0..n |-> IF i = 0 THEN 0 ELSE f[i - 1] + v[i]]

\* There is such a function, so that the definition chooses one.
LEMMA SumExists ==
  ASSUME NEW n \in Nat, NEW v
  PROVE  \E f : IsSum(f, n, v)
<1> DEFINE G == {m \in 0..n : \E f : IsSum(f, m, v)}
<1>1. 0 \in G
  <2>1. IsSum([i \in 0..0 |-> 0], 0, v)
    BY DEF IsSum
  <2>2. QED
    BY <2>1
<1>2. ASSUME NEW m \in 1..n, m - 1 \in G PROVE m \in G
  <2>1. PICK f : IsSum(f, m - 1, v)
    BY <1>2
  <2> DEFINE g == [i \in 0..m |-> IF i = m THEN f[m - 1] + v[m] ELSE f[i]]
  <2>2. ASSUME NEW i \in 0..m PROVE g[i] = IF i = 0 THEN 0 ELSE g[i - 1] + v[i]
    <3>1. CASE i = m
      BY <3>1
    <3>2. CASE i # m
      <4>1. i \in 0..(m - 1) /\ (i # 0 => i - 1 \in 0..(m - 1) /\ i - 1 \in 0..m /\ i - 1 # m)
        BY <3>2
      <4>2. QED
        BY <2>1, <4>1, <3>2 DEF IsSum
    <3>3. QED
      BY <3>1, <3>2
  <2>3. IsSum(g, m, v)
    <3>1. g = [i \in 0..m |-> g[i]]
      OBVIOUS
    <3> HIDE DEF g
    <3>2. QED
      BY <2>2, <3>1 DEF IsSum
  <2>4. \E h : IsSum(h, m, v)
    BY <2>3
  <2>5. QED
    BY <2>4
<1>3. n \in 0..n
  OBVIOUS
<1> HIDE DEF G
<1>4. n \in G
  BY <1>1, <1>2, <1>3, Induction
<1>5. QED
  BY <1>4 DEF G

-----------------------------------------------------------------------------
(* Powers of two. *)

\* 2^n counts the subsets of 1..n.
LEMMA Power ==
  ASSUME NEW n \in Nat
  PROVE  2^n \in Nat \ {0}
<1>1. IsFiniteSet(1..n) /\ Cardinality(1..n) = n
  BY FS_Interval
<1>2. IsFiniteSet(SUBSET (1..n)) /\ Cardinality(SUBSET (1..n)) = 2^n
  BY <1>1, FS_SUBSET
<1>3. QED
  BY <1>2, FS_CardinalityType, FS_EmptySet

\* Half of the subsets of 1..n hold n.
LEMMA PowerDoubles ==
  ASSUME NEW n \in Nat \ {0}
  PROVE  2^n = 2 * 2^(n - 1)
<1> DEFINE m == n - 1
           A == SUBSET (1..m)
           f == [x \in A |-> x \cup {n}]
           B == {x \cup {n} : x \in A}
<1>1. m \in Nat /\ n - 1 = m
  OBVIOUS
<1>2. /\ IsFiniteSet(A) /\ Cardinality(A) = 2^m
      /\ Cardinality(SUBSET (1..n)) = 2^n
  <2>1. \A k \in Nat : IsFiniteSet(1..k) /\ Cardinality(1..k) = k
    BY FS_Interval
  <2>2. QED
    BY <1>1, <2>1, FS_SUBSET
<1>3. f \in Bijection(A, B)
  <2>1. \A x, y \in A : f[x] = f[y] => x = y
    OBVIOUS
  <2>2. f \in [A -> B] /\ \A y \in B : \E x \in A : f[x] = y
    OBVIOUS
  <2> HIDE DEF f, A, B
  <2>3. QED
    BY <2>1, <2>2 DEF Bijection, Injection, Surjection, IsInjective
<1>4. IsFiniteSet(B) /\ Cardinality(B) = 2^m
  BY <1>2, <1>3, FS_Bijection DEF ExistsBijection
<1>5. SUBSET (1..n) = A \cup B
  <2>1. ASSUME NEW y \in SUBSET (1..n), n \in y PROVE y \in B
    <3>1. y \ {n} \in A /\ y = (y \ {n}) \cup {n}
      BY <2>1
    <3>2. QED
      BY <3>1
  <2>2. ASSUME NEW y \in SUBSET (1..n), n \notin y PROVE y \in A
    BY <2>2
  <2>3. A \subseteq SUBSET (1..n) /\ B \subseteq SUBSET (1..n)
    <3>1. 1..m \subseteq 1..n /\ n \in 1..n
      OBVIOUS
    <3>2. QED
      BY <3>1, Zenon
  <2>4. QED
    BY <2>1, <2>2, <2>3
<1>6. A \cap B = {}
  OBVIOUS
<1>7. Cardinality(A \cup B) = 2^m + 2^m
  <2>1. Cardinality(A \cup B) = Cardinality(A) + Cardinality(B) - Cardinality(A \cap B)
    BY <1>2, <1>4, FS_Union
  <2>2. Cardinality(A \cap B) = 0
    BY <1>6, FS_EmptySet
  <2>3. QED
    BY <1>1, <1>2, <1>4, <2>1, <2>2, Power
<1>8. 2^m \in Nat
  BY <1>1, Power
<1> HIDE DEF A, B, f
<1>9. 2^n = 2^m + 2^m
  BY <1>2, <1>5, <1>7, Zenon
<1>10. QED
  BY <1>8, <1>9

\* What is smaller than the modulus stays as it is.
LEMMA ModSmall ==
  ASSUME NEW a \in Nat, NEW b \in Nat \ {0}, a < b
  PROVE  a % b = a
  OBVIOUS

-----------------------------------------------------------------------------
(* Where the records end. *)

EndsValues ==
  /\ Ends[0] = 0
  /\ \A i \in 1..Len(buffer) : Ends[i] = Ends[i - 1] + buffer[i].reclen

LEMMA EndsRecursion ==
  ASSUME buffer \in Seq(Records)
  PROVE  EndsValues
<1> DEFINE n == Len(buffer)
           v == [i \in 1..n |-> buffer[i].reclen]
           P(f) == f = [i \in 0..n |-> IF i = 0 THEN 0 ELSE f[i - 1] + buffer[i].reclen]
<1>1. n \in Nat
  OBVIOUS
<1>2. PICK f : IsSum(f, n, v)
  BY <1>1, SumExists
<1>3. P(f)
  <2>1. \A i \in 0..n : (IF i = 0 THEN 0 ELSE f[i - 1] + v[i])
                         = (IF i = 0 THEN 0 ELSE f[i - 1] + buffer[i].reclen)
    BY <1>1
  <2> HIDE DEF v, n
  <2>2. QED
    BY <1>2, <2>1 DEF IsSum
<1>4. P(CHOOSE g : P(g))
  <2>1. \E g : P(g)
    BY <1>3, Zenon
  <2>2. QED
    BY <2>1, Zenon
<1>5. Ends = CHOOSE g : P(g)
  BY Zenon DEF Ends
<1>6. P(Ends)
  BY <1>4, <1>5, Zenon
<1> HIDE DEF n
<1>7. \A i \in 0..n : Ends[i] = IF i = 0 THEN 0 ELSE Ends[i - 1] + buffer[i].reclen
  BY <1>6, Zenon
<1>8. Ends[0] = 0
  BY <1>1, <1>7
<1>9. ASSUME NEW i \in 1..n PROVE Ends[i] = Ends[i - 1] + buffer[i].reclen
  <2>1. i \in 0..n /\ i # 0
    BY <1>1
  <2>2. QED
    BY <1>7, <2>1
<1>10. QED
  BY <1>8, <1>9 DEF EndsValues, n


LEMMA RecordTyped ==
  ASSUME NEW r \in Records
  PROVE  /\ r \in RecordType
         /\ r.reclen \in Nat /\ MINRECLEN < r.reclen /\ MINRECLEN \in Nat
         /\ r.samples \in Seq(Int) /\ Len(r.samples) = r.numsamples /\ r.numsamples \in Nat
         /\ MaxRecords * r.reclen < 2^SizeBits
<1>1. r \in RecordType
  BY RecordsAssumption
<1>2. QED
  BY <1>1, RecordsAssumption, WidthAssumption DEF RecordType

LEMMA EndsNatural ==
  ASSUME buffer \in Seq(Records)
  PROVE  \A i \in 0..Len(buffer) : Ends[i] \in Nat
<1> DEFINE n == Len(buffer)
           G == {i \in 0..n : Ends[i] \in Nat}
<1>1. n \in Nat /\ \A i \in 1..n : buffer[i].reclen \in Nat
  BY RecordTyped
<1>2. EndsValues
  BY EndsRecursion
<1>3. 0 \in G
  BY <1>1, <1>2 DEF EndsValues
<1>4. ASSUME NEW i \in 1..n, i - 1 \in G PROVE i \in G
  <2>1. Ends[i] = Ends[i - 1] + buffer[i].reclen
    BY <1>1, <1>2 DEF EndsValues
  <2>2. Ends[i - 1] \in Nat /\ buffer[i].reclen \in Nat
    BY <1>1, <1>4
  <2> HIDE DEF n
  <2>3. QED
    BY <1>1, <2>1, <2>2
<1> HIDE DEF G
<1>5. 0..n \subseteq G
  BY <1>1, <1>3, <1>4, Induction
<1>6. QED
  BY <1>5 DEF G

\* A later record ends no earlier.
LEMMA EndsGrow ==
  ASSUME buffer \in Seq(Records), NEW i \in 0..Len(buffer)
  PROVE  \A j \in i..Len(buffer) : Ends[i] <= Ends[j]
<1> DEFINE n == Len(buffer)
           G == {j \in 0..n : i <= j => Ends[i] <= Ends[j]}
<1>1. n \in Nat /\ \A j \in 1..n : buffer[j].reclen \in Nat
  BY RecordTyped
<1>2. EndsValues /\ \A j \in 0..n : Ends[j] \in Nat
  BY EndsRecursion, EndsNatural
<1>3. 0 \in G
  BY <1>1, <1>2
<1>4. ASSUME NEW j \in 1..n, j - 1 \in G PROVE j \in G
  <2>1. CASE i <= j - 1
    <3>1. Ends[j] = Ends[j - 1] + buffer[j].reclen /\ buffer[j].reclen \in Nat
      BY <1>1, <1>2 DEF EndsValues
    <3>2. /\ Ends[i] <= Ends[j - 1]
          /\ Ends[i] \in Nat /\ Ends[j - 1] \in Nat
      BY <1>1, <1>2, <1>4, <2>1
    <3> HIDE DEF n
    <3>3. QED
      BY <1>1, <3>1, <3>2
  <2>2. CASE ~(i <= j - 1)
    BY <1>1, <1>2, <2>2
  <2>3. QED
    BY <2>1, <2>2
<1> HIDE DEF G
<1>5. 0..n \subseteq G
  BY <1>1, <1>3, <1>4, Induction
<1>6. QED
  BY <1>1, <1>5 DEF G

\* A buffer of MaxRecords records of any length has an end that fits uint64_t.
LEMMA EndsFit ==
  ASSUME buffer \in Seq(Records), Len(buffer) \in 1..MaxRecords
  PROVE  Ends[Len(buffer)] < 2^SizeBits
<1> DEFINE n == Len(buffer)
           limit == 2^SizeBits
           G == {i \in 0..n : MaxRecords * Ends[i] <= i * (limit - 1)}
<1>1. n \in Nat /\ MaxRecords \in Nat \ {0} /\ SizeBits \in Nat
  BY WidthAssumption
<1>2. limit \in Nat \ {0}
  BY <1>1, Power
<1>3. \A i \in 1..n : /\ buffer[i].reclen \in Nat
                        /\ MaxRecords * buffer[i].reclen <= limit - 1
  <2>1. \A i \in 1..n : buffer[i] \in Records
    OBVIOUS
  <2>2. \A i \in 1..n : /\ buffer[i].reclen \in Nat
                          /\ MaxRecords * buffer[i].reclen < limit
    BY <2>1, RecordTyped
  <2> HIDE DEF limit
  <2>3. QED
    BY <1>1, <1>2, <2>2
<1>4. EndsValues /\ \A j \in 0..n : Ends[j] \in Nat
  BY EndsRecursion, EndsNatural
<1> HIDE DEF limit, n
<1>5. 0 \in G
  <2>1. Ends[0] = 0
    BY <1>4 DEF EndsValues
  <2>2. QED
    BY <1>1, <1>2, <2>1
<1>6. ASSUME NEW i \in 1..n, i - 1 \in G PROVE i \in G
  <2> DEFINE before == Ends[i - 1]
             length == buffer[i].reclen
  <2>1. Ends[i] = before + length /\ before \in Nat /\ length \in Nat
    BY <1>1, <1>3, <1>4 DEF EndsValues, n
  <2>2. MaxRecords * before <= (i - 1) * (limit - 1)
    BY <1>6
  <2>3. MaxRecords * length <= limit - 1
    BY <1>3
  <2> HIDE DEF before, length
  <2>4. MaxRecords * (before + length) = MaxRecords * before + MaxRecords * length
    BY <1>1, <2>1
  <2>5. (i - 1) * (limit - 1) + (limit - 1) = i * (limit - 1)
    BY <1>1, <1>2
  <2>6. /\ MaxRecords * before \in Int /\ MaxRecords * length \in Int
        /\ (i - 1) * (limit - 1) \in Int /\ i * (limit - 1) \in Int
    BY <1>1, <1>2, <2>1
  <2>7. MaxRecords * Ends[i] <= i * (limit - 1)
    BY <1>2, <2>1, <2>2, <2>3, <2>4, <2>5, <2>6
  <2>8. QED
    BY <1>1, <2>7
<1> HIDE DEF G
<1>7. n \in G
  <2>1. 0..n \subseteq G
    BY <1>1, <1>5, <1>6, Induction
  <2>2. n \in 0..n
    BY <1>1
  <2>3. QED
    BY <2>1, <2>2
<1>8. MaxRecords * Ends[n] <= n * (limit - 1) /\ Ends[n] \in Nat
  BY <1>1, <1>4, <1>7 DEF G
<1>9. n * (limit - 1) <= MaxRecords * (limit - 1)
  BY <1>1, <1>2 DEF n
<1>10. ~(limit <= Ends[n])
  <2>1. SUFFICES ASSUME limit <= Ends[n] PROVE FALSE
    OBVIOUS
  <2>2. MaxRecords * limit <= MaxRecords * Ends[n]
    <3>1. PICK k \in Nat : Ends[n] = limit + k
      <4>1. Ends[n] - limit \in Nat /\ Ends[n] = limit + (Ends[n] - limit)
        BY <1>2, <1>8, <2>1
      <4>2. QED
        BY <4>1
    <3>2. MaxRecords * (limit + k) = MaxRecords * limit + MaxRecords * k
      BY <1>1, <1>2
    <3>3. MaxRecords * k \in Nat /\ MaxRecords * limit \in Nat
      BY <1>1, <1>2
    <3>4. QED
      BY <3>1, <3>2, <3>3
  <2>3. MaxRecords * (limit - 1) < MaxRecords * limit
    BY <1>1, <1>2
  <2>4. QED
    BY <1>1, <1>2, <1>8, <1>9, <2>2, <2>3
<1>11. QED
  BY <1>1, <1>2, <1>8, <1>10 DEF n, limit

-----------------------------------------------------------------------------
(* The inductive invariant. *)

\* The packets convert makes.
PacketsOfRecords ==
  {Converted(r, i) : r \in {s \in Records : Convertible(s)}, i \in Nat}

ConvTyped ==
  /\ buffer \in Seq(Records) /\ Len(buffer) \in 1..MaxRecords
  /\ packets \in Seq(PacketsOfRecords) /\ called \in Seq(PacketsOfRecords)
  /\ bufferLength \in Nat /\ offset \in Nat
  /\ iRecord \in 1..(Len(buffer) + 1)
  /\ failedPackets \in 0..MaxRecords /\ Len(packets) <= MaxRecords
  /\ pc \in {"loop", "calling", "done"}

\* The records behind the reader, and the convertible ones of some.
Passed == 1..(iRecord - 1)
Sound(S) == {i \in S : Convertible(buffer[i])}
Sources(q) == {q[k].from : k \in 1..Len(q)}

\* The reader stands at the end of a record of the payload; it has passed only
\* records that are all there.
AtRecordEnd ==
  /\ bufferLength <= Ends[Len(buffer)]
  /\ offset = Ends[iRecord - 1] /\ offset <= bufferLength
  /\ \A i \in Passed : i \in Reached /\ Readable(i)

\* The packets so far are those of the records passed.
UnpackedPassed ==
  pc # "done" =>
    /\ Sources(packets) = Sound(Passed)
    /\ Len(packets) = Cardinality(Sound(Passed))
    /\ failedPackets = Cardinality(Passed \ Sound(Passed))

\* The callback takes them in their order, once the whole payload is read.
CallsInOrder ==
  /\ Len(called) <= Len(packets)
  /\ \A k \in 1..Len(called) : called[k] = packets[k]
  /\ pc = "loop" => called = <<>>
  /\ pc = "calling" => Reached = Passed /\ InTimeOrder(packets)

ConvInv ==
  ConvTyped /\ AtRecordEnd /\ UnpackedPassed /\ CallsInOrder /\ PayloadAllOrNothing

LEMMA ConvertedIs ==
  ASSUME NEW r \in Records, Convertible(r), NEW i \in Nat
  PROVE  Converted(r, i) \in PacketsOfRecords /\ Converted(r, i).from = i
  BY DEF PacketsOfRecords, Converted

LEMMA ConvInit == Init => ConvInv
<1> SUFFICES ASSUME Init PROVE ConvInv
  OBVIOUS
<1>1. /\ pc = "loop" /\ offset = 0 /\ iRecord = 1 /\ packets = <<>>
      /\ failedPackets = 0 /\ called = <<>>
  BY DEF Init
<1>2. buffer \in Seq(Records) /\ Len(buffer) \in 1..MaxRecords /\ MaxRecords \in Nat \ {0}
  <2>1. PICK n \in 1..MaxRecords : buffer \in [1..n -> Records]
    BY DEF Init
  <2>2. QED
    BY <2>1, WidthAssumption
<1>3. EndsValues /\ \A i \in 0..Len(buffer) : Ends[i] \in Nat
  BY <1>2, EndsRecursion, EndsNatural
<1>4. bufferLength \in Nat /\ bufferLength <= Ends[Len(buffer)]
  BY <1>2, <1>3 DEF Init
<1>5. ConvTyped
  BY <1>1, <1>2, <1>4 DEF ConvTyped
<1>6. Passed = {} /\ Sound(Passed) = {} /\ Passed \ Sound(Passed) = {}
  BY <1>1 DEF Passed, Sound
<1>7. AtRecordEnd
  BY <1>1, <1>3, <1>4, <1>6 DEF AtRecordEnd, EndsValues
<1>8. UnpackedPassed
  <2>1. Sources(packets) = {} /\ Len(packets) = 0
    BY <1>1 DEF Sources
  <2>2. QED
    BY <1>1, <1>6, <2>1, FS_EmptySet DEF UnpackedPassed
<1>9. CallsInOrder /\ PayloadAllOrNothing
  BY <1>1 DEF CallsInOrder, PayloadAllOrNothing
<1>10. QED
  BY <1>5, <1>7, <1>8, <1>9 DEF ConvInv

\* The unsigned difference is the difference.
LEMMA RemainingIs ==
  ASSUME ConvTyped, AtRecordEnd
  PROVE  Remaining = bufferLength - offset
<1>1. bufferLength \in Nat /\ offset \in Nat /\ offset <= bufferLength
  BY DEF ConvTyped, AtRecordEnd
<1>2. bufferLength <= Ends[Len(buffer)] /\ Ends[Len(buffer)] < 2^SizeBits
  BY EndsFit DEF ConvTyped, AtRecordEnd
<1>3. Ends[Len(buffer)] \in Nat
  BY EndsNatural DEF ConvTyped
<1>4. 2^SizeBits \in Nat \ {0}
  BY WidthAssumption, Power
<1> DEFINE limit == 2^SizeBits
           d == bufferLength - offset
<1>5. d \in Nat /\ d < limit /\ limit \in Nat \ {0}
  BY <1>1, <1>2, <1>3, <1>4
<1>6. Remaining = d % limit
  BY DEF Remaining
<1> HIDE DEF limit, d
<1>7. Remaining = d
  BY <1>5, <1>6, ModSmall
<1>8. QED
  BY <1>7 DEF d

LEMMA RecordAhead ==
  ASSUME NEW from \in Nat, NEW length \in Nat, NEW least \in Nat, least < length - from
  PROVE  from + least < length
  OBVIOUS

\* While the loop goes on there is a record at the offset, and what msr3_parse
\* says of it is whether it is all there.
LEMMA RecordAtOffset ==
  ASSUME ConvTyped, AtRecordEnd, InLoop
  PROVE  /\ iRecord \in 1..Len(buffer) /\ iRecord \in Reached
         /\ Parses <=> Readable(iRecord)
         /\ Ends[iRecord] = offset + buffer[iRecord].reclen
<1>1. MINRECLEN \in Nat /\ MINRECLEN < bufferLength - offset
  BY RemainingIs, RecordsAssumption DEF InLoop
<1>2. EndsValues /\ \A i \in 0..Len(buffer) : Ends[i] \in Nat
  BY EndsRecursion, EndsNatural DEF ConvTyped
<1>3. /\ bufferLength \in Nat /\ offset \in Nat /\ offset = Ends[iRecord - 1]
      /\ bufferLength <= Ends[Len(buffer)] /\ iRecord \in 1..(Len(buffer) + 1)
      /\ Len(buffer) \in Nat
  BY DEF ConvTyped, AtRecordEnd
<1>4. iRecord # Len(buffer) + 1
  <2>1. SUFFICES ASSUME iRecord = Len(buffer) + 1 PROVE FALSE
    OBVIOUS
  <2>2. iRecord - 1 = Len(buffer)
    BY <1>3, <2>1
  <2>3. bufferLength <= offset
    BY <1>3, <2>2
  <2>4. QED
    BY <1>1, <1>3, <2>3
<1>5. iRecord \in 1..Len(buffer)
  BY <1>3, <1>4
<1>6. iRecord \in Reached
  <2>1. Ends[iRecord - 1] + MINRECLEN < bufferLength
    BY <1>1, <1>3, RecordAhead
  <2>2. QED
    BY <1>5, <2>1 DEF Reached
<1>7. Ends[iRecord] = offset + buffer[iRecord].reclen
  BY <1>2, <1>3, <1>5 DEF EndsValues
<1>8. buffer[iRecord].reclen \in Nat
  BY <1>5, RecordTyped DEF ConvTyped
<1>9. Parses <=> buffer[iRecord].parses /\ buffer[iRecord].reclen <= bufferLength - offset
  BY <1>3, <1>5, RemainingIs DEF Parses, Available
<1>10. Parses <=> Readable(iRecord)
  BY <1>3, <1>7, <1>8, <1>9 DEF Readable
<1>11. QED
  BY <1>5, <1>6, <1>7, <1>10

LEMMA NothingBehind ==
  ASSUME NEW end \in Nat, NEW length \in Nat, NEW from \in Nat, NEW least \in Nat,
         length - from <= least, from <= end
  PROVE  ~(end + least < length)
  OBVIOUS

\* When it ends the rest of the payload is shorter than any record.
LEMMA AllPassed ==
  ASSUME ConvTyped, AtRecordEnd, Remaining <= MINRECLEN
  PROVE  Reached = Passed
<1>1. MINRECLEN \in Nat /\ bufferLength - offset <= MINRECLEN
  BY RemainingIs, RecordsAssumption
<1>2. \A i \in 0..Len(buffer) : Ends[i] \in Nat
  BY EndsNatural DEF ConvTyped
<1>3. /\ bufferLength \in Nat /\ offset = Ends[iRecord - 1]
      /\ iRecord \in 1..(Len(buffer) + 1) /\ Len(buffer) \in Nat
  BY DEF ConvTyped, AtRecordEnd
<1>4. Passed \subseteq Reached
  BY DEF AtRecordEnd
<1>5. ASSUME NEW i \in Reached PROVE i \in Passed
  <2>1. i \in 1..Len(buffer) /\ Ends[i - 1] + MINRECLEN < bufferLength
    BY DEF Reached
  <2>2. CASE iRecord <= i
    <3>1. iRecord - 1 \in 0..Len(buffer) /\ i - 1 \in (iRecord - 1)..Len(buffer)
      BY <1>3, <2>1, <2>2
    <3>2. Ends[iRecord - 1] <= Ends[i - 1]
      BY <3>1, EndsGrow DEF ConvTyped
    <3>3. Ends[i - 1] \in Nat
      BY <1>2, <1>3, <2>1
    <3>4. offset \in Nat /\ offset <= Ends[i - 1]
      BY <1>2, <1>3, <3>1, <3>2
    <3>5. ~(Ends[i - 1] + MINRECLEN < bufferLength)
      BY <1>1, <1>3, <3>3, <3>4, NothingBehind
    <3>6. QED
      BY <2>1, <3>5
  <2>3. CASE ~(iRecord <= i)
    BY <1>3, <2>1, <2>3 DEF Passed
  <2>4. QED
    BY <2>2, <2>3
<1>6. QED
  BY <1>4, <1>5

LEMMA BufferStays ==
  ASSUME UNCHANGED <<buffer, bufferLength>>
  PROVE  /\ Ends' = Ends /\ Reached' = Reached
         /\ \A i : Readable(i)' <=> Readable(i)
<1>1. Ends' = Ends
  BY Zenon DEF Ends
<1>2. Reached' = Reached
  BY <1>1 DEF Reached
<1>3. \A i : Readable(i)' <=> Readable(i)
  BY <1>1 DEF Readable
<1>4. QED
  BY <1>1, <1>2, <1>3

\* One record more behind the reader.
LEMMA PassedGrows ==
  ASSUME ConvTyped, iRecord \in 1..Len(buffer), iRecord' = iRecord + 1, buffer' = buffer
  PROVE  /\ Passed' = Passed \cup {iRecord} /\ iRecord \notin Passed
         /\ IsFiniteSet(Passed) /\ Cardinality(Passed) = iRecord - 1
         /\ IsFiniteSet(Sound(Passed)) /\ IsFiniteSet(Passed \ Sound(Passed))
         /\ Sound(Passed) \subseteq Passed
         /\ Cardinality(Sound(Passed)) <= iRecord - 1
         /\ Cardinality(Passed \ Sound(Passed)) <= iRecord - 1
         /\ Sound(Passed)' = IF Convertible(buffer[iRecord])
                              THEN Sound(Passed) \cup {iRecord} ELSE Sound(Passed)
<1>1. iRecord \in Nat \ {0}
  BY DEF ConvTyped
<1>2. Passed' = Passed \cup {iRecord} /\ iRecord \notin Passed
  BY <1>1 DEF Passed
<1>3. IsFiniteSet(Passed) /\ Cardinality(Passed) = iRecord - 1
  <2>1. Cardinality(Passed) = IF 1 > iRecord - 1 THEN 0 ELSE iRecord - 1 - 1 + 1
    BY <1>1, FS_Interval DEF Passed
  <2>2. QED
    BY <1>1, <2>1, FS_Interval DEF Passed
<1>4. Sound(Passed) \in SUBSET Passed /\ Passed \ Sound(Passed) \in SUBSET Passed
  BY DEF Sound
<1>5. /\ IsFiniteSet(Sound(Passed)) /\ IsFiniteSet(Passed \ Sound(Passed))
      /\ Cardinality(Sound(Passed)) <= iRecord - 1
      /\ Cardinality(Passed \ Sound(Passed)) <= iRecord - 1
  BY <1>3, <1>4, FS_Subset
<1>6. Sound(Passed)' = {i \in Passed \cup {iRecord} : Convertible(buffer[i])}
  BY <1>2 DEF Sound
<1>7. Sound(Passed)' = IF Convertible(buffer[iRecord])
                       THEN Sound(Passed) \cup {iRecord} ELSE Sound(Passed)
  BY <1>6 DEF Sound
<1>8. QED
  BY <1>2, <1>3, <1>4, <1>5, <1>7

\* The offset moves to the end of a record that is all there.
LEMMA NextRecordInv ==
  ASSUME ConvTyped, AtRecordEnd, InLoop, Parses, NextRecord
  PROVE  AtRecordEnd' /\ offset' \in Nat /\ iRecord' \in 1..(Len(buffer) + 1)
<1>1. /\ iRecord \in 1..Len(buffer) /\ iRecord \in Reached /\ Readable(iRecord)
      /\ Ends[iRecord] = offset + buffer[iRecord].reclen
  BY RecordAtOffset
<1>2. /\ offset' = Ends[iRecord] /\ iRecord' = iRecord + 1
      /\ UNCHANGED <<buffer, bufferLength>>
  BY <1>1 DEF NextRecord
<1>3. /\ Ends' = Ends /\ Reached' = Reached
      /\ \A i : Readable(i)' <=> Readable(i)
  BY <1>2, BufferStays
<1>4. Passed' = Passed \cup {iRecord}
  BY <1>1, <1>2, PassedGrows
<1>5. iRecord \in Nat \ {0} /\ Len(buffer) \in Nat /\ iRecord' - 1 = iRecord
  BY <1>2 DEF ConvTyped
<1>6. \A i \in Passed' : i \in Reached' /\ Readable(i)'
  BY <1>1, <1>3, <1>4 DEF AtRecordEnd
<1>7. offset' <= bufferLength
  BY <1>1, <1>2 DEF Readable
<1>8. Ends[iRecord] \in Nat
  BY <1>1, <1>5, EndsNatural DEF ConvTyped
<1>9. AtRecordEnd'
  <2>1. bufferLength' <= Ends'[Len(buffer')]
    BY <1>2, <1>3 DEF AtRecordEnd
  <2>2. offset' = Ends'[iRecord' - 1] /\ offset' <= bufferLength'
    BY <1>2, <1>3, <1>5, <1>7
  <2>3. QED
    BY <1>6, <2>1, <2>2 DEF AtRecordEnd
<1>10. QED
  BY <1>1, <1>2, <1>5, <1>8, <1>9

LEMMA AppendSource ==
  ASSUME NEW q \in Seq(PacketsOfRecords), NEW p \in PacketsOfRecords
  PROVE  /\ Append(q, p) \in Seq(PacketsOfRecords) /\ Len(Append(q, p)) = Len(q) + 1
         /\ Sources(Append(q, p)) = Sources(q) \cup {p.from}
<1>1. /\ Append(q, p) \in Seq(PacketsOfRecords)
      /\ Len(Append(q, p)) = Len(q) + 1 /\ Len(q) \in Nat
      /\ \A k \in 1..Len(q) : Append(q, p)[k] = q[k]
      /\ Append(q, p)[Len(q) + 1] = p
  OBVIOUS
<1> DEFINE a == Append(q, p)
           n == Len(q)
<1> HIDE DEF a, n
<1>2. {a[k].from : k \in 1..(n + 1)} = {q[k].from : k \in 1..n} \cup {p.from}
  <2>1. n \in Nat /\ a[n + 1] = p /\ \A k \in 1..n : a[k] = q[k]
    BY <1>1 DEF a, n
  <2>2. 1..(n + 1) = 1..n \cup {n + 1}
    BY <2>1
  <2>3. QED
    BY <2>1, <2>2
<1>3. QED
  BY <1>1, <1>2 DEF Sources, a, n

LEMMA ConvSucceeds ==
  ASSUME ConvInv, ConvertSucceeds
  PROVE  ConvInv'
<1> USE DEF ConvInv
<1>1. /\ InLoop /\ Parses /\ NextRecord /\ Convertible(buffer[iRecord])
      /\ packets' = Append(packets, Converted(buffer[iRecord], iRecord))
      /\ failedPackets' = failedPackets /\ pc = "loop"
  BY DEF ConvertSucceeds, InLoop
<1>2. iRecord \in 1..Len(buffer) /\ buffer[iRecord] \in Records
  BY <1>1, RecordAtOffset DEF ConvTyped
<1>3. /\ iRecord' = iRecord + 1
      /\ UNCHANGED <<pc, buffer, bufferLength, called>>
  BY <1>1 DEF NextRecord
<1>4. AtRecordEnd' /\ offset' \in Nat /\ iRecord' \in 1..(Len(buffer) + 1)
  BY <1>1, NextRecordInv
<1> DEFINE p == Converted(buffer[iRecord], iRecord)
<1>5. p \in PacketsOfRecords /\ p.from = iRecord
  BY <1>1, <1>2, ConvertedIs
<1> HIDE DEF p
<1>6. /\ packets' \in Seq(PacketsOfRecords) /\ Len(packets') = Len(packets) + 1
      /\ Sources(packets)' = Sources(packets) \cup {iRecord}
  <2>1. packets' = Append(packets, p)
    BY <1>1 DEF p
  <2>2. /\ Append(packets, p) \in Seq(PacketsOfRecords)
        /\ Len(Append(packets, p)) = Len(packets) + 1
        /\ Sources(Append(packets, p)) = Sources(packets) \cup {iRecord}
    BY <1>5, AppendSource DEF ConvTyped
  <2>3. Sources(packets)' = Sources(Append(packets, p))
    BY <2>1 DEF Sources
  <2>4. QED
    BY <2>1, <2>2, <2>3
<1>7. /\ Passed' = Passed \cup {iRecord} /\ iRecord \notin Passed
      /\ IsFiniteSet(Sound(Passed)) /\ Sound(Passed) \subseteq Passed
      /\ Cardinality(Sound(Passed)) <= iRecord - 1
      /\ Sound(Passed)' = Sound(Passed) \cup {iRecord}
  BY <1>1, <1>2, <1>3, PassedGrows
<1>8. /\ Sources(packets) = Sound(Passed)
      /\ Len(packets) = Cardinality(Sound(Passed))
      /\ failedPackets = Cardinality(Passed \ Sound(Passed))
  BY <1>1 DEF UnpackedPassed
<1>9. Cardinality(Sound(Passed)') = Cardinality(Sound(Passed)) + 1
  BY <1>7, FS_AddElement
<1>10. Passed' \ Sound(Passed)' = Passed \ Sound(Passed)
  BY <1>7
<1>11. UnpackedPassed'
  BY <1>1, <1>6, <1>7, <1>8, <1>9, <1>10 DEF UnpackedPassed
<1>12. Len(packets') <= MaxRecords
  <2>1. Len(packets) \in Nat /\ MaxRecords \in Nat /\ Len(buffer) \in 1..MaxRecords
    BY WidthAssumption DEF ConvTyped
  <2>2. QED
    <3>1. Len(packets) <= iRecord - 1 /\ iRecord \in 1..Len(buffer)
      BY <1>2, <1>7, <1>8
    <3>2. QED
      BY <1>6, <2>1, <3>1
<1>13. ConvTyped'
  BY <1>1, <1>3, <1>4, <1>6, <1>12 DEF ConvTyped
<1>14. CallsInOrder' /\ PayloadAllOrNothing'
  <2>1. called = <<>> /\ pc' = "loop" /\ Len(packets') \in Nat
    BY <1>1, <1>3, <1>6 DEF CallsInOrder
  <2>2. QED
    BY <1>3, <2>1 DEF CallsInOrder, PayloadAllOrNothing
<1>15. QED
  BY <1>4, <1>11, <1>13, <1>14

LEMMA ConvFails ==
  ASSUME ConvInv, ConvertFails
  PROVE  ConvInv'
<1> USE DEF ConvInv
<1>1. /\ InLoop /\ Parses /\ NextRecord /\ ~Convertible(buffer[iRecord])
      /\ packets' = packets /\ failedPackets' = failedPackets + 1 /\ pc = "loop"
  BY DEF ConvertFails, InLoop
<1>2. iRecord \in 1..Len(buffer)
  BY <1>1, RecordAtOffset
<1>3. /\ iRecord' = iRecord + 1
      /\ UNCHANGED <<pc, buffer, bufferLength, called>>
  BY <1>1 DEF NextRecord
<1>4. AtRecordEnd' /\ offset' \in Nat /\ iRecord' \in 1..(Len(buffer) + 1)
  BY <1>1, NextRecordInv
<1>5. /\ Passed' = Passed \cup {iRecord} /\ iRecord \notin Passed
      /\ Sound(Passed) \subseteq Passed /\ IsFiniteSet(Passed \ Sound(Passed))
      /\ Cardinality(Passed \ Sound(Passed)) <= iRecord - 1
      /\ Sound(Passed)' = Sound(Passed)
  BY <1>1, <1>2, <1>3, PassedGrows
<1>6. /\ Sources(packets) = Sound(Passed)
      /\ Len(packets) = Cardinality(Sound(Passed))
      /\ failedPackets = Cardinality(Passed \ Sound(Passed))
  BY <1>1 DEF UnpackedPassed
<1>7. Cardinality(Passed' \ Sound(Passed)') = failedPackets + 1
  <2>1. Passed' \ Sound(Passed)' = (Passed \ Sound(Passed)) \cup {iRecord}
    BY <1>5
  <2>2. QED
    BY <1>5, <1>6, <2>1, FS_AddElement
<1>8. UnpackedPassed'
  <2>1. Sources(packets)' = Sources(packets)
    BY <1>1 DEF Sources
  <2>2. QED
    BY <1>1, <1>5, <1>6, <1>7, <2>1 DEF UnpackedPassed
<1>9. failedPackets' \in 0..MaxRecords
  <2>1. MaxRecords \in Nat /\ Len(buffer) \in 1..MaxRecords /\ failedPackets \in Nat
    BY WidthAssumption DEF ConvTyped
  <2>2. failedPackets <= iRecord - 1
    BY <1>5, <1>6
  <2>3. QED
    BY <1>1, <1>2, <2>1, <2>2
<1>10. ConvTyped'
  BY <1>1, <1>3, <1>4, <1>9 DEF ConvTyped
<1>11. CallsInOrder' /\ PayloadAllOrNothing'
  <2>1. called = <<>> /\ pc' = "loop"
    BY <1>1, <1>3 DEF CallsInOrder
  <2>2. QED
    BY <1>1, <1>3, <2>1 DEF CallsInOrder, PayloadAllOrNothing
<1>12. QED
  BY <1>4, <1>8, <1>10, <1>11

\* The steps that leave the reader where it is.
LEMMA ReaderStays ==
  ASSUME AtRecordEnd, UNCHANGED <<buffer, bufferLength, offset, iRecord>>
  PROVE  /\ AtRecordEnd' /\ Reached' = Reached /\ Passed' = Passed
         /\ \A i : Readable(i)' <=> Readable(i)
         /\ Sound(Passed)' = Sound(Passed)
<1>1. /\ Ends' = Ends /\ Reached' = Reached
      /\ \A i : Readable(i)' <=> Readable(i)
  BY BufferStays
<1>2. Passed' = Passed
  BY DEF Passed
<1>3. AtRecordEnd'
  BY <1>1, <1>2 DEF AtRecordEnd
<1>4. Sound(Passed)' = Sound(Passed)
  BY <1>2 DEF Sound
<1>5. QED
  BY <1>1, <1>2, <1>3, <1>4

LEMMA ConvParseFails ==
  ASSUME ConvInv, ParseFails
  PROVE  ConvInv'
<1> USE DEF ConvInv
<1>1. /\ InLoop /\ ~Parses /\ pc' = "done" /\ packets' = <<>> /\ pc = "loop"
      /\ UNCHANGED <<buffer, bufferLength, offset, iRecord, failedPackets, called>>
  BY DEF ParseFails, InLoop
<1>2. iRecord \in Reached /\ ~Readable(iRecord)
  BY <1>1, RecordAtOffset
<1>3. AtRecordEnd' /\ Reached' = Reached /\ \A i : Readable(i)' <=> Readable(i)
  BY <1>1, ReaderStays
<1>4. called' = <<>>
  BY <1>1 DEF CallsInOrder
<1>5. ConvTyped'
  BY <1>1, WidthAssumption DEF ConvTyped
<1>6. UnpackedPassed' /\ CallsInOrder'
  BY <1>1, <1>4 DEF UnpackedPassed, CallsInOrder
<1>7. PayloadAllOrNothing'
  BY <1>2, <1>3, <1>4 DEF PayloadAllOrNothing
<1>8. QED
  BY <1>3, <1>5, <1>6, <1>7

\* An order of 1..n takes every place.
LEMMA OrdersCover ==
  ASSUME NEW n \in Nat, NEW order \in Orders(n)
  PROVE  /\ order \in [1..n -> 1..n]
         /\ \A j \in 1..n : \E i \in 1..n : order[i] = j
<1>1. order \in [1..n -> 1..n] /\ \A i, j \in 1..n : i # j => order[i] # order[j]
  BY DEF Orders
<1>2. order \in Injection(1..n, 1..n)
  BY <1>1 DEF Injection, IsInjective
<1>3. IsFiniteSet(1..n)
  BY FS_Interval
<1>4. order \in Surjection(1..n, 1..n)
  BY <1>2, <1>3, FS_Injection
<1>5. QED
  BY <1>1, <1>4 DEF Surjection

LEMMA ConvSorts ==
  ASSUME ConvInv, Sort
  PROVE  ConvInv'
<1> USE DEF ConvInv
<1> DEFINE n == Len(packets)
<1>1. /\ pc = "loop" /\ Remaining <= MINRECLEN /\ pc' = "calling"
      /\ InTimeOrder(packets')
      /\ UNCHANGED <<buffer, bufferLength, offset, iRecord, failedPackets, called>>
  BY DEF Sort
<1>2. PICK order \in Orders(n) : packets' = [i \in 1..n |-> packets[order[i]]]
  BY DEF Sort
<1>3. packets \in Seq(PacketsOfRecords) /\ n \in Nat
  BY DEF ConvTyped
<1>4. /\ order \in [1..n -> 1..n]
      /\ \A j \in 1..n : \E i \in 1..n : order[i] = j
  BY <1>2, <1>3, OrdersCover
<1>5. packets' \in Seq(PacketsOfRecords) /\ Len(packets') = n
  <2>1. ASSUME NEW i \in 1..n PROVE packets[order[i]] \in PacketsOfRecords
    <3>1. \A j \in 1..n : packets[j] \in PacketsOfRecords
      BY <1>3
    <3> HIDE DEF n
    <3>2. order[i] \in 1..n
      BY <1>4
    <3>3. QED
      BY <3>1, <3>2
  <2> HIDE DEF n
  <2>2. QED
    BY <1>2, <1>3, <2>1
<1>6. Sources(packets)' = Sources(packets)
  <2>1. \A i \in 1..n : packets'[i] = packets[order[i]]
    BY <1>2
  <2>2. Sources(packets)' = {packets'[i].from : i \in 1..n}
    BY <1>5 DEF Sources
  <2>3. Sources(packets) = {packets[i].from : i \in 1..n}
    BY DEF Sources
  <2> HIDE DEF n
  <2>4. {packets'[i].from : i \in 1..n} \subseteq {packets[i].from : i \in 1..n}
    <3>1. ASSUME NEW i \in 1..n
          PROVE  packets'[i].from \in {packets[j].from : j \in 1..n}
      BY <1>4, <2>1
    <3>2. QED
      BY <3>1
  <2>5. {packets[i].from : i \in 1..n} \subseteq {packets'[i].from : i \in 1..n}
    <3>1. ASSUME NEW j \in 1..n
          PROVE  packets[j].from \in {packets'[i].from : i \in 1..n}
      <4>1. PICK i \in 1..n : order[i] = j
        BY <1>4
      <4>2. packets'[i].from = packets[j].from
        BY <2>1, <4>1
      <4>3. QED
        BY <4>2
    <3>2. QED
      BY <3>1
  <2>6. QED
    BY <2>2, <2>3, <2>4, <2>5
<1>7. Reached = Passed
  BY <1>1, AllPassed
<1>8. /\ AtRecordEnd' /\ Reached' = Reached /\ Passed' = Passed
      /\ Sound(Passed)' = Sound(Passed)
  BY <1>1, ReaderStays
<1>9. ConvTyped'
  BY <1>1, <1>5 DEF ConvTyped
<1>10. UnpackedPassed'
  BY <1>1, <1>5, <1>6, <1>8 DEF UnpackedPassed
<1>11. CallsInOrder'
  <2>1. called' = <<>>
    BY <1>1 DEF CallsInOrder
  <2>2. QED
    BY <1>1, <1>3, <1>5, <1>7, <1>8, <2>1 DEF CallsInOrder
<1>12. PayloadAllOrNothing'
  BY <1>1 DEF PayloadAllOrNothing
<1>13. QED
  BY <1>8, <1>9, <1>10, <1>11, <1>12

LEMMA ConvCalls ==
  ASSUME ConvInv, CallCallback
  PROVE  ConvInv'
<1> USE DEF ConvInv
<1>1. /\ pc = "calling" /\ Len(called) < Len(packets)
      /\ called' = Append(called, packets[Len(called) + 1])
      /\ UNCHANGED <<pc, buffer, bufferLength, offset, iRecord, packets, failedPackets>>
  BY DEF CallCallback
<1>2. /\ packets \in Seq(PacketsOfRecords) /\ called \in Seq(PacketsOfRecords)
      /\ Len(packets) \in Nat /\ Len(called) \in Nat
  BY DEF ConvTyped
<1>3. packets[Len(called) + 1] \in PacketsOfRecords
  BY <1>1, <1>2
<1>4. /\ called' \in Seq(PacketsOfRecords) /\ Len(called') = Len(called) + 1
      /\ \A k \in 1..Len(called') :
           called'[k] = IF k = Len(called) + 1 THEN packets[k] ELSE called[k]
  BY <1>1, <1>2, <1>3
<1>5. ConvTyped'
  BY <1>1, <1>4 DEF ConvTyped
<1>6. /\ AtRecordEnd' /\ Reached' = Reached /\ Passed' = Passed
      /\ Sound(Passed)' = Sound(Passed)
  BY <1>1, ReaderStays
<1>7. UnpackedPassed'
  BY <1>1, <1>6 DEF UnpackedPassed, Sources
<1>8. CallsInOrder'
  <2>1. \A k \in 1..Len(called') : called'[k] = packets[k]
    BY <1>2, <1>4 DEF CallsInOrder
  <2>2. QED
    BY <1>1, <1>2, <1>4, <1>6, <2>1 DEF CallsInOrder, InTimeOrder
<1>9. PayloadAllOrNothing'
  BY <1>1 DEF PayloadAllOrNothing
<1>10. QED
  BY <1>5, <1>6, <1>7, <1>8, <1>9

LEMMA ConvDone ==
  ASSUME ConvInv, PayloadDone
  PROVE  ConvInv'
<1> USE DEF ConvInv
<1>1. /\ pc = "calling" /\ Len(called) = Len(packets) /\ pc' = "done"
      /\ UNCHANGED <<buffer, bufferLength, offset, iRecord, packets, failedPackets, called>>
  BY DEF PayloadDone
<1>2. /\ AtRecordEnd' /\ Reached' = Reached /\ Passed' = Passed
      /\ \A i : Readable(i)' <=> Readable(i)
      /\ Sound(Passed)' = Sound(Passed)
  BY <1>1, ReaderStays
<1>3. ConvTyped' /\ UnpackedPassed' /\ CallsInOrder'
  BY <1>1, <1>2 DEF ConvTyped, UnpackedPassed, CallsInOrder
<1>4. Reached = Passed /\ InTimeOrder(packets) /\ \A k \in 1..Len(called) : called[k] = packets[k]
  BY <1>1 DEF CallsInOrder
<1>5. called = packets
  <2>1. called \in Seq(PacketsOfRecords) /\ packets \in Seq(PacketsOfRecords)
    BY DEF ConvTyped
  <2>2. QED
    BY <1>1, <1>4, <2>1
<1>6. /\ Sources(called) = Sound(Reached)
      /\ Len(called) = Cardinality(Sound(Reached))
      /\ failedPackets = Cardinality(Reached \ Sound(Reached))
  BY <1>1, <1>4, <1>5 DEF UnpackedPassed
<1>7. \A i \in Reached : Readable(i)
  BY <1>4 DEF AtRecordEnd
<1>8. Sound(Reached) = {i \in Reached : Convertible(buffer[i])}
  BY DEF Sound
<1>9. PayloadAllOrNothing'
  <2>1. UNCHANGED <<called, buffer, failedPackets>> /\ InTimeOrder(called)
    BY <1>1, <1>4, <1>5
  <2>2. /\ {called[k].from : k \in 1..Len(called)} = {i \in Reached : Convertible(buffer[i])}
        /\ Len(called) = Cardinality({i \in Reached : Convertible(buffer[i])})
        /\ failedPackets = Cardinality(Reached \ {i \in Reached : Convertible(buffer[i])})
    BY <1>6, <1>8 DEF Sources
  <2>3. ~\E i \in Reached' : ~Readable(i)'
    BY <1>2, <1>7
  <2>4. QED
    BY <1>2, <2>1, <2>2, <2>3 DEF PayloadAllOrNothing, InTimeOrder
<1>10. QED
  BY <1>2, <1>3, <1>9

LEMMA ConvStutters ==
  ASSUME ConvInv, UNCHANGED vars
  PROVE  ConvInv'
<1> USE DEF ConvInv, vars
<1>1. /\ AtRecordEnd' /\ Reached' = Reached /\ Passed' = Passed
      /\ \A i : Readable(i)' <=> Readable(i)
      /\ Sound(Passed)' = Sound(Passed)
  BY ReaderStays
<1>2. ConvTyped' /\ UnpackedPassed' /\ CallsInOrder'
  BY <1>1 DEF ConvTyped, UnpackedPassed, CallsInOrder, Sources, InTimeOrder
<1>3. PayloadAllOrNothing'
  BY <1>1 DEF PayloadAllOrNothing, InTimeOrder
<1>4. QED
  BY <1>1, <1>2, <1>3

LEMMA ConvInvNext == ConvInv /\ [Next]_vars => ConvInv'
  BY ConvSucceeds, ConvFails, ConvParseFails, ConvSorts, ConvCalls, ConvDone,
     ConvStutters DEF Next

LEMMA ConvInvAlways == Spec => []ConvInv
  BY ConvInit, ConvInvNext, PTL DEF Spec

\* Type correctness: however many records there are and wherever the payload
\* was cut, the unsigned offset and the counters stay within their widths.
THEOREM TypeCorrect == Spec => []TypeOK
<1>1. ConvInv => TypeOK
  <2> SUFFICES ASSUME ConvInv PROVE TypeOK
    OBVIOUS
  <2>1. ConvTyped /\ AtRecordEnd /\ CallsInOrder
    BY DEF ConvInv
  <2>2. Ends[Len(buffer)] < 2^SizeBits /\ Ends[Len(buffer)] \in Nat
    BY <2>1, EndsFit, EndsNatural DEF ConvTyped
  <2>3. 2^SizeBits \in Nat \ {0}
    BY WidthAssumption, Power
  <2> DEFINE limit == 2^SizeBits
  <2>4. bufferLength < limit /\ offset < limit
    BY <2>1, <2>2, <2>3 DEF ConvTyped, AtRecordEnd
  <2>5. limit \in Nat
    BY <2>3
  <2> HIDE DEF limit
  <2>6. {bufferLength, offset} \subseteq 0..(limit - 1)
    BY <2>1, <2>4, <2>5 DEF ConvTyped
  <2>7. Len(buffer) <= MaxRecords /\ \A i \in 1..Len(buffer) : buffer[i] \in Records
    BY <2>1 DEF ConvTyped
  <2>8. QED
    BY <2>1, <2>6, <2>7 DEF TypeOK, ConvTyped, CallsInOrder, limit
<1>2. QED
  BY <1>1, ConvInvAlways, PTL

\* The reader never passes the end of the payload, wherever that was cut off.
THEOREM NeverReadsPastEnd == Spec => []OffsetInBuffer
<1>1. ConvInv => OffsetInBuffer
  BY DEF ConvInv, AtRecordEnd, OffsetInBuffer
<1>2. QED
  BY <1>1, ConvInvAlways, PTL

\* The callback gets each record that converts once, in the order of time, or
\* nothing of a payload of which a record does not parse.
THEOREM AllOrNothing == Spec => []PayloadAllOrNothing
<1>1. ConvInv => PayloadAllOrNothing
  BY DEF ConvInv
<1>2. QED
  BY <1>1, ConvInvAlways, PTL

-----------------------------------------------------------------------------
(* What the metrics make of a packet. *)

LEMMA CalledPackets ==
  ASSUME ConvInv, NEW k \in 1..Len(called)
  PROVE  called[k] \in PacketsOfRecords
  BY DEF ConvInv, ConvTyped

LEMMA PacketFields ==
  ASSUME NEW p \in PacketsOfRecords
  PROVE  \E r \in Records :
           /\ Convertible(r) /\ r \in RecordType
           /\ p.sampling_rate = r.samprate /\ p.number_of_samples = r.numsamples
           /\ p.identifier = r.codes /\ p.data_type = DataType[r.sampletype]
           /\ p.size = PackedSize(r.sampletype, r.numsamples) /\ p.data = r.samples
           /\ r.samples \in Seq(Int) /\ Len(r.samples) = r.numsamples
           /\ r.numsamples \in Nat
<1>1. PICK r \in {s \in Records : Convertible(s)}, i \in Nat : p = Converted(r, i)
  BY DEF PacketsOfRecords
<1>2. r \in Records
  BY <1>1
<1>3. QED
  BY <1>1, <1>2, RecordTyped DEF Converted

LEMMA PacketTabulates ==
  ASSUME NEW p \in PacketsOfRecords
  PROVE  Tabulates(p)
<1>1. PICK r \in Records :
        /\ Convertible(r) /\ r.numsamples \in Nat
        /\ p.sampling_rate = r.samprate /\ p.number_of_samples = r.numsamples
        /\ p.identifier = r.codes /\ p.data_type = DataType[r.sampletype]
        /\ p.size = PackedSize(r.sampletype, r.numsamples)
  BY PacketFields
<1>2. p.identifier = Codes /\ p.number_of_samples > 0 /\ p.sampling_rate > 0
  BY <1>1 DEF Convertible
<1>3. r.sampletype \in {"i", "f", "d", "t"}
  BY <1>1 DEF Convertible, DataType
<1>4. p.data_type # "TEXT" =>
        p.size = p.number_of_samples * SizeOf[p.data_type]
  BY <1>1, <1>3 DEF DataType, PackedSize, SizeOf
<1>5. QED
  BY <1>2, <1>4 DEF Tabulates

\* No check of the metrics throws for a packet the converter lets through.
THEOREM EveryPacketUsable == Spec => []EveryPacketTabulates
<1>1. ConvInv => EveryPacketTabulates
  BY CalledPackets, PacketTabulates DEF EveryPacketTabulates
<1>2. QED
  BY <1>1, ConvInvAlways, PTL

\* A running sum is determined by its summands.
LEMMA SumUnique ==
  ASSUME NEW n \in Nat, NEW v, NEW f, NEW g, IsSum(f, n, v), IsSum(g, n, v)
  PROVE  f[n] = g[n]
<1> DEFINE G == {i \in 0..n : f[i] = g[i]}
<1>1. \A i \in 0..n : /\ f[i] = IF i = 0 THEN 0 ELSE f[i - 1] + v[i]
                      /\ g[i] = IF i = 0 THEN 0 ELSE g[i - 1] + v[i]
  BY Zenon DEF IsSum
<1>2. 0 \in G
  BY <1>1
<1>3. \A i \in 1..n : i - 1 \in G => i \in G
  BY <1>1
<1> HIDE DEF G
<1>4. n \in G
  BY <1>2, <1>3, Induction
<1>5. QED
  BY <1>4 DEF G

LEMMA TotalIs ==
  ASSUME NEW v, Len(v) \in Nat
  PROVE  \E f : IsSum(f, Len(v), v) /\ Total(v) = f[Len(v)]
<1> DEFINE n == Len(v)
           P(f) == f = [i \in 0..n |-> IF i = 0 THEN 0 ELSE f[i - 1] + v[i]]
<1>1. \E f : P(f)
  <2>1. PICK f : IsSum(f, n, v)
    BY SumExists
  <2>2. QED
    BY <2>1, Zenon DEF IsSum
<1>2. P(CHOOSE f : P(f))
  BY <1>1, Zenon
<1>3. Total(v) = (CHOOSE f : P(f))[n]
  BY Zenon DEF Total
<1>4. IsSum(CHOOSE f : P(f), n, v)
  BY <1>2, Zenon DEF IsSum
<1>5. QED
  BY <1>3, <1>4, Zenon

LEMMA SumIs ==
  ASSUME NEW p, p.number_of_samples \in Nat, p.data_type # "TEXT"
  PROVE  \E f : /\ IsSum(f, p.number_of_samples, p.data)
               /\ Sum(p) = f[p.number_of_samples]
<1> DEFINE n == p.number_of_samples
           v == p.data
           P(f) == f = [i \in 0..n |-> IF i = 0 \/ p.data_type = "TEXT" THEN 0
                                       ELSE Add(p.data_type, f[i - 1], v[i])]
<1>1. \A f : P(f) <=> IsSum(f, n, v)
  BY Zenon DEF IsSum, Add
<1>2. \E f : P(f)
  <2>1. PICK f : IsSum(f, n, v)
    BY SumExists
  <2>2. QED
    BY <1>1, <2>1, Zenon
<1>3. P(CHOOSE f : P(f))
  BY <1>2, Zenon
<1>4. Sum(p) = (CHOOSE f : P(f))[n]
  BY Zenon DEF Sum
<1>5. QED
  BY <1>1, <1>3, <1>4, Zenon

\* One sample more, in the sum of squares.
AddSquare(p, s, i) ==
  {Add(p.data_type, x, y) : x \in s, y \in Squares(p.data_type, p.data[i])}

\* While each square has one value the sum of them has one.
LEMMA SumSquaredIs ==
  ASSUME NEW p, p.number_of_samples \in Nat, p.data_type # "TEXT", NEW v,
         \A i \in 1..p.number_of_samples : Squares(p.data_type, p.data[i]) = {v[i]}
  PROVE  \E f : /\ IsSum(f, p.number_of_samples, v)
               /\ SumSquared(p) = {f[p.number_of_samples]}
<1> DEFINE n == p.number_of_samples
           P(h) == h = [i \in 0..n |-> IF i = 0 \/ p.data_type = "TEXT" THEN {0}
                                       ELSE AddSquare(p, h[i - 1], i)]
<1>1. PICK f : IsSum(f, n, v)
  BY SumExists
<1>2. \A i \in 0..n : f[i] = IF i = 0 THEN 0 ELSE f[i - 1] + v[i]
  BY <1>1, Zenon DEF IsSum
<1>3. ASSUME NEW i \in 1..n PROVE AddSquare(p, {f[i - 1]}, i) = {f[i]}
  <2>1. f[i] = f[i - 1] + v[i] /\ Squares(p.data_type, p.data[i]) = {v[i]}
    BY <1>2
  <2>2. QED
    BY <2>1 DEF AddSquare, Add
<1> DEFINE h == [i \in 0..n |-> {f[i]}]
<1>4. ASSUME NEW i \in 0..n
      PROVE  h[i] = IF i = 0 \/ p.data_type = "TEXT" THEN {0}
                    ELSE AddSquare(p, h[i - 1], i)
  <2>1. CASE i = 0
    BY <1>2, <2>1
  <2>2. CASE i # 0
    <3>1. i \in 1..n /\ i - 1 \in 0..n
      BY <2>2
    <3>2. h[i - 1] = {f[i - 1]} /\ h[i] = {f[i]}
      BY <3>1
    <3> HIDE DEF h
    <3>3. QED
      BY <1>3, <2>2, <3>1, <3>2
  <2>3. QED
    BY <2>1, <2>2
<1>5. P(h)
  <2>1. h = [i \in 0..n |-> h[i]]
    OBVIOUS
  <2> HIDE DEF h
  <2>2. QED
    BY <1>4, <2>1
<1> HIDE DEF h
<1>6. SumSquared(p) = (CHOOSE g : P(g))[n]
  BY SMT DEF SumSquared, AddSquare
<1>7. PICK g : P(g) /\ SumSquared(p) = g[n]
  BY <1>5, <1>6, Zenon
<1>8. g[n] = {f[n]}
  <2> DEFINE G == {i \in 0..n : g[i] = {f[i]}}
  <2>1. \A i \in 0..n : g[i] = IF i = 0 \/ p.data_type = "TEXT" THEN {0}
                               ELSE AddSquare(p, g[i - 1], i)
    BY <1>7, Zenon
  <2>2. 0 \in G
    BY <1>2, <2>1
  <2>3. ASSUME NEW i \in 1..n, i - 1 \in G PROVE i \in G
    <3>1. i \in 0..n /\ i # 0 /\ g[i - 1] = {f[i - 1]}
      BY <2>3
    <3>2. QED
      BY <1>3, <2>1, <3>1
  <2> HIDE DEF G
  <2>4. n \in G
    BY <2>2, <2>3, Induction
  <2>5. QED
    BY <2>4 DEF G
<1>9. QED
  BY <1>1, <1>7, <1>8

\* A square below half the range of int stays what it is.
LEMMA WrappedInRange ==
  ASSUME NEW x \in Nat, x < 2^(IntBits - 1)
  PROVE  Wrapped(x) = x
<1> DEFINE half == 2^(IntBits - 1)
           whole == 2^IntBits
           y == x + half
<1>1. half \in Nat /\ whole = 2 * half
  BY WidthAssumption, Power, PowerDoubles
<1>2. Wrapped(x) = (y % whole) - half
  BY DEF Wrapped
<1>3. x < half
  OBVIOUS
<1> HIDE DEF half, whole
<1>4. y \in Nat /\ whole \in Nat \ {0} /\ y < whole /\ y - half = x
  BY <1>1, <1>3
<1> HIDE DEF y
<1>5. y % whole = y
  BY <1>4, ModSmall
<1>6. QED
  BY <1>2, <1>4, <1>5

LEMMA SumsExact ==
  ASSUME NEW p \in PacketsOfRecords, p.data_type # "TEXT",
         p.data_type = "INTEGER_32" =>
           \A i \in DOMAIN p.data : SquaresOf(p)[i] < 2^(IntBits - 1)
  PROVE  IsExact(p)
<1> DEFINE n == p.number_of_samples
           v == SquaresOf(p)
<1>1. p.data \in Seq(Int) /\ Len(p.data) = n /\ n \in Nat /\ DOMAIN p.data = 1..n
  <2>1. p.data \in Seq(Int) /\ Len(p.data) = n /\ n \in Nat
    BY PacketFields
  <2>2. QED
    BY <2>1
<1>2. Sum(p) = Total(p.data)
  <2>1. PICK f : IsSum(f, n, p.data) /\ Sum(p) = f[n]
    BY <1>1, SumIs
  <2>2. PICK g : IsSum(g, n, p.data) /\ Total(p.data) = g[n]
    BY <1>1, TotalIs
  <2>3. QED
    BY <1>1, <2>1, <2>2, SumUnique
<1>3. v = [i \in 1..n |-> p.data[i] * p.data[i]] /\ Len(v) = n
  <2>1. v = [i \in 1..n |-> p.data[i] * p.data[i]]
    BY <1>1 DEF SquaresOf
  <2>2. QED
    BY <1>1, <2>1
<1>4. ASSUME NEW i \in 1..n PROVE Squares(p.data_type, p.data[i]) = {v[i]}
  <2> DEFINE x == p.data[i]
             y == x * x
  <2>1. x \in Int /\ y = v[i]
    BY <1>1, <1>3
  <2>2. y \in Nat
    BY <2>1
  <2>3. CASE p.data_type = "INTEGER_32"
    <3>1. y < 2^(IntBits - 1)
      BY <1>1, <2>1, <2>3
    <3> HIDE DEF y
    <3>2. Wrapped(y) = y
      BY <2>2, <3>1, WrappedInRange
    <3>3. QED
      BY <2>1, <2>3, <3>2 DEF Squares, y
  <2>4. CASE p.data_type # "INTEGER_32"
    BY <2>1, <2>4 DEF Squares
  <2>5. QED
    BY <2>3, <2>4
<1> HIDE DEF v
<1>5. SumSquared(p) = {Total(v)}
  <2>1. PICK f : IsSum(f, n, v) /\ SumSquared(p) = {f[n]}
    BY <1>1, <1>4, SumSquaredIs
  <2>2. PICK g : IsSum(g, n, v) /\ Total(v) = g[n]
    BY <1>1, <1>3, TotalIs
  <2>3. QED
    BY <1>1, <2>1, <2>2, SumUnique
<1>6. QED
  BY <1>2, <1>5 DEF IsExact, v

\* For samples of any number and size: the sums are theirs while no square
\* passes the width of int.
THEOREM SumsAreExact == Spec => []SumsExactInRange
<1>1. ConvInv => SumsExactInRange
  BY CalledPackets, SumsExact DEF SumsExactInRange
<1>2. QED
  BY <1>1, ConvInvAlways, PTL

-----------------------------------------------------------------------------
(* The steps left of a payload. *)

\* The offset moves on by more than the packets may grow.
LEMMA LoopFalls ==
  ASSUME NEW left \in Nat, NEW length \in Nat \ {0}, length <= left,
         NEW n \in Nat, NEW m \in {n, n + 1}
  PROVE  2 * (left - length) + m + 2 \in 0..(2 * left + n + 2 - 1)
  OBVIOUS

\* In the loop, too, there is a step left for what is called later.
LEMMA LeftInLoop ==
  ASSUME ConvInv, pc = "loop"
  PROVE  /\ bufferLength - offset \in Nat /\ Len(packets) \in Nat
         /\ PayloadLeft = 2 * (bufferLength - offset) + Len(packets) + 2
<1>1. bufferLength - offset \in Nat
  BY DEF ConvInv, ConvTyped, AtRecordEnd
<1>2. Len(packets) \in Nat
  BY DEF ConvInv, ConvTyped
<1>3. QED
  BY <1>1, <1>2 DEF PayloadLeft

LEMMA LeftWhileCalling ==
  ASSUME ConvInv, pc = "calling"
  PROVE  /\ Len(called) \in Nat /\ Len(packets) \in Nat /\ Len(called) <= Len(packets)
         /\ PayloadLeft = Len(packets) - Len(called) + 1
<1>1. Len(called) \in Nat /\ Len(packets) \in Nat /\ Len(called) <= Len(packets)
  BY DEF ConvInv, ConvTyped, CallsInOrder
<1>2. QED
  BY <1>1 DEF PayloadLeft

\* A record that was read, converted or not.
LEMMA RecordRunsDown ==
  ASSUME ConvInv, InLoop, Parses, NextRecord, NEW m \in {Len(packets), Len(packets) + 1},
         Len(packets') = m
  PROVE  PayloadLeft' \in 0..(PayloadLeft - 1)
<1> DEFINE left == bufferLength - offset
           length == buffer[iRecord].reclen
           n == Len(packets)
<1>1. pc = "loop" /\ left \in Nat /\ n \in Nat /\ PayloadLeft = 2 * left + n + 2
  BY LeftInLoop DEF InLoop
<1>2. /\ iRecord \in 1..Len(buffer) /\ Readable(iRecord)
      /\ Ends[iRecord] = offset + length
  BY RecordAtOffset DEF ConvInv
<1>3. length \in Nat \ {0}
  <2>1. buffer[iRecord] \in Records
    BY <1>2 DEF ConvInv, ConvTyped
  <2>2. length \in Nat /\ MINRECLEN < length /\ MINRECLEN \in Nat
    BY <2>1, RecordTyped
  <2> HIDE DEF length
  <2>3. QED
    BY <2>2
<1>4. offset \in Nat /\ bufferLength \in Nat
  BY DEF ConvInv, ConvTyped
<1> HIDE DEF length
<1>5. length <= left
  BY <1>2, <1>3, <1>4 DEF Readable
<1>6. pc' = "loop" /\ bufferLength' - offset' = left - length
  <2>1. pc' = pc /\ bufferLength' = bufferLength /\ offset' = offset + length
    BY DEF NextRecord, length
  <2>2. bufferLength - (offset + length) = left - length
    BY <1>3, <1>4
  <2>3. QED
    BY <1>1, <2>1, <2>2
<1>7. PayloadLeft' = 2 * (left - length) + m + 2
  BY <1>6 DEF PayloadLeft
<1> HIDE DEF left, n
<1>8. m \in {n, n + 1}
  BY DEF n
<1>9. 2 * (left - length) + m + 2 \in 0..(2 * left + n + 2 - 1)
  BY <1>1, <1>3, <1>5, <1>8, LoopFalls
<1>10. QED
  BY <1>1, <1>7, <1>9

LEMMA SortRunsDown ==
  ASSUME ConvInv, Sort
  PROVE  PayloadLeft' \in 0..(PayloadLeft - 1)
<1> DEFINE left == bufferLength - offset
           n == Len(packets)
<1>1. pc = "loop" /\ pc' = "calling" /\ called' = <<>>
  BY DEF Sort, ConvInv, CallsInOrder
<1>2. left \in Nat /\ n \in Nat /\ PayloadLeft = 2 * left + n + 2
  BY <1>1, LeftInLoop
<1>3. Len(packets') = n
  <2>1. \E order \in Orders(n) : packets' = [i \in 1..n |-> packets[order[i]]]
    BY DEF Sort
  <2> HIDE DEF n
  <2>2. QED
    BY <1>2, <2>1
<1>4. PayloadLeft' = n - 0 + 1
  BY <1>1, <1>3 DEF PayloadLeft
<1> HIDE DEF left, n
<1>5. n - 0 + 1 \in 0..(2 * left + n + 2 - 1)
  BY <1>2
<1>6. QED
  BY <1>2, <1>4, <1>5

LEMMA CallRunsDown ==
  ASSUME ConvInv, CallCallback
  PROVE  PayloadLeft' \in 0..(PayloadLeft - 1)
<1> DEFINE n == Len(packets)
           c == Len(called)
<1>1. /\ pc = "calling" /\ pc' = "calling" /\ c < n /\ packets' = packets
      /\ called' = Append(called, packets[c + 1])
  BY DEF CallCallback
<1>2. c \in Nat /\ n \in Nat /\ PayloadLeft = n - c + 1
  BY <1>1, LeftWhileCalling
<1>3. Len(called') = c + 1
  <2>1. called \in Seq(PacketsOfRecords)
    BY DEF ConvInv, ConvTyped
  <2>2. \A x : Len(Append(called, x)) = Len(called) + 1
    BY <2>1
  <2>3. QED
    BY <1>1, <2>2
<1>4. PayloadLeft' = n - (c + 1) + 1
  BY <1>1, <1>3 DEF PayloadLeft
<1> HIDE DEF n, c
<1>5. n - (c + 1) + 1 \in 0..(n - c + 1 - 1)
  BY <1>1, <1>2
<1>6. QED
  BY <1>2, <1>4, <1>5

\* An exception or the last call ends it, with at least a step left before.
LEMMA EndRunsDown ==
  ASSUME ConvInv, ParseFails \/ PayloadDone
  PROVE  PayloadLeft' \in 0..(PayloadLeft - 1)
<1>1. PayloadLeft' = 0
  BY DEF PayloadLeft, ParseFails, PayloadDone
<1>2. PayloadLeft \in Nat \ {0}
  <2>1. CASE ParseFails
    BY <2>1, LeftInLoop DEF ParseFails, InLoop
  <2>2. CASE PayloadDone
    BY <2>2, LeftWhileCalling DEF PayloadDone
  <2>3. QED
    BY <2>1, <2>2
<1> DEFINE before == PayloadLeft
<1>3. before \in Nat \ {0}
  BY <1>2
<1> HIDE DEF before
<1>4. 0 \in 0..(before - 1)
  BY <1>3
<1>5. QED
  BY <1>1, <1>4 DEF before

\* A payload of any length is dealt with within a number of steps its length
\* bounds: it never holds up the thread, whatever is in it.
THEOREM PayloadAlwaysRunsDown == Spec => PayloadRunsDown
<1>1. ASSUME ConvInv, Next PROVE PayloadLeft' \in 0..(PayloadLeft - 1)
  <2>1. CASE ConvertSucceeds
    <3>1. packets' = Append(packets, Converted(buffer[iRecord], iRecord))
      BY <2>1 DEF ConvertSucceeds
    <3>2. packets \in Seq(PacketsOfRecords)
      BY <1>1 DEF ConvInv, ConvTyped
    <3>3. \A x : Len(Append(packets, x)) = Len(packets) + 1
      BY <3>2
    <3>4. Len(packets') = Len(packets) + 1
      BY <3>1, <3>3
    <3>5. QED
      BY <1>1, <2>1, <3>4, RecordRunsDown DEF ConvertSucceeds
  <2>2. CASE ConvertFails
    BY <1>1, <2>2, RecordRunsDown DEF ConvertFails
  <2>3. CASE ParseFails \/ PayloadDone
    BY <1>1, <2>3, EndRunsDown
  <2>4. CASE Sort
    BY <1>1, <2>4, SortRunsDown
  <2>5. CASE CallCallback
    BY <1>1, <2>5, CallRunsDown
  <2>6. QED
    BY <1>1, <2>1, <2>2, <2>3, <2>4, <2>5 DEF Next
<1>2. ConvInv /\ [Next]_vars => [PayloadLeft' \in 0..(PayloadLeft - 1)]_vars
  BY <1>1
<1>3. QED
  BY <1>2, ConvInvAlways, PTL DEF Spec, PayloadRunsDown
=============================================================================
