--------------------------- MODULE MapReduceProofs ---------------------------
(***************************************************************************)
(* Proofs about run_map_reduce, for data of any length, any number of      *)
(* partitions and of given-up attempts, any order of the responses: how the *)
(* data are split, that the map phase keeps their order, what shuffle      *)
(* groups, and that the result is the sum over the data.  What a loop of   *)
(* the code computes is shown by its least turn that could go wrong.       *)
(***************************************************************************)
EXTENDS MapReduce, FiniteSetTheorems, SequenceTheorems, WellFoundedInduction, TLAPS

-----------------------------------------------------------------------------
(* Induction, as a least counterexample. *)

LEMMA LeastElement ==
  ASSUME NEW T, T \subseteq Nat, T # {}
  PROVE  \E x \in T : \A y \in T : x <= y
<1> DEFINE R == {p \in Nat \X Nat : p[1] < p[2]}
<1>1. IsWellFoundedOn(R, Nat)
  BY NatLessThanWellFounded DEF OpToRel
<1>2. PICK x \in T : \A y \in T : <<y, x>> \notin R
  <2> HIDE DEF R
  <2> QED
    BY <1>1, WFMin, Zenon
<1>3. x \in Nat
  BY <1>2
<1>4. ASSUME NEW y \in T PROVE x <= y
  <2>1. y \in Nat /\ <<y, x>> \in Nat \X Nat
    BY <1>3
  <2>2. <<y, x>> \notin R
    BY <1>2
  <2>3. ~(y < x)
    BY <2>1, <2>2
  <2>4. QED
    BY <1>3, <2>1, <2>3
<1>5. QED
  BY <1>4

(* Two loops that start alike, and go on alike from the same value. *)
InStep(f, g, n) ==
  /\ \A i \in 1 .. n : i = 1 => f[i] = g[i]
  /\ \A i \in 2 .. n : f[i - 1] = g[i - 1] => f[i] = g[i]

Agree(f, g, n) == \A i \in 1 .. n : f[i] = g[i]

LEMMA LoopsAgree ==
  ASSUME NEW n \in Nat, NEW f, NEW g, InStep(f, g, n)
  PROVE  Agree(f, g, n)
<1> DEFINE T == {i \in 1 .. n : f[i] # g[i]}
<1>1. SUFFICES ASSUME T # {} PROVE FALSE
  BY DEF Agree
<1>2. T \subseteq Nat
  OBVIOUS
<1>3. PICK x \in T : \A y \in T : x <= y
  <2> HIDE DEF T
  <2> QED
    BY <1>1, <1>2, LeastElement, Zenon
<1>4. x \in 1 .. n /\ f[x] # g[x]
  BY <1>3
<1>5. x # 1
  BY <1>4 DEF InStep
<1>6. x \in 2 .. n /\ x - 1 \in 1 .. n /\ ~(x <= x - 1)
  BY <1>4, <1>5
<1>7. x - 1 \notin T
  <2> HIDE DEF T
  <2> QED
    BY <1>3, <1>6
<1>8. f[x - 1] = g[x - 1]
  BY <1>6, <1>7
<1>9. QED
  BY <1>4, <1>6, <1>8 DEF InStep

-----------------------------------------------------------------------------
(* The chunks. *)

(* Where chunk i ends, by arithmetic: the first len % n are longer by one. *)
ChunkEnd(len, n, i) == i * (len \div n) + (IF i <= len % n THEN i ELSE len % n)

LEMMA DivMod ==
  ASSUME NEW len \in Nat, NEW n \in Nat, n # 0
  PROVE  /\ len \div n \in Nat /\ len % n \in Nat /\ len % n < n
         /\ len = n * (len \div n) + (len % n)
BY SMT

LEMMA EndsGrow ==
  ASSUME NEW len \in Nat, NEW n \in Nat, n # 0, NEW i \in Nat
  PROVE  /\ ChunkEnd(len, n, i) \in Nat
         /\ ChunkEnd(len, n, i + 1) = ChunkEnd(len, n, i) + ChunkSize(len, n, i + 1)
         /\ ChunkEnd(len, n, 0) = 0
         /\ ChunkEnd(len, n, n) = len
<1> DEFINE q == len \div n
           r == len % n
<1>1. q \in Nat /\ r \in Nat /\ r < n /\ len = n * q + r
  BY DivMod
<1>2. i * q \in Nat /\ (i + 1) * q = i * q + q /\ 0 * q = 0
  <2> HIDE DEF q
  <2> QED
    BY <1>1
<1>3. ChunkEnd(len, n, i) = i * q + (IF i <= r THEN i ELSE r)
  BY DEF ChunkEnd
<1>4. ChunkEnd(len, n, i + 1) = (i + 1) * q + (IF i + 1 <= r THEN i + 1 ELSE r)
  BY DEF ChunkEnd
<1>5. ChunkSize(len, n, i + 1) = q + (IF i + 1 <= r THEN 1 ELSE 0)
  BY DEF ChunkSize
<1>6. ChunkEnd(len, n, 0) = 0 * q + (IF 0 <= r THEN 0 ELSE r)
  BY DEF ChunkEnd
<1>7. ChunkEnd(len, n, n) = n * q + (IF n <= r THEN n ELSE r)
  BY DEF ChunkEnd
<1> HIDE DEF q, r
<1>8. ChunkEnd(len, n, i) \in Nat
  BY <1>1, <1>2, <1>3
<1>9. ChunkEnd(len, n, i + 1) = ChunkEnd(len, n, i) + ChunkSize(len, n, i + 1)
  BY <1>1, <1>2, <1>3, <1>4, <1>5
<1>10. ChunkEnd(len, n, 0) = 0
  BY <1>1, <1>2, <1>6
<1>11. ChunkEnd(len, n, n) = len
  BY <1>1, <1>7
<1>12. QED
  BY <1>8, <1>9, <1>10, <1>11

(* The loop of partition starts each chunk where the one before ends. *)
LEMMA Starts ==
  ASSUME NEW len \in Nat, NEW n \in Nat, NEW i \in 1 .. n
  PROVE  ChunkStart(len, n)[i] = ChunkEnd(len, n, i - 1)
<1> DEFINE start == ChunkStart(len, n)
           closed == [k \in 1 .. n |-> ChunkEnd(len, n, k - 1)]
           Rec(f) == [k \in 1 .. n |-> IF k = 1 THEN 0 ELSE f[k - 1] + ChunkSize(len, n, k - 1)]
<1>1. n # 0
  OBVIOUS
<1>2. closed = Rec(closed)
  <2>1. ASSUME NEW k \in 1 .. n
        PROVE  closed[k] = IF k = 1 THEN 0 ELSE closed[k - 1] + ChunkSize(len, n, k - 1)
    <3>1. CASE k = 1
      BY <1>1, <3>1, EndsGrow
    <3>2. CASE k # 1
      <4>1. k - 1 \in 1 .. n /\ k - 2 \in Nat /\ (k - 2) + 1 = k - 1 /\ (k - 1) - 1 = k - 2
        BY <3>2
      <4>2. ChunkEnd(len, n, k - 1) = ChunkEnd(len, n, k - 2) + ChunkSize(len, n, k - 1)
        BY <1>1, <4>1, EndsGrow
      <4>3. QED
        BY <3>2, <4>1, <4>2
    <3>3. QED
      BY <3>1, <3>2
  <2> HIDE DEF closed
  <2>2. closed = [k \in 1 .. n |-> closed[k]]
    BY DEF closed
  <2>3. QED
    BY <2>1, <2>2, Zenon
<1>3. start = CHOOSE f : f = Rec(f)
  BY DEF ChunkStart
<1>4. start = Rec(start)
  <2> HIDE DEF closed, Rec, start
  <2> QED
    BY <1>2, <1>3
<1>5. \A k \in 1 .. n : k = 1 => start[k] = closed[k]
  <2> HIDE DEF closed, start
  <2> QED
    BY <1>2, <1>4
<1>6. \A k \in 2 .. n : start[k - 1] = closed[k - 1] => start[k] = closed[k]
  <2> HIDE DEF closed, start
  <2> QED
    BY <1>2, <1>4
<1>7. Agree(start, closed, n)
  <2> HIDE DEF closed, start
  <2>1. InStep(start, closed, n)
    BY <1>5, <1>6 DEF InStep
  <2>2. QED
    BY <2>1, LoopsAgree
<1>8. QED
  BY <1>7 DEF Agree

LEMMA EndsBounded ==
  ASSUME NEW len \in Nat, NEW n \in Nat, n # 0, NEW i \in 0 .. n
  PROVE  ChunkEnd(len, n, i) \in 0 .. len
<1> DEFINE q == len \div n
           r == len % n
<1>1. q \in Nat /\ r \in Nat /\ r < n /\ len = n * q + r
  BY DivMod
<1>2. ChunkEnd(len, n, i) = i * q + (IF i <= r THEN i ELSE r)
  BY DEF ChunkEnd
<1> HIDE DEF q, r
<1>3. i * q \in Nat /\ n * q \in Nat /\ i * q <= n * q
  BY <1>1
<1>4. QED
  BY <1>1, <1>2, <1>3

(* The chunks of s, by where they end. *)
Chunks(s, n) ==
  [i \in 1 .. n |-> SubSeq(s, ChunkEnd(Len(s), n, i - 1) + 1, ChunkEnd(Len(s), n, i))]

LEMMA PartitionChunks ==
  ASSUME NEW S, NEW s \in Seq(S), NEW num \in Nat
  PROVE  partition(s, num) = Chunks(s, IF num <= Len(s) THEN num ELSE Len(s))
<1> DEFINE n == IF num <= Len(s) THEN num ELSE Len(s)
           start == ChunkStart(Len(s), n)
           Cut(i) == SubSeq(s, start[i] + 1, start[i] + ChunkSize(Len(s), n, i))
<1>1. n \in Nat /\ Len(s) \in Nat
  OBVIOUS
<1>2. partition(s, num) = [i \in 1 .. n |-> Cut(i)]
  BY DEF partition
<1>3. Chunks(s, n) = [i \in 1 .. n |->
                        SubSeq(s, ChunkEnd(Len(s), n, i - 1) + 1, ChunkEnd(Len(s), n, i))]
  BY DEF Chunks
<1>4. ASSUME NEW i \in 1 .. n
      PROVE  Cut(i) = SubSeq(s, ChunkEnd(Len(s), n, i - 1) + 1, ChunkEnd(Len(s), n, i))
  <2> HIDE DEF n
  <2>1. n # 0 /\ i - 1 \in Nat /\ (i - 1) + 1 = i
    BY <1>1
  <2>2. start[i] = ChunkEnd(Len(s), n, i - 1)
    BY <1>1, Starts
  <2>3. ChunkEnd(Len(s), n, i) = ChunkEnd(Len(s), n, i - 1) + ChunkSize(Len(s), n, i)
    BY <1>1, <2>1, EndsGrow
  <2>4. QED
    BY <2>2, <2>3
<1>5. partition(s, num) = Chunks(s, n)
  <2> HIDE DEF n, Cut
  <2> QED
    BY <1>2, <1>3, <1>4
<1>6. QED
  BY <1>5

(* A function on 1 .. n is a sequence. *)
LEMMA ListLength ==
  ASSUME NEW n \in Nat, NEW f, f = [i \in 1 .. n |-> f[i]]
  PROVE  DOMAIN f = 1 .. n /\ Len(f) = n /\ \E U : f \in Seq(U)
<1> DEFINE U == {f[i] : i \in 1 .. n}
<1>1. f \in [1 .. n -> U]
  OBVIOUS
<1> HIDE DEF U
<1>2. f \in Seq(U)
  BY <1>1
<1>3. DOMAIN f = 1 .. n
  BY <1>1
<1>4. Len(f) = n
  BY <1>2, <1>3, LenProperties
<1>5. QED
  BY <1>2, <1>3, <1>4

(* FlattenSeq is whatever its loop computes. *)
Flattens(h, ss, n) ==
  h = [i \in 1 .. n |-> IF i = 1 THEN ss[i] ELSE h[i - 1] \o ss[i]]

Appends(h, ss, n) ==
  /\ \A i \in 1 .. n : i = 1 => h[i] = ss[i]
  /\ \A i \in 2 .. n : h[i] = h[i - 1] \o ss[i]

LEMMA FlattensAppends ==
  ASSUME NEW n \in Nat, NEW ss, NEW h, Flattens(h, ss, n)
  PROVE  Appends(h, ss, n)
<1> DEFINE F == [i \in 1 .. n |-> IF i = 1 THEN ss[i] ELSE h[i - 1] \o ss[i]]
<1>1. h = F
  BY Zenon DEF Flattens
<1>2. ASSUME NEW i \in 1 .. n PROVE F[i] = IF i = 1 THEN ss[i] ELSE h[i - 1] \o ss[i]
  OBVIOUS
<1> HIDE DEF F
<1>3. \A i \in 1 .. n : h[i] = IF i = 1 THEN ss[i] ELSE h[i - 1] \o ss[i]
  BY <1>1, <1>2
<1>4. ASSUME NEW i \in 2 .. n PROVE h[i] = h[i - 1] \o ss[i]
  <2>1. i \in 1 .. n /\ i # 1
    OBVIOUS
  <2>2. QED
    BY <1>3, <2>1, Zenon
<1>5. QED
  BY <1>3, <1>4, Zenon DEF Appends

LEMMA FlattenLoop ==
  ASSUME NEW ss, NEW n \in Nat, n # 0, Len(ss) = n, NEW h, Flattens(h, ss, n)
  PROVE  FlattenSeq(ss) = h[n]
<1> DEFINE g == CHOOSE f : Flattens(f, ss, n)
<1>1. FlattenSeq(ss) = g[n]
  BY DEF FlattenSeq, Flattens
<1>2. Flattens(g, ss, n)
  OBVIOUS
<1> HIDE DEF g
<1>3. InStep(g, h, n)
  <2>1. Appends(g, ss, n) /\ Appends(h, ss, n)
    BY <1>2, FlattensAppends
  <2>2. \A i \in 1 .. n : i = 1 => g[i] = h[i]
    BY <2>1 DEF Appends
  <2>3. ASSUME NEW i \in 2 .. n, g[i - 1] = h[i - 1] PROVE g[i] = h[i]
    <3>1. g[i] = g[i - 1] \o ss[i] /\ h[i] = h[i - 1] \o ss[i]
      BY <2>1, Zenon DEF Appends
    <3>2. QED
      BY <2>3, <3>1
  <2>4. QED
    BY <2>2, <2>3 DEF InStep
<1>4. Agree(g, h, n)
  BY <1>3, LoopsAgree
<1>5. QED
  BY <1>1, <1>4 DEF Agree

(* ss lists the first m of the n chunks of s. *)
Cuts(ss, s, n, m) ==
  /\ Len(ss) = m
  /\ \A i \in 1 .. m :
       ss[i] = SubSeq(s, ChunkEnd(Len(s), n, i - 1) + 1, ChunkEnd(Len(s), n, i))

LEMMA PrefixFlattens ==
  ASSUME NEW S, NEW s \in Seq(S), NEW n \in Nat, NEW m \in 1 .. n, NEW ss, Cuts(ss, s, n, m)
  PROVE  FlattenSeq(ss) = SubSeq(s, 1, ChunkEnd(Len(s), n, m))
<1> DEFINE E(i) == ChunkEnd(Len(s), n, i)
           h == [i \in 1 .. m |-> SubSeq(s, 1, E(i))]
<1>1. /\ Len(s) \in Nat /\ Len(ss) = m /\ n # 0
      /\ \A i \in 1 .. m : ss[i] = SubSeq(s, E(i - 1) + 1, E(i))
  BY DEF Cuts
<1>2. E(0) = 0
  BY <1>1, EndsGrow
<1>3. ASSUME NEW i \in 1 .. m
      PROVE  /\ E(i - 1) \in 0 .. Len(s) /\ E(i) \in 0 .. Len(s)
             /\ E(i - 1) <= E(i)
  <2>1. i - 1 \in 0 .. n /\ i \in 0 .. n /\ i - 1 \in Nat /\ (i - 1) + 1 = i
    OBVIOUS
  <2>2. E(i - 1) \in 0 .. Len(s) /\ E(i) \in 0 .. Len(s)
    BY <1>1, <2>1, EndsBounded, Zenon
  <2>3. E(i) = E(i - 1) + ChunkSize(Len(s), n, i)
    BY <1>1, <2>1, EndsGrow
  <2>4. ChunkSize(Len(s), n, i) \in Nat
    <3>1. Len(s) \div n \in Nat
      BY <1>1, DivMod, Zenon
    <3>2. QED
      BY <3>1 DEF ChunkSize
  <2>5. QED
    <3> HIDE DEF E
    <3> QED
      BY <2>2, <2>3, <2>4
<1> HIDE DEF E
<1>4. ASSUME NEW i \in 1 .. m
      PROVE  SubSeq(s, 1, E(i)) = IF i = 1 THEN ss[i] ELSE h[i - 1] \o ss[i]
  <2>1. CASE i = 1
    <3>1. i - 1 = 0
      BY <2>1
    <3>2. E(i - 1) + 1 = 1
      BY <1>2, <3>1
    <3>3. QED
      BY <1>1, <2>1, <3>2
  <2>2. CASE i # 1
    <3>1. h[i - 1] = SubSeq(s, 1, E(i - 1))
      <4>1. i - 1 \in 1 .. m
        BY <2>2
      <4>2. QED
        BY <4>1, Zenon
    <3>2. 1 \in 1 .. Len(s) + 1 /\ E(i - 1) \in 1 - 1 .. Len(s) /\ E(i) \in E(i - 1) .. Len(s)
      BY <1>1, <1>3
    <3>3. SubSeq(s, 1, E(i - 1)) \o SubSeq(s, E(i - 1) + 1, E(i)) = SubSeq(s, 1, E(i))
      BY <3>2, ConcatAdjacentSubSeq, Zenon
    <3>4. QED
      BY <1>1, <2>2, <3>1, <3>3, Zenon
  <2>3. QED
    BY <2>1, <2>2, Zenon
<1>5. Flattens(h, ss, m)
  BY <1>4, Zenon DEF Flattens
<1>6. m \in Nat /\ m # 0 /\ m \in 1 .. m
  OBVIOUS
<1>7. h[m] = SubSeq(s, 1, E(m))
  BY <1>6, Zenon
<1>8. QED
  <2> HIDE DEF h
  <2> QED
    BY <1>1, <1>5, <1>6, <1>7, FlattenLoop DEF E

LEMMA ChunksFlatten ==
  ASSUME NEW S, NEW s \in Seq(S), NEW n \in Nat, n # 0, NEW ss, Cuts(ss, s, n, n)
  PROVE  FlattenSeq(ss) = s
<1>1. ChunkEnd(Len(s), n, n) = Len(s)
  BY EndsGrow
<1>2. FlattenSeq(ss) = SubSeq(s, 1, Len(s))
  BY <1>1, PrefixFlattens
<1>3. QED
  BY <1>2, SubSeqFull

(* What partition returns. *)
LEMMA PartitionSplits ==
  ASSUME NEW S, NEW s \in Seq(S), NEW num \in Nat \ {0}
  PROVE  LET ss == partition(s, num) IN
         /\ FlattenSeq(ss) = s
         /\ Len(ss) = Cardinality((1 .. num) \cap DOMAIN s)
         /\ \A i, j \in DOMAIN ss :
              /\ ss[i] # <<>>
              /\ i <= j => Len(ss[i]) - Len(ss[j]) \in {0, 1}
<1> DEFINE n == IF num <= Len(s) THEN num ELSE Len(s)
           ss == Chunks(s, n)
           Size(i) == ChunkSize(Len(s), n, i)
<1>1. partition(s, num) = ss
  BY PartitionChunks
<1>2. n \in Nat /\ n <= Len(s) /\ Len(s) \in Nat /\ (n = 0 => Len(s) = 0)
  OBVIOUS
<1>3. (1 .. num) \cap DOMAIN s = 1 .. n
  OBVIOUS
<1> HIDE DEF n
<1>4. Cardinality(1 .. n) = n
  BY <1>2, FS_Interval
<1>5. /\ DOMAIN ss = 1 .. n /\ Len(ss) = n
      /\ \A i \in 1 .. n :
           ss[i] = SubSeq(s, ChunkEnd(Len(s), n, i - 1) + 1, ChunkEnd(Len(s), n, i))
  <2>1. \A i \in 1 .. n :
          ss[i] = SubSeq(s, ChunkEnd(Len(s), n, i - 1) + 1, ChunkEnd(Len(s), n, i))
    BY Zenon DEF Chunks
  <2>2. ss = [i \in 1 .. n |-> ss[i]]
    BY Zenon DEF Chunks
  <2> HIDE DEF ss
  <2>3. DOMAIN ss = 1 .. n /\ Len(ss) = n
    BY <1>2, <2>2, ListLength
  <2>4. QED
    BY <2>1, <2>3
<1>6. FlattenSeq(ss) = s
  <2>1. CASE n = 0
    <3>1. Len(ss) = 0 /\ ss = <<>> /\ s = <<>>
      BY <1>2, <1>5, <2>1 DEF Chunks
    <3>2. QED
      BY <3>1 DEF FlattenSeq
  <2>2. CASE n # 0
    <3> HIDE DEF ss
    <3>1. Cuts(ss, s, n, n)
      BY <1>5 DEF Cuts
    <3>2. QED
      BY <1>2, <2>2, <3>1, ChunksFlatten
  <2>3. QED
    BY <2>1, <2>2
<1>7. ASSUME NEW i \in 1 .. n PROVE Len(ss[i]) = Size(i)
  <2> DEFINE a == ChunkEnd(Len(s), n, i - 1)
             b == ChunkEnd(Len(s), n, i)
  <2>1. n # 0 /\ i - 1 \in Nat /\ (i - 1) + 1 = i /\ i - 1 \in 0 .. n /\ i \in 0 .. n
    BY <1>2
  <2>2. a \in 0 .. Len(s) /\ b \in 0 .. Len(s)
    BY <1>2, <2>1, EndsBounded, Zenon
  <2>3. b = a + Size(i)
    BY <1>2, <2>1, EndsGrow
  <2>4. Size(i) \in Nat
    <3>1. Len(s) \div n \in Nat
      BY <1>2, <2>1, DivMod
    <3>2. QED
      BY <3>1 DEF ChunkSize
  <2>5. ss[i] = SubSeq(s, a + 1, b)
    BY <1>5
  <2> HIDE DEF a, b, Size, ss
  <2>6. \A k \in a + 1 .. b : s[k] \in S
    BY <1>2, <2>2
  <2>7. Len(SubSeq(s, a + 1, b)) = IF a + 1 <= b THEN b - (a + 1) + 1 ELSE 0
    BY <2>2, <2>6, SubSeqProperties
  <2>8. QED
    BY <2>2, <2>3, <2>4, <2>5, <2>7
<1>8. ASSUME NEW i \in 1 .. n, NEW j \in 1 .. n
      PROVE  /\ Size(i) # 0
             /\ i <= j => Size(i) - Size(j) \in {0, 1}
  <2> DEFINE q == Len(s) \div n
             r == Len(s) % n
  <2>1. q \in Nat /\ r \in Nat /\ r < n /\ Len(s) = n * q + r
    BY <1>2, DivMod
  <2>2. Size(i) = q + (IF i <= r THEN 1 ELSE 0) /\ Size(j) = q + (IF j <= r THEN 1 ELSE 0)
    BY DEF ChunkSize
  <2> HIDE DEF q, r
  <2>3. q # 0
    BY <1>2, <2>1
  <2>4. QED
    BY <2>1, <2>2, <2>3
<1>9. ASSUME NEW i \in 1 .. n, NEW j \in 1 .. n
      PROVE  /\ ss[i] # <<>>
             /\ i <= j => Len(ss[i]) - Len(ss[j]) \in {0, 1}
  <2> HIDE DEF ss, Size
  <2>1. Len(ss[i]) = Size(i) /\ Len(ss[j]) = Size(j)
    BY <1>7
  <2>2. Size(i) # 0
    BY <1>8
  <2>3. ss[i] # <<>>
    BY <2>1, <2>2
  <2>4. QED
    BY <1>8, <2>1, <2>3
<1>10. QED
  <2> HIDE DEF ss
  <2> QED
    BY <1>1, <1>3, <1>4, <1>5, <1>6, <1>9, Zenon

-----------------------------------------------------------------------------
(* The map phase. *)

(* The responses so far: a success is what the worker computed for the     *)
(* chunk, whether its attempt was the current one or not.                  *)
MapInv ==
  /\ data \in Seq(Items)
  /\ num_partitions \in Nat
  /\ pc = "start" => responses = <<>>
  /\ pc = "mapping" =>
       /\ num_partitions # 0
       /\ tasks = partition(data, num_partitions)
       /\ \E S : responses \in Seq(S)
       /\ \A i \in DOMAIN responses :
            responses[i].status = "success"
              => responses[i].result = execute_map(tasks[responses[i].task])

LEMMA MapInit ==
  ASSUME Init
  PROVE  MapInv
<1>1. data \in Seq(Items)
  <2>1. PICK n \in 0 .. MaxLen : data \in [1 .. n -> Items]
    BY DEF Init
  <2>2. n \in Nat
    BY <2>1, MapReduceAssumption
  <2>3. QED
    BY <2>1, <2>2
<1>2. num_partitions \in Nat
  BY MapReduceAssumption DEF Init
<1>3. QED
  BY <1>1, <1>2 DEF Init, MapInv

LEMMA RespondsKeeps ==
  ASSUME MapInv, NEW t, NEW s, NEW over, Responds(t, s, over), pc = "mapping"
  PROVE  MapInv'
<1> DEFINE r == [task |-> t, status |-> s, over |-> over,
                 result |-> IF s = "success" THEN Execute(t) ELSE Nothing]
<1>1. PICK S : responses \in Seq(S)
  BY DEF MapInv
<1>2. /\ responses' = Append(responses, r)
      /\ UNCHANGED <<pc, data, num_partitions, tasks>>
  BY DEF Responds
<1>3. /\ r.task = t
      /\ r.status = "success" => r.result = execute_map(tasks[t])
  BY DEF Execute
<1> HIDE DEF r
<1>4. /\ DOMAIN responses = 1 .. Len(responses) /\ Len(responses) \in Nat
      /\ DOMAIN responses' = 1 .. Len(responses) + 1
      /\ responses'[Len(responses) + 1] = r
      /\ \A i \in 1 .. Len(responses) : responses'[i] = responses[i]
  BY <1>1, <1>2
<1>5. responses' \in Seq(S \cup {r})
  <2>1. responses \in Seq(S \cup {r})
    BY <1>1, SeqMonotonic
  <2>2. QED
    BY <1>2, <2>1
<1>6. ASSUME NEW i \in DOMAIN responses', responses'[i].status = "success"
      PROVE  responses'[i].result = execute_map(tasks[responses'[i].task])
  <2>1. CASE i \in 1 .. Len(responses)
    BY <1>4, <1>6, <2>1 DEF MapInv
  <2>2. CASE i = Len(responses) + 1
    BY <1>3, <1>4, <1>6, <2>2
  <2>3. QED
    BY <1>4, <2>1, <2>2
<1>7. QED
  BY <1>2, <1>5, <1>6 DEF MapInv

(* One step per action. *)
LEMMA MapStep ==
  ASSUME MapInv, [Next]_vars
  PROVE  MapInv'
<1>1. CASE build_map_job
  <2>1. UNCHANGED <<data, num_partitions, responses>> /\ responses = <<>>
        /\ pc' \in {"raised", "mapping"}
    BY <1>1 DEF build_map_job, MapInv
  <2>2. CASE pc' = "raised"
    BY <2>1, <2>2 DEF MapInv
  <2>3. CASE pc' = "mapping"
    <3>1. num_partitions # 0 /\ tasks' = partition(data, num_partitions)
      BY <1>1, <2>3 DEF build_map_job, MapInv
    <3>2. \E S : <<>> \in Seq(S)
      BY EmptySeq
    <3>3. DOMAIN responses = {}
      BY <2>1
    <3>4. QED
      BY <2>1, <2>3, <3>1, <3>2, <3>3 DEF MapInv
  <2>4. QED
    BY <2>1, <2>2, <2>3
<1>2. ASSUME NEW t, NEW s, NEW over, Responds(t, s, over) PROVE MapInv'
  <2>1. CASE pc = "mapping"
    BY <1>2, <2>1, RespondsKeeps
  <2>2. CASE pc = "reducing"
    BY <1>2, <2>2 DEF Responds, MapInv
  <2>3. QED
    BY <1>2, <2>1, <2>2 DEF Responds
<1>3. CASE ShuffleAndSubmit
  <2>1. UNCHANGED <<data, num_partitions>> /\ pc' \in {"raised", "reducing"}
    BY <1>3 DEF ShuffleAndSubmit
  <2>2. QED
    BY <2>1 DEF MapInv
<1>4. CASE collect_reduce_results
  <2>1. UNCHANGED <<data, num_partitions>> /\ pc' \in {"raised", "done"}
    BY <1>4 DEF collect_reduce_results
  <2>2. QED
    BY <2>1 DEF MapInv
<1>5. CASE DispatchRaises
  BY <1>5 DEF DispatchRaises, MapInv
<1>6. CASE UNCHANGED vars
  BY <1>6 DEF vars, MapInv
<1>7. QED
  BY <1>1, <1>2, <1>3, <1>4, <1>5, <1>6 DEF Next

(* partition splits data of any length into runs whose sizes differ by one *)
(* at most, none of them empty and the larger ones first, which put        *)
(* together are the data, as many as asked for or as there are items.      *)
THEOREM PartitionIsSplitHolds == Spec => []PartitionIsSplit
<1>1. MapInv => PartitionIsSplit
  <2>1. SUFFICES ASSUME MapInv, pc = "mapping"
                 PROVE  PartitionIsSplit
    BY Zenon DEF PartitionIsSplit
  <2>2. /\ data \in Seq(Items) /\ num_partitions \in Nat \ {0}
        /\ tasks = partition(data, num_partitions)
    BY <2>1 DEF MapInv
  <2>3. QED
    BY <2>2, PartitionSplits DEF PartitionIsSplit
<1>2. QED
  BY <1>1, MapInit, MapStep, PTL DEF Spec

-----------------------------------------------------------------------------
(* Collecting the results of the map phase. *)

LEMMA MaxOfList ==
  ASSUME NEW n \in Nat, NEW M, M \subseteq 1 .. n, M # {}
  PROVE  Max(M) \in M /\ \A y \in M : y <= Max(M)
<1> DEFINE T == {n - x : x \in M}
<1>1. T \subseteq Nat /\ T # {}
  <2>1. ASSUME NEW x \in M PROVE n - x \in Nat
    OBVIOUS
  <2>2. PICK x : x \in M
    OBVIOUS
  <2>3. n - x \in T
    BY <2>2
  <2>4. QED
    BY <2>1, <2>3
<1>2. PICK z \in T : \A y \in T : z <= y
  <2> HIDE DEF T
  <2> QED
    BY <1>1, LeastElement, Zenon
<1>3. PICK x \in M : z = n - x
  BY <1>2
<1>4. ASSUME NEW y \in M PROVE x >= y
  <2>1. n - x <= n - y
    BY <1>2, <1>3, Zenon
  <2>2. QED
    BY <2>1
<1>5. Max(M) \in M /\ \A y \in M : Max(M) >= y
  BY <1>3, <1>4, Zenon DEF Max
<1>6. QED
  BY <1>5

(* The response that counts for a task is its last one. *)
LEMMA LastIsSuccess ==
  ASSUME MapInv, pc = "mapping", NEW t, LastSucceeds(responses, t)
  PROVE  /\ Succeeded(responses, t)
         /\ ResponsesFor(responses, t)[1].result = execute_map(tasks[t])
<1> DEFINE mine == {i \in DOMAIN responses : responses[i].task = t}
<1>1. PICK S : responses \in Seq(S)
  BY DEF MapInv
<1>2. DOMAIN responses = 1 .. Len(responses) /\ Len(responses) \in Nat
  BY <1>1
<1>3. PICK k \in DOMAIN responses :
        /\ responses[k].task = t /\ responses[k].status = "success"
        /\ \A j \in DOMAIN responses : responses[j].task = t => j <= k
  BY DEF LastSucceeds
<1>4. k \in mine /\ mine \subseteq 1 .. Len(responses)
  BY <1>2, <1>3
<1>5. Max(mine) \in mine /\ k <= Max(mine)
  <2> HIDE DEF mine
  <2> QED
    BY <1>2, <1>4, MaxOfList
<1>6. /\ ResponsesFor(responses, t) # <<>>
      /\ ResponsesFor(responses, t)[1] = responses[Max(mine)]
  <2>1. mine # {}
    BY <1>4
  <2>2. ResponsesFor(responses, t) = <<responses[Max(mine)]>>
    BY <2>1 DEF ResponsesFor
  <2>3. QED
    BY <2>2
<1>7. Max(mine) = k
  <2> DEFINE m == Max(mine)
  <2>1. m \in DOMAIN responses /\ responses[m].task = t
    BY <1>5
  <2> HIDE DEF m
  <2>2. m <= k
    BY <1>3, <2>1
  <2>3. m \in Nat /\ k \in Nat
    BY <1>2, <1>3, <2>1
  <2>4. k <= m
    BY <1>5 DEF m
  <2>5. m = k
    BY <2>2, <2>3, <2>4
  <2>6. QED
    BY <2>5 DEF m
<1> HIDE DEF mine
<1>8. QED
  BY <1>3, <1>6, <1>7 DEF MapInv, Succeeded

(* A cut of a sequence. *)
LEMMA CutFacts ==
  ASSUME NEW S, NEW s \in Seq(S), NEW a \in 0 .. Len(s), NEW b \in 0 .. Len(s), a <= b
  PROVE  /\ SubSeq(s, a + 1, b) \in Seq(S)
         /\ Len(SubSeq(s, a + 1, b)) = b - a
         /\ \A i \in 1 .. b - a : SubSeq(s, a + 1, b)[i] = s[a + i]
<1> DEFINE c == SubSeq(s, a + 1, b)
<1>1. /\ Len(s) \in Nat /\ a \in Nat /\ b \in Nat /\ a + 1 \in Int /\ b \in Int
      /\ \A k \in a + 1 .. b : s[k] \in S
  OBVIOUS
<1>2. /\ c \in Seq(S)
      /\ Len(c) = IF a + 1 <= b THEN b - (a + 1) + 1 ELSE 0
      /\ \A i \in 1 .. b - (a + 1) + 1 : c[i] = s[(a + 1) + i - 1]
  BY <1>1, SubSeqProperties
<1> HIDE DEF c
<1>3. c \in Seq(S) /\ Len(c) = b - a /\ \A i \in 1 .. b - a : c[i] = s[a + i]
  BY <1>1, <1>2
<1>4. QED
  BY <1>3 DEF c

(* Mapping a chunk is cutting the mapped data. *)
LEMMA MapCut ==
  ASSUME NEW s \in Seq(Items), NEW a \in 0 .. Len(s), NEW b \in 0 .. Len(s), a <= b
  PROVE  execute_map(SubSeq(s, a + 1, b)) = SubSeq(execute_map(s), a + 1, b)
<1> DEFINE T == {Emits[x] : x \in Items}
           c == SubSeq(s, a + 1, b)
           e == execute_map(s)
           d == SubSeq(e, a + 1, b)
<1>1. /\ Len(s) \in Nat /\ a \in Nat /\ b \in Nat
      /\ \A k \in a + 1 .. b : s[k] \in Items
  OBVIOUS
<1>2. c \in Seq(Items) /\ Len(c) = b - a /\ \A i \in 1 .. b - a : c[i] = s[a + i]
  BY CutFacts
<1>3. e = [i \in 1 .. Len(s) |-> Emits[s[i]]]
  BY DEF execute_map
<1>4. \A k \in a + 1 .. b : e[k] \in T
  BY <1>1, <1>3
<1>5. d \in Seq(T) /\ Len(d) = b - a /\ \A i \in 1 .. b - a : d[i] = e[a + i]
  <2>1. a + 1 \in Int /\ b \in Int
    BY <1>1
  <2> HIDE DEF T, e
  <2>2. /\ d \in Seq(T)
        /\ Len(d) = IF a + 1 <= b THEN b - (a + 1) + 1 ELSE 0
        /\ \A i \in 1 .. b - (a + 1) + 1 : d[i] = e[(a + 1) + i - 1]
    BY <1>4, <2>1, SubSeqProperties
  <2> HIDE DEF d
  <2>3. QED
    BY <1>1, <2>2
<1> HIDE DEF c, d
<1>6. execute_map(c) = [i \in 1 .. b - a |-> Emits[c[i]]]
  BY <1>2 DEF execute_map
<1>7. d = [i \in 1 .. b - a |-> d[i]]
  BY <1>5
<1>8. ASSUME NEW i \in 1 .. b - a PROVE Emits[c[i]] = d[i]
  <2>1. a + i \in 1 .. Len(s)
    BY <1>1
  <2>2. e[a + i] = Emits[s[a + i]]
    BY <1>3, <2>1
  <2>3. c[i] = s[a + i] /\ d[i] = e[a + i]
    BY <1>2, <1>5
  <2> HIDE DEF e
  <2>4. QED
    BY <2>2, <2>3
<1>9. execute_map(c) = d
  BY <1>6, <1>7, <1>8
<1>10. QED
  BY <1>9 DEF c, d

(* Whatever order the responses came in, and whatever those of given-up    *)
(* attempts said, the output of a map job whose tasks each have a success  *)
(* for their last response is the mapped data in their own order.          *)
THEOREM MapJobInOrderHolds == Spec => []MapJobInOrder
<1> DEFINE n == IF num_partitions <= Len(data) THEN num_partitions ELSE Len(data)
           e == execute_map(data)
           parts == [i \in DOMAIN tasks |-> ResponsesFor(responses, i)[1].result]
           T == {Emits[x] : x \in Items}
<1>1. ASSUME MapInv, pc = "mapping",
             \A t \in DOMAIN tasks : LastSucceeds(responses, t)
      PROVE  collect_map_results(tasks, responses) = e
  <2>1. /\ data \in Seq(Items) /\ num_partitions \in Nat \ {0}
        /\ tasks = partition(data, num_partitions)
    BY <1>1 DEF MapInv
  <2>2. tasks = Chunks(data, n)
    BY <2>1, PartitionChunks
  <2>3. n \in Nat /\ Len(data) \in Nat /\ (n = 0 => Len(data) = 0)
    BY <2>1
  <2>4. e = [i \in 1 .. Len(data) |-> Emits[data[i]]] /\ e \in Seq(T) /\ Len(e) = Len(data)
    <3>1. e = [i \in 1 .. Len(data) |-> Emits[data[i]]]
      BY <2>1 DEF execute_map
    <3>2. e \in [1 .. Len(data) -> T]
      BY <2>1, <3>1
    <3> HIDE DEF e, T
    <3>3. e \in Seq(T)
      BY <2>3, <3>2
    <3>4. e = [i \in 1 .. Len(data) |-> e[i]]
      BY <3>2
    <3>5. Len(e) = Len(data)
      BY <2>3, <3>4, ListLength
    <3>6. QED
      BY <3>1, <3>3, <3>5
  <2> HIDE DEF n, e, T
  <2>5. DOMAIN tasks = 1 .. n
    BY <2>2 DEF Chunks
  <2>6. \A i \in 1 .. n : parts[i] = execute_map(tasks[i])
    BY <1>1, <2>5, LastIsSuccess
  <2>7. parts = [i \in 1 .. n |-> parts[i]]
    BY <2>5
  <2>8. collect_map_results(tasks, responses) = FlattenSeq(parts)
    BY DEF collect_map_results
  <2> HIDE DEF parts
  <2>9. Len(parts) = n
    BY <2>3, <2>7, ListLength
  <2>10. CASE n = 0
    <3>1. parts = e
      BY <2>3, <2>4, <2>7, <2>10
    <3>2. QED
      BY <2>8, <2>9, <2>10, <3>1 DEF FlattenSeq
  <2>11. CASE n # 0
    <3>1. ASSUME NEW i \in 1 .. n
          PROVE  parts[i] = SubSeq(e, ChunkEnd(Len(e), n, i - 1) + 1, ChunkEnd(Len(e), n, i))
      <4> DEFINE a == ChunkEnd(Len(data), n, i - 1)
                 b == ChunkEnd(Len(data), n, i)
      <4>1. i - 1 \in Nat /\ (i - 1) + 1 = i /\ i - 1 \in 0 .. n /\ i \in 0 .. n
        BY <2>3
      <4>2. a \in 0 .. Len(data) /\ b \in 0 .. Len(data)
        BY <2>3, <2>11, <4>1, EndsBounded, Zenon
      <4>3. a <= b
        <5>1. b = a + ChunkSize(Len(data), n, i)
          BY <2>3, <2>11, <4>1, EndsGrow
        <5>2. ChunkSize(Len(data), n, i) \in Nat
          <6>1. Len(data) \div n \in Nat
            BY <2>3, <2>11, DivMod
          <6>2. QED
            BY <6>1 DEF ChunkSize
        <5> HIDE DEF a, b
        <5>3. QED
          BY <4>2, <5>1, <5>2
      <4>4. tasks[i] = SubSeq(data, a + 1, b)
        BY <2>2, Zenon DEF Chunks
      <4> HIDE DEF a, b
      <4>5. execute_map(tasks[i]) = SubSeq(e, a + 1, b)
        BY <2>1, <4>2, <4>3, <4>4, MapCut DEF e
      <4>6. QED
        BY <2>4, <2>6, <4>5 DEF a, b
    <3>2. Cuts(parts, e, n, n)
      BY <2>9, <3>1 DEF Cuts
    <3>3. QED
      BY <2>3, <2>4, <2>8, <2>11, <3>2, ChunksFlatten
  <2>12. QED
    BY <2>10, <2>11
<1>2. MapInv => MapJobInOrder
  BY <1>1 DEF MapJobInOrder
<1>3. QED
  BY <1>2, MapInit, MapStep, PTL DEF Spec

-----------------------------------------------------------------------------
(* The loops over a list: of shuffle over its results, over the pairs of   *)
(* one of them, and of the sum.  Each has a value after every turn, so the *)
(* recursive function that stands for it is that value.                    *)

Turn(kind, x, y) ==
  CASE kind = "pair" -> AddPair(x, y)
    [] kind = "result" -> IF y.status = "SUCCESS" THEN AddPairs(x, y.data) ELSE x
    [] kind = "sum" -> x + y

Loop(h, kind, x, s, n) ==
  h = [i \in 0 .. n |-> IF i = 0 THEN x ELSE Turn(kind, h[i - 1], s[i])]

(* A loop that runs n turns can run one more. *)
LEMMA LoopRuns ==
  ASSUME NEW kind, NEW x, NEW s, NEW n \in Nat
  PROVE  \E h : Loop(h, kind, x, s, n)
<1> DEFINE T == {m \in Nat : ~ \E h : Loop(h, kind, x, s, m)}
<1>1. SUFFICES ASSUME T # {} PROVE FALSE
  OBVIOUS
<1>2. T \subseteq Nat
  OBVIOUS
<1>3. PICK m \in T : \A y \in T : m <= y
  <2> HIDE DEF T
  <2> QED
    BY <1>1, <1>2, LeastElement, Zenon
<1>4. m \in Nat /\ ~ \E h : Loop(h, kind, x, s, m)
  BY <1>3
<1>5. m # 0
  <2> DEFINE h0 == [i \in 0 .. 0 |-> x]
  <2>1. Loop(h0, kind, x, s, 0)
    BY DEF Loop
  <2>2. QED
    BY <1>4, <2>1
<1>6. m - 1 \in Nat /\ ~(m <= m - 1)
  BY <1>4, <1>5
<1>7. PICK h : Loop(h, kind, x, s, m - 1)
  BY <1>3, <1>6
<1>8. \A i \in 0 .. m - 1 : h[i] = IF i = 0 THEN x ELSE Turn(kind, h[i - 1], s[i])
  BY <1>7 DEF Loop
<1> DEFINE f == [i \in 0 .. m |-> IF i = m THEN Turn(kind, h[m - 1], s[m]) ELSE h[i]]
<1>9. ASSUME NEW i \in 0 .. m
      PROVE  f[i] = IF i = 0 THEN x ELSE Turn(kind, f[i - 1], s[i])
  <2>1. CASE i = m
    <3>1. m - 1 \in 0 .. m /\ m - 1 # m
      BY <1>6
    <3>2. f[m - 1] = h[m - 1]
      BY <3>1
    <3>3. QED
      BY <1>5, <2>1, <3>2
  <2>2. CASE i = 0
    BY <1>5, <1>6, <1>8, <2>2
  <2>3. CASE i # 0 /\ i # m
    <3>1. i \in 0 .. m - 1 /\ i - 1 \in 0 .. m /\ i - 1 # m
      BY <1>4, <2>3
    <3>2. f[i] = h[i] /\ f[i - 1] = h[i - 1]
      BY <2>3, <3>1
    <3> HIDE DEF f
    <3>3. QED
      BY <1>8, <2>3, <3>1, <3>2
  <2>4. QED
    BY <2>1, <2>2, <2>3
<1>10. f = [i \in 0 .. m |-> f[i]]
  OBVIOUS
<1>11. Loop(f, kind, x, s, m)
  <2> HIDE DEF f
  <2> QED
    BY <1>9, <1>10, Zenon DEF Loop
<1>12. QED
  BY <1>4, <1>11

(* What a loop does, turn by turn. *)
Turns(h, kind, x, s, n) ==
  /\ h[0] = x
  /\ \A i \in 1 .. n : h[i] = Turn(kind, h[i - 1], s[i])

LEMMA LoopTurns ==
  ASSUME NEW kind, NEW x, NEW s, NEW n \in Nat
  PROVE  Turns(CHOOSE h : Loop(h, kind, x, s, n), kind, x, s, n)
<1> DEFINE h == CHOOSE f : Loop(f, kind, x, s, n)
<1>1. Loop(h, kind, x, s, n)
  BY LoopRuns
<1> HIDE DEF h
<1>2. \A i \in 0 .. n : h[i] = IF i = 0 THEN x ELSE Turn(kind, h[i - 1], s[i])
  BY <1>1 DEF Loop
<1>3. h[0] = x
  BY <1>2
<1>4. ASSUME NEW i \in 1 .. n PROVE h[i] = Turn(kind, h[i - 1], s[i])
  <2>1. i \in 0 .. n /\ i # 0
    OBVIOUS
  <2>2. QED
    BY <1>2, <2>1
<1>5. Turns(h, kind, x, s, n)
  BY <1>3, <1>4 DEF Turns
<1>6. QED
  BY <1>5 DEF h

LEMMA AddPairsTurns ==
  ASSUME NEW g, NEW pairs, Len(pairs) \in Nat
  PROVE  \E h : Turns(h, "pair", g, pairs, Len(pairs)) /\ AddPairs(g, pairs) = h[Len(pairs)]
<1> DEFINE h == CHOOSE f : Loop(f, "pair", g, pairs, Len(pairs))
<1>1. AddPairs(g, pairs) = h[Len(pairs)]
  BY DEF AddPairs, Loop, Turn
<1>2. QED
  BY <1>1, LoopTurns, Zenon

LEMMA ShuffleTurns ==
  ASSUME NEW rs, Len(rs) \in Nat
  PROVE  \E h : Turns(h, "result", Nothing, rs, Len(rs)) /\ shuffle(rs) = h[Len(rs)]
<1> DEFINE h == CHOOSE f : Loop(f, "result", Nothing, rs, Len(rs))
<1>1. shuffle(rs) = h[Len(rs)]
  BY DEF shuffle, Loop, Turn
<1>2. QED
  BY <1>1, LoopTurns, Zenon

LEMMA SumTurns ==
  ASSUME NEW v, Len(v) \in Nat
  PROVE  \E h : Turns(h, "sum", 0, v, Len(v)) /\ execute_reduce(v) = h[Len(v)]
<1> DEFINE h == CHOOSE f : Loop(f, "sum", 0, v, Len(v))
<1>1. execute_reduce(v) = h[Len(v)]
  BY DEF execute_reduce, Loop, Turn
<1>2. QED
  BY <1>1, LoopTurns, Zenon

LEMMA SumOverTurns ==
  ASSUME NEW P, Len(data) \in Nat
  PROVE  \E h :
           /\ Turns(h, "sum", 0,
                    [p \in DOMAIN data |-> IF p \in P THEN Emits[data[p]].value ELSE 0],
                    Len(data))
           /\ SumOver(P) = h[Len(data)]
<1> DEFINE v == [p \in DOMAIN data |-> IF p \in P THEN Emits[data[p]].value ELSE 0]
           h == CHOOSE f : Loop(f, "sum", 0, v, Len(data))
<1>1. SumOver(P) = h[Len(data)]
  BY DEF SumOver, Loop, Turn
<1> HIDE DEF v
<1>2. QED
  BY <1>1, LoopTurns, Zenon DEF v

-----------------------------------------------------------------------------
(* Grouping. *)

Key(p) == Emits[data[p]].key
Val(p) == Emits[data[p]].value

(* The positions in P that emitted key k, and the rank of one in a set. *)
At(P, k) == {p \in P : Key(p) = k}
Rank(A, p) == Cardinality({q \in A : q <= p})

(* v lists the values emitted at the positions in A, in their order. *)
InOrder(v, A) ==
  /\ v \in Seq(Nat)
  /\ Len(v) = Cardinality(A)
  /\ \A p \in A : v[Rank(A, p)] = Val(p)

Grouped(g, P) ==
  /\ DOMAIN g = {Key(p) : p \in P}
  /\ \A k \in DOMAIN g : InOrder(g[k], At(P, k))

LEMMA RankBounds ==
  ASSUME NEW A, A \subseteq Nat, IsFiniteSet(A), NEW p \in A
  PROVE  Rank(A, p) \in 1 .. Cardinality(A) /\ Cardinality(A) \in Nat
<1> DEFINE B == {q \in A : q <= p}
<1>1. B \subseteq A /\ p \in B
  OBVIOUS
<1> HIDE DEF B
<1>2. /\ IsFiniteSet(B) /\ Cardinality(B) <= Cardinality(A)
      /\ Cardinality(A) \in Nat /\ Cardinality(B) \in Nat
  BY <1>1, FS_Subset, FS_CardinalityType, Zenon
<1>3. Cardinality(B) # 0
  BY <1>1, <1>2, FS_EmptySet
<1>4. Rank(A, p) = Cardinality(B)
  BY DEF Rank, B
<1>5. QED
  BY <1>2, <1>3, <1>4

(* A position behind those of A. *)
LEMMA RankNext ==
  ASSUME NEW A, A \subseteq Nat, IsFiniteSet(A), NEW x \in Nat, \A p \in A : p < x
  PROVE  /\ IsFiniteSet(A \cup {x}) /\ Cardinality(A \cup {x}) = Cardinality(A) + 1
         /\ Rank(A \cup {x}, x) = Cardinality(A) + 1
         /\ \A p \in A : Rank(A \cup {x}, p) = Rank(A, p)
<1>1. x \notin A
  OBVIOUS
<1>2. IsFiniteSet(A \cup {x}) /\ Cardinality(A \cup {x}) = Cardinality(A) + 1
  BY <1>1, FS_AddElement
<1>3. {q \in A \cup {x} : q <= x} = A \cup {x}
  <2>1. \A q \in A \cup {x} : q <= x
    OBVIOUS
  <2>2. QED
    BY <2>1, Zenon
<1>4. ASSUME NEW p \in A PROVE {q \in A \cup {x} : q <= p} = {q \in A : q <= p}
  <2>1. ~(x <= p)
    OBVIOUS
  <2>2. QED
    BY <2>1, Zenon
<1>5. QED
  BY <1>2, <1>3, <1>4 DEF Rank

(* A value behind the others. *)
LEMMA InOrderNext ==
  ASSUME NEW A, A \subseteq Nat, IsFiniteSet(A), NEW x \in Nat, \A p \in A : p < x,
         NEW v, InOrder(v, A), Val(x) \in Nat
  PROVE  InOrder(Append(v, Val(x)), A \cup {x})
<1> DEFINE w == Append(v, Val(x))
<1>1. v \in Seq(Nat) /\ Len(v) = Cardinality(A) /\ \A p \in A : v[Rank(A, p)] = Val(p)
  BY DEF InOrder
<1>2. /\ w \in Seq(Nat) /\ Len(w) = Len(v) + 1 /\ w[Len(v) + 1] = Val(x)
      /\ \A i \in 1 .. Len(v) : w[i] = v[i]
  <2> DEFINE y == Val(x)
  <2>1. y \in Nat
    OBVIOUS
  <2> HIDE DEF y
  <2>2. /\ Append(v, y) \in Seq(Nat) /\ Len(Append(v, y)) = Len(v) + 1
        /\ Append(v, y)[Len(v) + 1] = y
        /\ \A i \in 1 .. Len(v) : Append(v, y)[i] = v[i]
    BY <1>1, <2>1
  <2>3. QED
    BY <2>2 DEF y
<1> HIDE DEF w
<1>3. /\ Cardinality(A \cup {x}) = Cardinality(A) + 1
      /\ Rank(A \cup {x}, x) = Cardinality(A) + 1
      /\ \A p \in A : Rank(A \cup {x}, p) = Rank(A, p)
  BY RankNext, Zenon
<1>4. ASSUME NEW p \in A PROVE w[Rank(A \cup {x}, p)] = Val(p)
  <2>1. Rank(A, p) \in 1 .. Len(v)
    BY <1>1, RankBounds, Zenon
  <2>2. QED
    BY <1>1, <1>2, <1>3, <2>1, Zenon
<1>5. w[Rank(A \cup {x}, x)] = Val(x)
  BY <1>1, <1>2, <1>3
<1>6. InOrder(w, A \cup {x})
  BY <1>1, <1>2, <1>3, <1>4, <1>5, Zenon DEF InOrder
<1>7. QED
  BY <1>6 DEF w

LEMMA InOrderFirst ==
  ASSUME NEW x \in Nat, Val(x) \in Nat
  PROVE  InOrder(<<Val(x)>>, {x})
<1>1. Cardinality({x}) = 1
  BY FS_Singleton
<1>2. {q \in {x} : q <= x} = {x}
  OBVIOUS
<1>3. Rank({x}, x) = 1
  BY <1>1, <1>2 DEF Rank
<1>4. <<Val(x)>> \in Seq(Nat) /\ Len(<<Val(x)>>) = 1 /\ <<Val(x)>>[1] = Val(x)
  OBVIOUS
<1>5. QED
  BY <1>1, <1>3, <1>4 DEF InOrder

(* One more pair. *)
LEMMA GroupedNext ==
  ASSUME NEW P, P \subseteq Nat, IsFiniteSet(P), NEW x \in Nat, \A p \in P : p < x,
         NEW g, Grouped(g, P), Val(x) \in Nat
  PROVE  Grouped(AddPair(g, Emits[data[x]]), P \cup {x})
<1> DEFINE f == AddPair(g, Emits[data[x]])
           k0 == Key(x)
<1>1. f = [k \in DOMAIN g \cup {k0} |->
             IF k # k0 THEN g[k]
             ELSE IF k \in DOMAIN g THEN Append(g[k], Val(x)) ELSE <<Val(x)>>]
  BY DEF AddPair, Key, Val
<1>2. DOMAIN g = {Key(p) : p \in P} /\ \A k \in DOMAIN g : InOrder(g[k], At(P, k))
  BY DEF Grouped
<1> HIDE DEF f
<1>3. DOMAIN f = {Key(p) : p \in P \cup {x}}
  BY <1>1, <1>2
<1>4. ASSUME NEW k \in DOMAIN f PROVE InOrder(f[k], At(P \cup {x}, k))
  <2>1. CASE k # k0
    <3>1. At(P \cup {x}, k) = At(P, k)
      BY <2>1 DEF At
    <3>2. k \in DOMAIN g /\ f[k] = g[k]
      BY <1>1, <2>1
    <3>3. QED
      BY <1>2, <3>1, <3>2
  <2>2. CASE k = k0 /\ k \in DOMAIN g
    <3>1. At(P \cup {x}, k) = At(P, k) \cup {x}
      BY <2>2 DEF At
    <3>2. f[k] = Append(g[k], Val(x))
      BY <1>1, <2>2
    <3>3. At(P, k) \subseteq P
      BY DEF At
    <3>4. IsFiniteSet(At(P, k)) /\ At(P, k) \subseteq Nat /\ \A p \in At(P, k) : p < x
      BY <3>3, FS_Subset, Zenon
    <3>5. InOrder(g[k], At(P, k))
      BY <1>2, <2>2
    <3>6. InOrder(Append(g[k], Val(x)), At(P, k) \cup {x})
      BY <3>4, <3>5, InOrderNext
    <3>7. QED
      BY <3>1, <3>2, <3>6, Zenon
  <2>3. CASE k = k0 /\ k \notin DOMAIN g
    <3>1. At(P \cup {x}, k) = {x}
      BY <1>2, <2>3, Zenon DEF At
    <3>2. f[k] = <<Val(x)>>
      BY <1>1, <2>3
    <3>3. QED
      BY <3>1, <3>2, InOrderFirst
  <2>4. QED
    BY <2>1, <2>2, <2>3
<1>5. QED
  BY <1>3, <1>4 DEF Grouped, f

(* Later chunks end later. *)
LEMMA EndsOrdered ==
  ASSUME NEW len \in Nat, NEW n \in Nat, n # 0, NEW i \in Nat, NEW j \in Nat, i <= j
  PROVE  ChunkEnd(len, n, i) <= ChunkEnd(len, n, j)
<1> DEFINE q == len \div n
           r == len % n
<1>1. q \in Nat /\ r \in Nat
  BY DivMod
<1>2. /\ ChunkEnd(len, n, i) = i * q + (IF i <= r THEN i ELSE r)
      /\ ChunkEnd(len, n, j) = j * q + (IF j <= r THEN j ELSE r)
  BY DEF ChunkEnd
<1> HIDE DEF q, r
<1>3. i * q \in Nat /\ j * q \in Nat /\ i * q <= j * q
  BY <1>1
<1>4. QED
  BY <1>1, <1>2, <1>3

(* shuffle over the pairs of one chunk. *)
LEMMA GroupChunk ==
  ASSUME data \in Seq(Items), NEW a \in 0 .. Len(data), NEW b \in 0 .. Len(data), a <= b,
         NEW P, P \subseteq 1 .. a, NEW g, Grouped(g, P)
  PROVE  Grouped(AddPairs(g, execute_map(SubSeq(data, a + 1, b))), P \cup (a + 1 .. b))
<1> DEFINE c == SubSeq(data, a + 1, b)
           e == execute_map(c)
<1>1. a \in Nat /\ b \in Nat /\ b - a \in Nat /\ Len(data) \in Nat
  OBVIOUS
<1>2. c \in Seq(Items) /\ Len(c) = b - a /\ \A i \in 1 .. b - a : c[i] = data[a + i]
  BY CutFacts
<1> HIDE DEF c
<1>3. e = [i \in 1 .. b - a |-> Emits[c[i]]]
  BY <1>2 DEF execute_map
<1>4. Len(e) = b - a
  <2>1. e = [i \in 1 .. b - a |-> e[i]]
    BY <1>3
  <2> HIDE DEF e
  <2>2. QED
    BY <1>1, <2>1, ListLength
<1>5. \A i \in 1 .. b - a : e[i] = Emits[data[a + i]]
  BY <1>2, <1>3
<1> HIDE DEF e
<1>6. PICK h : Turns(h, "pair", g, e, b - a) /\ AddPairs(g, e) = h[b - a]
  BY <1>1, <1>4, AddPairsTurns, Zenon
<1>7. h[0] = g /\ \A i \in 1 .. b - a : h[i] = AddPair(h[i - 1], Emits[data[a + i]])
  BY <1>5, <1>6 DEF Turns, Turn
<1> DEFINE Done(i) == P \cup (a + 1 .. a + i)
           T == {i \in 0 .. b - a : ~Grouped(h[i], Done(i))}
<1>8. T = {}
  <2>1. SUFFICES ASSUME T # {} PROVE FALSE
    BY Zenon
  <2>2. T \subseteq Nat
    OBVIOUS
  <2>3. PICK m \in T : \A y \in T : m <= y
    <3> HIDE DEF T
    <3> QED
      BY <2>1, <2>2, LeastElement, Zenon
  <2>4. m \in 0 .. b - a /\ ~Grouped(h[m], Done(m))
    BY <2>3
  <2>5. m # 0
    <3>1. Done(0) = P
      BY <1>1
    <3>2. QED
      BY <1>7, <2>4, <3>1, Zenon
  <2>6. m - 1 \in 0 .. b - a /\ m \in 1 .. b - a /\ ~(m <= m - 1)
    BY <1>1, <2>4, <2>5
  <2>7. Grouped(h[m - 1], Done(m - 1))
    BY <2>3, <2>6, Zenon
  <2>8. Done(m) = Done(m - 1) \cup {a + m}
    BY <1>1, <2>6
  <2>9. /\ a + m \in Nat /\ Done(m - 1) \subseteq Nat /\ Done(m - 1) \subseteq 1 .. a + m
        /\ \A p \in Done(m - 1) : p < a + m
    BY <1>1, <2>6
  <2> HIDE DEF Done
  <2>10. IsFiniteSet(Done(m - 1))
    <3>1. IsFiniteSet(1 .. a + m)
      BY <2>9, FS_Interval
    <3>2. QED
      BY <2>9, <3>1, FS_Subset
  <2>11. Val(a + m) \in Nat
    <3>1. data[a + m] \in Items
      BY <1>1, <2>6
    <3>2. QED
      BY <3>1, MapReduceAssumption DEF Val
  <2>12. Grouped(AddPair(h[m - 1], Emits[data[a + m]]), Done(m - 1) \cup {a + m})
    BY <2>7, <2>9, <2>10, <2>11, GroupedNext, Zenon
  <2>13. QED
    BY <1>7, <2>4, <2>6, <2>8, <2>12
<1>9. Grouped(h[b - a], Done(b - a))
  <2>1. b - a \in 0 .. b - a
    BY <1>1
  <2>2. QED
    BY <1>8, <2>1, Zenon
<1>10. Done(b - a) = P \cup (a + 1 .. b)
  BY <1>1
<1>11. QED
  BY <1>6, <1>9, <1>10 DEF e, c

(* The positions of the chunks in I, of n. *)
Spans(n, I) ==
  UNION {ChunkEnd(Len(data), n, i - 1) + 1 .. ChunkEnd(Len(data), n, i) : i \in I}

(* What shuffle is given: the results of the chunks in I, and errors. *)
ResultsOf(rs, n, I) ==
  /\ Len(rs) = n
  /\ \A i \in 1 .. n :
       /\ rs[i].status = "SUCCESS" <=> i \in I
       /\ i \in I => rs[i].data = execute_map(SubSeq(data, ChunkEnd(Len(data), n, i - 1) + 1,
                                                          ChunkEnd(Len(data), n, i)))

LEMMA SpansNext ==
  ASSUME Len(data) \in Nat, NEW n \in Nat, NEW m \in 1 .. n, NEW I, I \subseteq 1 .. m - 1
  PROVE  /\ Spans(n, I) \subseteq 1 .. ChunkEnd(Len(data), n, m - 1)
         /\ Spans(n, I \cup {m}) = Spans(n, I) \cup
              (ChunkEnd(Len(data), n, m - 1) + 1 .. ChunkEnd(Len(data), n, m))
<1>1. ASSUME NEW i \in I
      PROVE  ChunkEnd(Len(data), n, i - 1) + 1 .. ChunkEnd(Len(data), n, i)
               \subseteq 1 .. ChunkEnd(Len(data), n, m - 1)
  <2>1. i \in Nat /\ i - 1 \in Nat /\ m - 1 \in Nat /\ i <= m - 1 /\ n # 0
    OBVIOUS
  <2>2. ChunkEnd(Len(data), n, i) <= ChunkEnd(Len(data), n, m - 1)
    BY <2>1, EndsOrdered
  <2>3. /\ ChunkEnd(Len(data), n, i - 1) \in Nat /\ ChunkEnd(Len(data), n, i) \in Nat
        /\ ChunkEnd(Len(data), n, m - 1) \in Nat
    BY <2>1, EndsGrow, Zenon
  <2>4. QED
    BY <2>2, <2>3
<1>2. Spans(n, I) \subseteq 1 .. ChunkEnd(Len(data), n, m - 1)
  BY <1>1, Zenon DEF Spans
<1>3. Spans(n, I \cup {m}) = Spans(n, I) \cup
        (ChunkEnd(Len(data), n, m - 1) + 1 .. ChunkEnd(Len(data), n, m))
  BY Zenon DEF Spans
<1>4. QED
  BY <1>2, <1>3, Zenon

(* shuffle gives every key the values of the chunks in I, in their order. *)
LEMMA ShuffleGroups ==
  ASSUME data \in Seq(Items), NEW n \in Nat, NEW I, I \subseteq 1 .. n,
         NEW rs, ResultsOf(rs, n, I)
  PROVE  Grouped(shuffle(rs), Spans(n, I))
<1>1. Len(data) \in Nat /\ Len(rs) = n
  BY DEF ResultsOf
<1>2. PICK h : Turns(h, "result", Nothing, rs, n) /\ shuffle(rs) = h[n]
  BY <1>1, ShuffleTurns
<1>3. /\ h[0] = Nothing
      /\ \A i \in 1 .. n : h[i] = IF rs[i].status = "SUCCESS"
                                  THEN AddPairs(h[i - 1], rs[i].data) ELSE h[i - 1]
  BY <1>2 DEF Turns, Turn
<1> DEFINE Done(i) == I \cap (1 .. i)
           T == {i \in 0 .. n : ~Grouped(h[i], Spans(n, Done(i)))}
<1>4. T = {}
  <2>1. SUFFICES ASSUME T # {} PROVE FALSE
    BY Zenon
  <2>2. T \subseteq Nat
    OBVIOUS
  <2>3. PICK m \in T : \A y \in T : m <= y
    <3> HIDE DEF T
    <3> QED
      BY <2>1, <2>2, LeastElement, Zenon
  <2>4. m \in 0 .. n /\ ~Grouped(h[m], Spans(n, Done(m)))
    BY <2>3
  <2>5. m # 0
    <3>1. Done(0) = {}
      OBVIOUS
    <3>2. Spans(n, {}) = {}
      BY Zenon DEF Spans
    <3>3. DOMAIN Nothing = {}
      BY DEF Nothing
    <3>4. Grouped(Nothing, {})
      BY <3>3 DEF Grouped
    <3>5. QED
      BY <1>3, <2>4, <3>1, <3>2, <3>4, Zenon
  <2>6. m - 1 \in 0 .. n /\ m \in 1 .. n /\ ~(m <= m - 1) /\ n # 0
        /\ m - 1 \in Nat /\ (m - 1) + 1 = m
    BY <2>4, <2>5
  <2>7. Grouped(h[m - 1], Spans(n, Done(m - 1)))
    BY <2>3, <2>6
  <2>8. CASE m \in I
    <3> DEFINE a == ChunkEnd(Len(data), n, m - 1)
               b == ChunkEnd(Len(data), n, m)
    <3>1. Done(m) = Done(m - 1) \cup {m} /\ Done(m - 1) \subseteq 1 .. m - 1
      BY <2>6, <2>8
    <3> HIDE DEF Done
    <3>2. a \in 0 .. Len(data) /\ b \in 0 .. Len(data)
      BY <1>1, <2>6, EndsBounded, Zenon
    <3>3. a <= b
      BY <1>1, <2>6, EndsOrdered
    <3>4. /\ Spans(n, Done(m - 1)) \subseteq 1 .. a
          /\ Spans(n, Done(m)) = Spans(n, Done(m - 1)) \cup (a + 1 .. b)
      BY <1>1, <2>6, <3>1, SpansNext
    <3>5. h[m] = AddPairs(h[m - 1], execute_map(SubSeq(data, a + 1, b)))
      BY <1>3, <2>6, <2>8 DEF ResultsOf
    <3> HIDE DEF a, b
    <3>6. Grouped(AddPairs(h[m - 1], execute_map(SubSeq(data, a + 1, b))),
                  Spans(n, Done(m - 1)) \cup (a + 1 .. b))
      BY <2>7, <3>2, <3>3, <3>4, GroupChunk
    <3>7. QED
      BY <2>4, <3>4, <3>5, <3>6
  <2>9. CASE m \notin I
    <3>1. Done(m) = Done(m - 1)
      BY <2>6, <2>9
    <3>2. h[m] = h[m - 1]
      BY <1>3, <2>6, <2>9 DEF ResultsOf
    <3>3. QED
      BY <2>4, <2>7, <3>1, <3>2, Zenon
  <2>10. QED
    BY <2>8, <2>9
<1>5. Grouped(h[n], Spans(n, Done(n)))
  <2>1. n \in 0 .. n
    OBVIOUS
  <2>2. QED
    BY <1>4, <2>1, Zenon
<1>6. Done(n) = I
  BY Zenon
<1>7. QED
  BY <1>2, <1>5, <1>6, Zenon

(* Where the partitions are in the data. *)
LEMMA PositionsSpans ==
  ASSUME data \in Seq(Items), num_partitions \in Nat \ {0}, NEW n,
         n = IF num_partitions <= Len(data) THEN num_partitions ELSE Len(data),
         NEW M, M \subseteq 1 .. n
  PROVE  PositionsIn(M) = Spans(n, M)
<1> DEFINE chunks == partition(data, num_partitions)
           E(i) == ChunkEnd(Len(data), n, i)
<1>1. chunks = Chunks(data, n)
  BY PartitionChunks
<1>2. n \in Nat /\ Len(data) \in Nat
  OBVIOUS
<1> HIDE DEF chunks
<1>3. /\ \A i \in 1 .. n : chunks[i] = SubSeq(data, E(i - 1) + 1, E(i))
      /\ chunks = [i \in 1 .. n |-> chunks[i]]
  BY <1>1, Zenon DEF Chunks
<1>4. ASSUME NEW i \in 1 .. n
      PROVE  /\ E(i - 1) \in 0 .. Len(data) /\ E(i) \in 0 .. Len(data) /\ E(i - 1) <= E(i)
             /\ chunks[i] \in Seq(Items) /\ Len(chunks[i]) = E(i) - E(i - 1)
  <2>1. i - 1 \in 0 .. n /\ i \in 0 .. n /\ i - 1 \in Nat /\ i \in Nat /\ n # 0 /\ i - 1 <= i
    BY <1>2
  <2>2. E(i - 1) \in 0 .. Len(data) /\ E(i) \in 0 .. Len(data)
    BY <1>2, <2>1, EndsBounded, Zenon
  <2>3. E(i - 1) <= E(i)
    BY <1>2, <2>1, EndsOrdered
  <2>4. chunks[i] = SubSeq(data, E(i - 1) + 1, E(i))
    BY <1>3, Zenon
  <2> HIDE DEF E
  <2>5. QED
    BY <2>2, <2>3, <2>4, CutFacts
<1>5. chunks \in Seq(Seq(Items)) /\ Len(chunks) = n
  <2>1. chunks \in [1 .. n -> Seq(Items)]
    BY <1>3, <1>4
  <2>2. chunks \in Seq(Seq(Items))
    <3> DEFINE S == Seq(Items)
    <3>1. chunks \in [1 .. n -> S]
      BY <2>1
    <3> HIDE DEF S
    <3>2. chunks \in Seq(S)
      BY <1>2, <3>1
    <3>3. QED
      BY <3>2 DEF S
  <2>3. Len(chunks) = n
    BY <1>2, <1>3, ListLength
  <2>4. QED
    BY <2>2, <2>3
<1>6. ASSUME NEW i \in 1 .. n
      PROVE  Len(FlattenSeq(SubSeq(chunks, 1, i - 1))) = E(i - 1)
  <2> DEFINE ss == SubSeq(chunks, 1, i - 1)
  <2>1. /\ i - 1 \in 0 .. n /\ 0 \in 0 .. n /\ 0 <= i - 1 /\ 0 + 1 = 1 /\ n # 0
        /\ (i - 1) - 0 = i - 1
        /\ \A j \in 1 .. i - 1 : 0 + j = j /\ j \in 1 .. n
    BY <1>2
  <2>2. Len(ss) = i - 1 /\ \A j \in 1 .. i - 1 : ss[j] = chunks[j]
    <3>1. /\ Len(SubSeq(chunks, 0 + 1, i - 1)) = (i - 1) - 0
          /\ \A j \in 1 .. (i - 1) - 0 : SubSeq(chunks, 0 + 1, i - 1)[j] = chunks[0 + j]
      BY <1>5, <2>1, CutFacts
    <3>2. QED
      BY <2>1, <3>1
  <2> HIDE DEF ss
  <2>3. CASE i = 1
    <3>1. Len(ss) = 0 /\ i - 1 = 0
      BY <2>2, <2>3
    <3>2. FlattenSeq(ss) = ss
      BY <3>1 DEF FlattenSeq
    <3>3. E(0) = 0
      BY <1>2, <2>1, EndsGrow, Zenon
    <3>4. QED
      BY <3>1, <3>2, <3>3 DEF ss
  <2>4. CASE i # 1
    <3>1. i - 1 \in 1 .. n
      BY <2>4
    <3>2. Cuts(ss, data, n, i - 1)
      BY <1>3, <2>1, <2>2, Zenon DEF Cuts
    <3>3. FlattenSeq(ss) = SubSeq(data, 1, E(i - 1))
      BY <1>2, <3>1, <3>2, PrefixFlattens
    <3>4. E(i - 1) \in 0 .. Len(data) /\ 0 \in 0 .. Len(data) /\ 0 <= E(i - 1)
          /\ 0 + 1 = 1 /\ E(i - 1) - 0 = E(i - 1)
      <4> HIDE DEF E
      <4> QED
        BY <1>2, <1>4
    <3> HIDE DEF E
    <3>5. Len(SubSeq(data, 0 + 1, E(i - 1))) = E(i - 1) - 0
      BY <3>4, CutFacts
    <3>6. QED
      BY <3>3, <3>4, <3>5 DEF ss
  <2>5. QED
    BY <2>3, <2>4
<1> DEFINE B(i) == Len(FlattenSeq(SubSeq(chunks, 1, i - 1)))
<1>7. PositionsIn(M) = UNION {B(i) + 1 .. B(i) + Len(chunks[i]) : i \in M}
  BY DEF PositionsIn, chunks
<1>8. ASSUME NEW i \in M PROVE B(i) + 1 .. B(i) + Len(chunks[i]) = E(i - 1) + 1 .. E(i)
  <2>1. i \in 1 .. n
    OBVIOUS
  <2>2. B(i) = E(i - 1) /\ Len(chunks[i]) = E(i) - E(i - 1) /\ E(i) \in Nat /\ E(i - 1) \in Nat
    <3>1. B(i) = E(i - 1)
      BY <1>6, <2>1
    <3> HIDE DEF B, E
    <3>2. QED
      BY <1>2, <1>4, <2>1, <3>1
  <2> HIDE DEF B, E
  <2>3. B(i) + Len(chunks[i]) = E(i)
    BY <2>2
  <2>4. QED
    BY <2>2, <2>3
<1>9. Spans(n, M) = UNION {E(i - 1) + 1 .. E(i) : i \in M}
  BY DEF Spans
<1> HIDE DEF B, E
<1>10. {B(i) + 1 .. B(i) + Len(chunks[i]) : i \in M} = {E(i - 1) + 1 .. E(i) : i \in M}
  BY <1>8, Zenon
<1>11. QED
  BY <1>7, <1>9, <1>10, Zenon

(* The sum of a list that is in order is the sum over its positions. *)
LEMMA SumInOrder ==
  ASSUME data \in Seq(Items), NEW A, A \subseteq 1 .. Len(data), NEW v, InOrder(v, A)
  PROVE  execute_reduce(v) = SumOver(A)
<1> DEFINE N == Len(data)
           u == [p \in DOMAIN data |-> IF p \in A THEN Emits[data[p]].value ELSE 0]
           Upto(p) == A \cap (1 .. p)
<1>1. N \in Nat /\ DOMAIN data = 1 .. N
  OBVIOUS
<1>2. v \in Seq(Nat) /\ Len(v) = Cardinality(A) /\ \A p \in A : v[Rank(A, p)] = Val(p)
  BY DEF InOrder
<1>3. PICK s : Turns(s, "sum", 0, v, Len(v)) /\ execute_reduce(v) = s[Len(v)]
  BY <1>2, SumTurns
<1>4. PICK h : Turns(h, "sum", 0, u, N) /\ SumOver(A) = h[N]
  BY <1>1, SumOverTurns, Zenon
<1>5. s[0] = 0 /\ \A i \in 1 .. Len(v) : s[i] = s[i - 1] + v[i]
  BY <1>3 DEF Turns, Turn
<1>6. h[0] = 0 /\ \A p \in 1 .. N : h[p] = h[p - 1] + u[p]
  BY <1>4, Zenon DEF Turns, Turn
<1>7. \A p \in 1 .. N : u[p] = IF p \in A THEN Val(p) ELSE 0
  BY <1>1 DEF Val
<1> HIDE DEF u, N
<1>8. ASSUME NEW p \in 0 .. N PROVE IsFiniteSet(Upto(p)) /\ Cardinality(Upto(p)) \in Nat
  <2>1. IsFiniteSet(1 .. p)
    BY <1>1, FS_Interval
  <2>2. QED
    BY <2>1, FS_Subset, FS_CardinalityType
<1>9. IsFiniteSet(A) /\ A \subseteq Nat
  <2>1. IsFiniteSet(1 .. N)
    BY <1>1, FS_Interval
  <2>2. A \subseteq 1 .. N /\ 1 .. N \subseteq Nat
    BY DEF N
  <2>3. QED
    BY <2>1, <2>2, FS_Subset, Zenon
<1> DEFINE T == {p \in 0 .. N : ~(h[p] \in Nat /\ h[p] = s[Cardinality(Upto(p))])}
<1>10. T = {}
  <2>1. SUFFICES ASSUME T # {} PROVE FALSE
    BY Zenon
  <2>2. T \subseteq Nat
    BY <1>1
  <2>3. PICK m \in T : \A y \in T : m <= y
    <3> HIDE DEF T
    <3> QED
      BY <2>1, <2>2, LeastElement, Zenon
  <2>4. m \in 0 .. N /\ ~(h[m] \in Nat /\ h[m] = s[Cardinality(Upto(m))])
    BY <2>3
  <2>5. m # 0
    <3>1. Upto(0) = {}
      OBVIOUS
    <3>2. Cardinality(Upto(0)) = 0
      BY <3>1, FS_EmptySet
    <3> HIDE DEF Upto
    <3>3. h[0] \in Nat /\ h[0] = s[Cardinality(Upto(0))]
      BY <1>5, <1>6, <3>2
    <3>4. QED
      BY <2>4, <3>3, Zenon
  <2>6. m - 1 \in 0 .. N /\ m \in 1 .. N /\ ~(m <= m - 1)
    BY <1>1, <2>4, <2>5
  <2>7. h[m - 1] \in Nat /\ h[m - 1] = s[Cardinality(Upto(m - 1))]
    BY <2>3, <2>6
  <2>8. CASE m \in A
    <3>1. Upto(m) = Upto(m - 1) \cup {m} /\ m \notin Upto(m - 1)
      BY <2>6, <2>8
    <3>2. Upto(m) = {q \in A : q <= m}
      <4>1. \A q \in A : q \in 1 .. m <=> q <= m
        BY <2>6
      <4>2. QED
        BY <4>1, Zenon
    <3> HIDE DEF Upto
    <3>3. Cardinality(Upto(m)) = Cardinality(Upto(m - 1)) + 1
      BY <1>8, <2>6, <3>1, FS_AddElement, Zenon
    <3>4. Rank(A, m) = Cardinality(Upto(m)) /\ Rank(A, m) \in 1 .. Len(v)
      BY <1>2, <1>9, <2>8, <3>2, RankBounds, Zenon DEF Rank
    <3>5. v[Cardinality(Upto(m))] = Val(m)
      BY <1>2, <2>8, <3>4
    <3>6. h[m] = h[m - 1] + Val(m)
      BY <1>6, <1>7, <2>6, <2>8
    <3>7. Cardinality(Upto(m)) - 1 = Cardinality(Upto(m - 1))
      BY <1>8, <2>6, <3>3
    <3>8. s[Cardinality(Upto(m))] = s[Cardinality(Upto(m - 1))] + Val(m)
      BY <1>5, <3>4, <3>5, <3>7
    <3>9. Val(m) \in Nat
      <4>1. data[m] \in Items
        BY <2>8
      <4>2. QED
        BY <4>1, MapReduceAssumption DEF Val
    <3>10. QED
      BY <2>4, <2>7, <3>6, <3>8, <3>9
  <2>9. CASE m \notin A
    <3>1. Upto(m) = Upto(m - 1)
      BY <2>6, <2>9
    <3>2. h[m] = h[m - 1] + 0
      BY <1>6, <1>7, <2>6, <2>9
    <3> HIDE DEF Upto
    <3>3. h[m] = h[m - 1]
      BY <2>7, <3>2
    <3>4. QED
      BY <2>4, <2>7, <3>1, <3>3
  <2>10. QED
    BY <2>8, <2>9
<1>11. Upto(N) = A
  BY Zenon DEF N
<1>12. h[N] = s[Cardinality(Upto(N))]
  <2>1. N \in 0 .. N
    BY <1>1
  <2>2. QED
    BY <1>10, <2>1, Zenon
<1>13. QED
  BY <1>2, <1>3, <1>4, <1>11, <1>12, Zenon

-----------------------------------------------------------------------------
(* The reduce phase. *)

(* The groups are those of the answered partitions, the REDUCE task with   *)
(* the name of a key has the list of that key, and what was returned for   *)
(* it is the sum.                                                          *)
JobInv ==
  /\ pc \in {"reducing", "done"} => Grouped(grouped, Answered) /\ Answered \subseteq DOMAIN data
  /\ pc = "reducing" =>
       /\ \A k \in DOMAIN grouped : tasks[Names[k]] = grouped[k]
       /\ \E S : responses \in Seq(S)
       /\ \A i \in DOMAIN responses :
            responses[i].status = "success"
              => responses[i].result = execute_reduce(tasks[responses[i].task])
  /\ pc = "done" =>
       /\ DOMAIN result = DOMAIN grouped
       /\ \A k \in DOMAIN grouped : result[k] = execute_reduce(grouped[k])

(* The response that counts for a task that succeeded is a success. *)
LEMMA SuccessCounts ==
  ASSUME NEW S, responses \in Seq(S), NEW t, Succeeded(responses, t)
  PROVE  \E k \in DOMAIN responses :
           /\ responses[k].task = t /\ responses[k].status = "success"
           /\ ResponsesFor(responses, t)[1] = responses[k]
           /\ \A j \in DOMAIN responses : responses[j].task = t => j <= k
<1> DEFINE mine == {i \in DOMAIN responses : responses[i].task = t}
<1>1. DOMAIN responses = 1 .. Len(responses) /\ Len(responses) \in Nat
  OBVIOUS
<1>2. mine # {}
  BY DEF Succeeded, ResponsesFor
<1>3. mine \subseteq 1 .. Len(responses)
  BY <1>1
<1>4. Max(mine) \in mine /\ \A j \in mine : j <= Max(mine)
  <2> HIDE DEF mine
  <2> QED
    BY <1>1, <1>2, <1>3, MaxOfList, Zenon
<1>5. ResponsesFor(responses, t) = <<responses[Max(mine)]>>
  BY <1>2 DEF ResponsesFor
<1> DEFINE m == Max(mine)
<1>6. /\ m \in DOMAIN responses /\ responses[m].task = t
      /\ \A j \in DOMAIN responses : responses[j].task = t => j <= m
  BY <1>4
<1> HIDE DEF m
<1>7. ResponsesFor(responses, t)[1] = responses[m]
  BY <1>5 DEF m
<1>8. responses[m].status = "success"
  BY <1>7 DEF Succeeded
<1>9. QED
  BY <1>6, <1>7, <1>8

(* No position is beyond the data. *)
LEMMA SpansBounded ==
  ASSUME Len(data) \in Nat, NEW n \in Nat, NEW I, I \subseteq 1 .. n
  PROVE  Spans(n, I) \subseteq 1 .. Len(data)
<1>1. ASSUME NEW i \in I
      PROVE  ChunkEnd(Len(data), n, i - 1) + 1 .. ChunkEnd(Len(data), n, i) \subseteq 1 .. Len(data)
  <2>1. i - 1 \in 0 .. n /\ i \in 0 .. n /\ n # 0
    OBVIOUS
  <2>2. /\ ChunkEnd(Len(data), n, i - 1) \in 0 .. Len(data)
        /\ ChunkEnd(Len(data), n, i) \in 0 .. Len(data)
    BY <2>1, EndsBounded, Zenon
  <2>3. QED
    BY <2>2
<1>2. QED
  BY <1>1, Zenon DEF Spans

(* What the map phase hands to shuffle. *)
LEMMA ResultsOfMap ==
  ASSUME MapInv, JobInv, pc = "mapping", NEW n,
         n = IF num_partitions <= Len(data) THEN num_partitions ELSE Len(data),
         NEW M, M = {t \in DOMAIN tasks : LastSucceeds(responses, t)}
  PROVE  M \subseteq 1 .. n /\ ResultsOf(build_intermediate_results(tasks, responses), n, M)
<1> DEFINE rs == build_intermediate_results(tasks, responses)
<1>1. /\ data \in Seq(Items) /\ num_partitions \in Nat \ {0}
      /\ tasks = partition(data, num_partitions)
  BY DEF MapInv
<1>2. PICK S : responses \in Seq(S)
  BY DEF MapInv
<1>3. tasks = Chunks(data, n)
  BY <1>1, PartitionChunks
<1>4. n \in Nat
  BY <1>1
<1>5. /\ DOMAIN tasks = 1 .. n
      /\ \A i \in 1 .. n : tasks[i] = SubSeq(data, ChunkEnd(Len(data), n, i - 1) + 1,
                                                   ChunkEnd(Len(data), n, i))
  BY <1>3, Zenon DEF Chunks
<1>6. M \subseteq 1 .. n
  BY <1>5
<1>7. ASSUME NEW t \in M PROVE LastSucceeds(responses, t)
  OBVIOUS
<1>8. ASSUME NEW t \in 1 .. n PROVE Succeeded(responses, t) <=> t \in M
  <2>1. ASSUME Succeeded(responses, t) PROVE LastSucceeds(responses, t)
    BY <1>2, <2>1, SuccessCounts DEF LastSucceeds
  <2>2. ASSUME t \in M PROVE Succeeded(responses, t)
    BY <1>7, <2>2, LastIsSuccess
  <2>3. QED
    BY <1>5, <2>1, <2>2
<1>9. ASSUME NEW t \in M PROVE ResponsesFor(responses, t)[1].result = execute_map(tasks[t])
  BY <1>7, LastIsSuccess
<1>10. rs = [i \in 1 .. n |->
              IF Succeeded(responses, i)
              THEN [status |-> "SUCCESS", data |-> ResponsesFor(responses, i)[1].result]
              ELSE [status |-> "ERROR", data |-> <<>>]]
  BY <1>5 DEF build_intermediate_results
<1>11. Len(rs) = n
  <2>1. rs = [i \in 1 .. n |-> rs[i]]
    BY <1>10
  <2> HIDE DEF rs
  <2>2. QED
    BY <1>4, <2>1, ListLength
<1>12. ASSUME NEW i \in 1 .. n
       PROVE  /\ rs[i].status = "SUCCESS" <=> i \in M
              /\ i \in M => rs[i].data = execute_map(tasks[i])
  <2>1. CASE i \in M
    <3>1. rs[i] = [status |-> "SUCCESS", data |-> ResponsesFor(responses, i)[1].result]
      BY <1>8, <1>10, <2>1
    <3> HIDE DEF rs
    <3>2. QED
      BY <1>9, <2>1, <3>1
  <2>2. CASE i \notin M
    <3>1. rs[i] = [status |-> "ERROR", data |-> <<>>]
      BY <1>8, <1>10, <2>2
    <3> HIDE DEF rs
    <3>2. QED
      BY <2>2, <3>1
  <2>3. QED
    BY <2>1, <2>2
<1> HIDE DEF rs
<1>13. ResultsOf(rs, n, M)
  BY <1>5, <1>11, <1>12, Zenon DEF ResultsOf
<1>14. QED
  BY <1>6, <1>13 DEF rs

(* The groups of the next state, over the data of this one. *)
LEMMA GroupsNext ==
  ASSUME Grouped(grouped', Answered'), data' = data
  PROVE  Grouped(grouped, Answered)'
  BY Zenon DEF Grouped, InOrder, At, Key, Val

(* The task with the name of a key has its list, if no other key has it. *)
LEMMA TaskOfKey ==
  ASSUME NEW g, ~Collides(g), NEW k \in DOMAIN g
  PROVE  build_reduce_job(g)[Names[k]] = g[k]
<1> DEFINE c == CHOOSE l \in DOMAIN g : Names[l] = Names[k]
<1>1. c \in DOMAIN g /\ Names[c] = Names[k]
  BY Zenon
<1>2. build_reduce_job(g)[Names[k]] = g[c]
  BY DEF build_reduce_job
<1> HIDE DEF c
<1>3. c = k
  BY <1>1 DEF Collides
<1>4. QED
  BY <1>2, <1>3

(* The step from the map phase to the reduce phase. *)
LEMMA ShuffleKeeps ==
  ASSUME MapInv, JobInv, ShuffleAndSubmit
  PROVE  JobInv'
<1> DEFINE n == IF num_partitions <= Len(data) THEN num_partitions ELSE Len(data)
           M == {t \in DOMAIN tasks : LastSucceeds(responses, t)}
           rs == build_intermediate_results(tasks, responses)
<1>1. /\ pc = "mapping" /\ pc' \in {"raised", "reducing"}
      /\ grouped' = shuffle(rs) /\ responses' = <<>>
      /\ mapped' = M /\ UNCHANGED <<data, num_partitions>>
  BY DEF ShuffleAndSubmit
<1>2. data \in Seq(Items) /\ num_partitions \in Nat \ {0} /\ n \in Nat /\ Len(data) \in Nat
  BY <1>1 DEF MapInv
<1> HIDE DEF rs
<1>3. M \subseteq 1 .. n /\ ResultsOf(rs, n, M)
  <2> HIDE DEF M
  <2> QED
    BY <1>1, ResultsOfMap DEF rs, M
<1> HIDE DEF n, M
<1>4. Grouped(grouped', Spans(n, M))
  BY <1>1, <1>2, <1>3, ShuffleGroups, Zenon
<1>5. PositionsIn(M) = Spans(n, M) /\ Spans(n, M) \subseteq DOMAIN data
  <2>1. PositionsIn(M) = Spans(n, M)
    BY <1>2, <1>3, PositionsSpans, Zenon DEF n
  <2>2. Spans(n, M) \subseteq 1 .. Len(data)
    BY <1>2, <1>3, SpansBounded, Zenon
  <2>3. QED
    BY <1>2, <2>1, <2>2
<1>6. Answered' = PositionsIn(M)
  BY <1>1 DEF Answered, PositionsIn
<1>7. Grouped(grouped', Answered') /\ Answered' \subseteq DOMAIN data
  BY <1>4, <1>5, <1>6
<1>8. Grouped(grouped, Answered)'
  BY <1>1, <1>7, GroupsNext
<1>9. (\E S : responses \in Seq(S))' /\ DOMAIN responses' = {}
  BY <1>1, EmptySeq
<1>10. ASSUME pc' = "reducing", NEW k \in DOMAIN grouped'
       PROVE  tasks'[Names[k]] = grouped'[k]
  <2>1. tasks' = build_reduce_job(grouped') /\ ~Collides(grouped')
    BY <1>10 DEF ShuffleAndSubmit
  <2>2. QED
    BY <2>1, TaskOfKey
<1>11. QED
  BY <1>1, <1>7, <1>8, <1>9, <1>10 DEF JobInv

(* A step that leaves the groups alone. *)
LEMMA GroupsStay ==
  ASSUME Grouped(grouped, Answered), Answered \subseteq DOMAIN data,
         UNCHANGED <<data, num_partitions, grouped, mapped>>
  PROVE  Grouped(grouped, Answered)' /\ (Answered \subseteq DOMAIN data)'
<1>1. Answered' = Answered
  BY DEF Answered, PositionsIn
<1>2. Grouped(grouped', Answered') /\ data' = data
  BY <1>1
<1>3. Grouped(grouped, Answered)'
  BY <1>2, GroupsNext
<1>4. QED
  BY <1>1, <1>3

LEMMA AnswerKeeps ==
  ASSUME MapInv, JobInv, NEW t \in DOMAIN tasks, NEW s, NEW over, Responds(t, s, over)
  PROVE  JobInv'
<1> DEFINE r == [task |-> t, status |-> s, over |-> over,
                 result |-> IF s = "success" THEN Execute(t) ELSE Nothing]
<1>1. /\ pc \in {"mapping", "reducing"} /\ responses' = Append(responses, r)
      /\ UNCHANGED <<pc, data, num_partitions, tasks, grouped, result, mapped>>
  BY DEF Responds
<1>2. PICK S : responses \in Seq(S)
  BY <1>1 DEF MapInv, JobInv
<1>3. /\ r.task = t
      /\ pc = "reducing" /\ r.status = "success" => r.result = execute_reduce(tasks[t])
  BY DEF Execute
<1> HIDE DEF r
<1>4. /\ DOMAIN responses = 1 .. Len(responses) /\ Len(responses) \in Nat
      /\ DOMAIN responses' = 1 .. Len(responses) + 1
      /\ responses'[Len(responses) + 1] = r
      /\ \A i \in 1 .. Len(responses) : responses'[i] = responses[i]
  BY <1>1, <1>2
<1>5. \A i \in DOMAIN responses' : i \in DOMAIN responses \/ i = Len(responses) + 1
  BY <1>4
<1>6. CASE pc = "mapping"
  BY <1>1, <1>6 DEF JobInv
<1>7. CASE pc = "reducing"
  <2>1. (\E Q : responses \in Seq(Q))'
    <3>1. responses \in Seq(S \cup {r})
      BY <1>2, SeqMonotonic
    <3>2. responses' \in Seq(S \cup {r})
      BY <1>1, <3>1
    <3>3. QED
      BY <3>2
  <2>2. ASSUME NEW i \in DOMAIN responses', responses'[i].status = "success"
        PROVE  responses'[i].result = execute_reduce(tasks[responses'[i].task])
    BY <1>3, <1>4, <1>5, <1>7, <2>2 DEF JobInv
  <2>3. Grouped(grouped, Answered)' /\ (Answered \subseteq DOMAIN data)'
    BY <1>1, <1>7, GroupsStay DEF JobInv
  <2>4. \A k \in DOMAIN grouped' : tasks'[Names[k]] = grouped'[k]
    BY <1>1, <1>7 DEF JobInv
  <2>5. QED
    BY <1>1, <1>7, <2>1, <2>2, <2>3, <2>4 DEF JobInv
<1>8. QED
  BY <1>1, <1>6, <1>7

(* collect_reduce_results takes a success for each key. *)
LEMMA CollectKeeps ==
  ASSUME MapInv, JobInv, collect_reduce_results
  PROVE  JobInv'
<1>1. pc = "reducing" /\ UNCHANGED <<data, num_partitions, tasks, responses, grouped, mapped>>
  BY DEF collect_reduce_results
<1>2. PICK S : responses \in Seq(S)
  BY <1>1 DEF JobInv
<1> DEFINE AllSucceeded == \A k \in DOMAIN grouped : Succeeded(responses, Names[k])
<1>3. CASE ~AllSucceeded
  BY <1>1, <1>3 DEF collect_reduce_results, JobInv
<1>4. CASE AllSucceeded
  <2>1. /\ pc' = "done"
        /\ result' = [k \in DOMAIN grouped |-> ResponsesFor(responses, Names[k])[1].result]
    BY <1>4 DEF collect_reduce_results
  <2>2. ASSUME NEW k \in DOMAIN grouped
        PROVE  ResponsesFor(responses, Names[k])[1].result = execute_reduce(grouped[k])
    <3>1. PICK i \in DOMAIN responses :
            /\ responses[i].task = Names[k] /\ responses[i].status = "success"
            /\ ResponsesFor(responses, Names[k])[1] = responses[i]
      BY <1>2, <1>4, SuccessCounts
    <3>2. tasks[Names[k]] = grouped[k]
      BY <1>1 DEF JobInv
    <3>3. QED
      BY <1>1, <3>1, <3>2 DEF JobInv
  <2>3. /\ DOMAIN result' = DOMAIN grouped
        /\ \A k \in DOMAIN grouped : result'[k] = execute_reduce(grouped[k])
    BY <2>1, <2>2
  <2>4. Grouped(grouped, Answered)' /\ (Answered \subseteq DOMAIN data)'
    BY <1>1, GroupsStay DEF JobInv
  <2>5. QED
    BY <1>1, <2>1, <2>3, <2>4, Zenon DEF JobInv
<1>5. QED
  BY <1>3, <1>4

(* One step per action. *)
LEMMA JobStep ==
  ASSUME MapInv, JobInv, [Next]_vars
  PROVE  JobInv'
<1>1. CASE build_map_job
  <2>1. pc' \in {"raised", "mapping"} /\ responses' = <<>>
    BY <1>1 DEF build_map_job, MapInv
  <2>2. DOMAIN responses' = {}
    BY <2>1
  <2>3. QED
    BY <2>1, <2>2 DEF JobInv
<1>2. ASSUME NEW t \in DOMAIN tasks, NEW s, NEW over, Responds(t, s, over) PROVE JobInv'
  BY <1>2, AnswerKeeps
<1>3. CASE ShuffleAndSubmit
  BY <1>3, ShuffleKeeps
<1>4. CASE collect_reduce_results
  BY <1>4, CollectKeeps
<1>5. CASE DispatchRaises
  BY <1>5 DEF DispatchRaises, JobInv
<1>6. CASE UNCHANGED vars
  <2>1. UNCHANGED <<pc, data, num_partitions, tasks, responses, grouped, result, mapped>>
    BY <1>6 DEF vars
  <2>2. CASE pc \in {"reducing", "done"}
    <3>1. Grouped(grouped, Answered)' /\ (Answered \subseteq DOMAIN data)'
      BY <2>1, <2>2, GroupsStay DEF JobInv
    <3>2. QED
      BY <2>1, <2>2, <3>1 DEF JobInv
  <2>3. CASE pc \notin {"reducing", "done"}
    BY <2>1, <2>3 DEF JobInv
  <2>4. QED
    BY <2>2, <2>3
<1>7. QED
  BY <1>1, <1>2, <1>3, <1>4, <1>5, <1>6 DEF Next

(* The inductive invariant of run_map_reduce. *)
LEMMA JobInvariant == Spec => [](MapInv /\ JobInv)
<1>1. Init => MapInv /\ JobInv
  BY MapInit DEF Init, JobInv
<1>2. MapInv /\ JobInv /\ [Next]_vars => (MapInv /\ JobInv)'
  BY MapStep, JobStep
<1>3. QED
  BY <1>1, <1>2, PTL DEF Spec

(* shuffle gives every key the values its items emitted, in the order of   *)
(* the data, from every partition whose last response is a success and     *)
(* from no other.                                                          *)
THEOREM GroupedInOrderHolds == Spec => []GroupedInOrder
<1>1. JobInv => GroupedInOrder
  <2>1. SUFFICES ASSUME JobInv, pc \in {"reducing", "done"}
                 PROVE  GroupedInOrder
    BY DEF GroupedInOrder
  <2>2. Grouped(grouped, Answered)
    BY <2>1 DEF JobInv
  <2>3. DOMAIN grouped = KeysAnswered
    BY <2>2 DEF Grouped, KeysAnswered, Key
  <2>4. ASSUME NEW k \in KeysAnswered
        PROVE  /\ Len(grouped[k]) = Cardinality(PositionsOf(k))
               /\ \A p \in PositionsOf(k) :
                    grouped[k][Cardinality({q \in PositionsOf(k) : q <= p})] = Emits[data[p]].value
    <3>1. InOrder(grouped[k], At(Answered, k))
      BY <2>2, <2>3 DEF Grouped
    <3>2. At(Answered, k) = PositionsOf(k)
      BY DEF At, PositionsOf, Key
    <3>3. QED
      BY <3>1, <3>2 DEF InOrder, Rank, Val
  <2>5. QED
    BY <2>3, <2>4 DEF GroupedInOrder
<1>2. QED
  BY <1>1, JobInvariant, PTL

(* A job that returns has, for each key of the answered partitions and for *)
(* no other, the sum over the data: whatever failed, was lost or retried,  *)
(* no value is dropped, counted twice or moved to another key, be it of    *)
(* the same name.                                                          *)
THEOREM ResultIsReferenceHolds == Spec => []ResultIsReference
<1>1. MapInv /\ JobInv => ResultIsReference
  <2>1. SUFFICES ASSUME MapInv, JobInv, pc = "done"
                 PROVE  ResultIsReference
    BY DEF ResultIsReference
  <2>2. /\ Grouped(grouped, Answered) /\ Answered \subseteq DOMAIN data /\ data \in Seq(Items)
        /\ DOMAIN result = DOMAIN grouped
        /\ \A k \in DOMAIN grouped : result[k] = execute_reduce(grouped[k])
    BY <2>1 DEF JobInv, MapInv
  <2>3. DOMAIN grouped = KeysAnswered
    BY <2>2 DEF Grouped, KeysAnswered, Key
  <2>4. ASSUME NEW k \in KeysAnswered PROVE result[k] = SumOver(PositionsOf(k))
    <3>1. InOrder(grouped[k], At(Answered, k))
      BY <2>2, <2>3 DEF Grouped
    <3>2. At(Answered, k) = PositionsOf(k)
      BY DEF At, PositionsOf, Key
    <3>3. PositionsOf(k) \subseteq 1 .. Len(data)
      BY <2>2 DEF PositionsOf
    <3>4. execute_reduce(grouped[k]) = SumOver(PositionsOf(k))
      BY <2>2, <3>1, <3>2, <3>3, SumInOrder
    <3>5. QED
      BY <2>2, <2>3, <3>4
  <2>5. QED
    BY <2>2, <2>3, <2>4 DEF ResultIsReference
<1>2. QED
  BY <1>1, JobInvariant, PTL

=============================================================================
