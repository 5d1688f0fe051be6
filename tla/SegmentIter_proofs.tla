------------------------ MODULE SegmentIter_proofs ------------------------
(***************************************************************************)
(* Proofs about SegmentIter, for every depth of the ring, every size of a  *)
(* batch and of a cluster, every set of unwanted segments and every way    *)
(* that $MFT may be fragmented.                                            *)
(*                                                                         *)
(* The argument follows one segment from $MFT to the client. The reads     *)
(* that were pushed are $MFT up to the place of the next one (ReadAhead),  *)
(* so the segments of the n-th read are those of $MFT from where the reads *)
(* before it end (ReadSegments). The oldest read in the ring is the first  *)
(* that was not returned, and its buffer holds its own data (FrontIsNext), *)
(* so the current segment is the one of $MFT that follows those looked at  *)
(* (LentSegments). Whether it is skipped or handed out, what was handed    *)
(* out stays what is wanted of the segments looked at (ReadCurrentHolds).  *)
(***************************************************************************)
EXTENDS SegmentIter, SequenceTheorems, ModArith

USE DepthAssumption

-----------------------------------------------------------------------------
(* Sequences of sequences, one after another.                              *)

\* Three sequences, one after another. (The provers find it as one fact.)
Associates(s, t, u) == (s \o t) \o u = s \o (t \o u)

\* The order of the concatenations does not matter.
LEMMA Associative ==
  ASSUME NEW T, NEW s \in Seq(T), NEW t \in Seq(T), NEW u \in Seq(T)
  PROVE  Associates(s, t, u)
BY ConcatAssociative DEF Associates

\* f is what the recursion in FlattenSeq makes of the first n sequences of ss.
Flattens(f, ss, n) ==
  \A i \in 1 .. n : f[i] = IF i = 1 THEN ss[i] ELSE f[i - 1] \o ss[i]

\* The function in the definition of FlattenSeq exists, up to any length.
LEMMA FlattenFunction ==
  ASSUME NEW S, NEW ss \in Seq(Seq(S)), NEW n \in 0 .. Len(ss)
  PROVE  \E f \in [1 .. n -> Seq(S)] : Flattens(f, ss, n)
<1> DEFINE Ok(k) == \E f \in [1 .. k -> Seq(S)] : Flattens(f, ss, k)
           Bad == {k \in 0 .. Len(ss) : ~ Ok(k)}
<1>0. Len(ss) \in Nat /\ \A i \in 1 .. Len(ss) : ss[i] \in Seq(S)
  BY ElementOfSeq, LenProperties
<1>1. SUFFICES ASSUME Bad # {}
               PROVE  FALSE
  OBVIOUS
<1>2. PICK k \in Bad : \A j \in Bad : k <= j
  <2> HIDE DEF Ok
  <2>1. Bad \subseteq Nat
    BY <1>0
  <2> HIDE DEF Bad
  <2> QED
    BY <1>1, <2>1, LeastNumber
<1>3. k \in 0 .. Len(ss) /\ ~ Ok(k)
  OBVIOUS
<1>4. CASE k = 0
  <2> DEFINE f == [i \in 1 .. 0 |-> <<>>]
  <2>1. f \in [1 .. 0 -> Seq(S)] /\ 1 .. 0 = {}
    OBVIOUS
  <2>2. Ok(0)
    BY <2>1 DEF Flattens
  <2> QED
    BY <1>3, <1>4, <2>2
<1>5. CASE k # 0
  <2>1. k - 1 \in 0 .. Len(ss) /\ k \in 1 .. Len(ss) /\ k - 1 < k
    BY <1>0, <1>3, <1>5
  <2>2. Ok(k - 1)
    <3> HIDE DEF Ok
    <3> QED
      BY <1>0, <1>2, <2>1
  <2>3. PICK g \in [1 .. k - 1 -> Seq(S)] : Flattens(g, ss, k - 1)
    BY <2>2
  <2> DEFINE last == IF k = 1 THEN ss[k] ELSE g[k - 1] \o ss[k]
             f == [i \in 1 .. k |-> IF i = k THEN last ELSE g[i]]
  <2>4. last \in Seq(S)
    BY <1>0, <2>1, <2>3, ConcatProperties
  <2> HIDE DEF last
  <2>5. f \in [1 .. k -> Seq(S)]
    BY <1>0, <2>1, <2>4
  <2>6. ASSUME NEW i \in 1 .. k
        PROVE  f[i] = IF i = 1 THEN ss[i] ELSE f[i - 1] \o ss[i]
    <3>1. CASE i = k
      BY <1>0, <2>1, <3>1 DEF last
    <3>2. CASE i # k
      <4>1. i \in 1 .. k - 1 /\ f[i] = g[i]
        BY <1>0, <2>1, <3>2
      <4>2. i # 1 => i - 1 \in 1 .. k /\ i - 1 # k /\ f[i - 1] = g[i - 1]
        BY <1>0, <2>1, <4>1
      <4> HIDE DEF f
      <4> QED
        BY <2>3, <4>1, <4>2 DEF Flattens
    <3> QED
      BY <3>1, <3>2
  <2>7. Ok(k)
    <3> HIDE DEF f
    <3> QED
      BY <2>5, <2>6 DEF Flattens
  <2> QED
    BY <1>3, <2>7
<1> QED
  BY <1>4, <1>5

\* Nothing one after another is nothing.
LEMMA FlattenEmpty == SX!FlattenSeq(<<>>) = <<>>
  BY EmptySeq DEF SX!FlattenSeq

\* It is that function.
LEMMA FlattenValue ==
  ASSUME NEW S, NEW ss \in Seq(Seq(S)), Len(ss) # 0,
         NEW f \in [1 .. Len(ss) -> Seq(S)], Flattens(f, ss, Len(ss))
  PROVE  SX!FlattenSeq(ss) = f[Len(ss)]
<1> DEFINE n == Len(ss)
           g == CHOOSE h : h = [i \in 1 .. n |->
                                  IF i = 1 THEN ss[i] ELSE h[i - 1] \o ss[i]]
<1>1. SX!FlattenSeq(ss) = g[n]
  BY Zenon DEF SX!FlattenSeq
<1>2. f = [i \in 1 .. n |-> IF i = 1 THEN ss[i] ELSE f[i - 1] \o ss[i]]
  BY DEF Flattens
<1>3. g = [i \in 1 .. n |-> IF i = 1 THEN ss[i] ELSE g[i - 1] \o ss[i]]
  <2> HIDE DEF n
  <2> QED
    BY <1>2, Zenon
<1>4. n \in Nat
  BY LenProperties
<1> HIDE DEF g
<1> DEFINE Diff == {i \in 1 .. n : f[i] # g[i]}
<1>5. SUFFICES ASSUME Diff # {}
               PROVE  FALSE
  <2>1. n \in 1 .. n
    BY <1>4
  <2> QED
    BY <1>1, <2>1
<1>6. PICK i \in Diff : \A j \in Diff : i <= j
  <2>1. Diff \subseteq Nat
    BY <1>4
  <2> HIDE DEF Diff
  <2> QED
    BY <1>5, <2>1, LeastNumber
<1>7. /\ f[i] = IF i = 1 THEN ss[i] ELSE f[i - 1] \o ss[i]
      /\ g[i] = IF i = 1 THEN ss[i] ELSE g[i - 1] \o ss[i]
  <2> HIDE DEF n
  <2>1. i \in 1 .. n
    OBVIOUS
  <2>2. Flattens(f, ss, n)
    BY DEF n
  <2>3. [j \in 1 .. n |-> IF j = 1 THEN ss[j] ELSE g[j - 1] \o ss[j]][i]
          = IF i = 1 THEN ss[i] ELSE g[i - 1] \o ss[i]
    BY <2>1
  <2> QED
    BY <1>3, <2>1, <2>2, <2>3 DEF Flattens
<1>8. i # 1
  BY <1>4, <1>7
<1>9. i - 1 \in 1 .. n /\ i - 1 < i /\ i \in 1 .. n
  BY <1>4, <1>8
<1>10. f[i - 1] = g[i - 1]
  BY <1>4, <1>6, <1>9
<1> QED
  BY <1>6, <1>7, <1>8, <1>9, <1>10

\* One sequence more, and the type.
LEMMA FlattenAppend ==
  ASSUME NEW S, NEW ss \in Seq(Seq(S)), NEW s \in Seq(S)
  PROVE  /\ SX!FlattenSeq(ss) \in Seq(S)
         /\ SX!FlattenSeq(Append(ss, s)) = SX!FlattenSeq(ss) \o s
<1> DEFINE n == Len(ss)
           tt == Append(ss, s)
<1>1. /\ n \in Nat /\ tt \in Seq(Seq(S)) /\ Len(tt) = n + 1
      /\ tt[n + 1] = s /\ \A i \in 1 .. n : tt[i] = ss[i]
  BY AppendProperties, LenProperties
<1>2. PICK g \in [1 .. n + 1 -> Seq(S)] : Flattens(g, tt, n + 1)
  <2> HIDE DEF tt, n
  <2>1. n + 1 \in 0 .. Len(tt)
    BY <1>1
  <2> QED
    BY <1>1, <2>1, FlattenFunction
<1>3. SX!FlattenSeq(tt) = g[n + 1]
  <2> HIDE DEF tt, n
  <2>1. Len(tt) # 0
    BY <1>1
  <2>2. g \in [1 .. Len(tt) -> Seq(S)]
    BY <1>1, Zenon
  <2>3. Flattens(g, tt, Len(tt))
    BY <1>1, <1>2
  <2>4. SX!FlattenSeq(tt) = g[Len(tt)]
    BY <1>1, <2>1, <2>2, <2>3, FlattenValue
  <2> QED
    BY <1>1, <2>4
<1>4. CASE n = 0
  <2>1. ss = <<>>
    BY <1>4, EmptySeq
  <2>2. g[n + 1] = s
    BY <1>1, <1>2, <1>4 DEF Flattens
  <2> QED
    BY <1>3, <2>1, <2>2, FlattenEmpty, ConcatEmptySeq, EmptySeq
<1>5. CASE n # 0
  <2> DEFINE f == [i \in 1 .. n |-> g[i]]
  <2>1. f \in [1 .. n -> Seq(S)]
    BY <1>1, <1>2
  <2>2. Flattens(f, ss, n)
    <3> HIDE DEF tt
    <3> SUFFICES ASSUME NEW i \in 1 .. n
                 PROVE  f[i] = IF i = 1 THEN ss[i] ELSE f[i - 1] \o ss[i]
      BY DEF Flattens
    <3>1. i \in 1 .. n + 1 /\ tt[i] = ss[i] /\ f[i] = g[i]
      BY <1>1
    <3>2. i # 1 => i - 1 \in 1 .. n /\ f[i - 1] = g[i - 1]
      BY <1>1
    <3> HIDE DEF f, n
    <3> QED
      BY <1>2, <3>1, <3>2 DEF Flattens
  <2>3. SX!FlattenSeq(ss) = f[n]
    <3> HIDE DEF f
    <3> QED
      BY <1>5, <2>1, <2>2, FlattenValue
  <2>4. n \in 1 .. n /\ n + 1 \in 1 .. n + 1 /\ n + 1 # 1 /\ (n + 1) - 1 = n
    BY <1>1, <1>5
  <2>5. g[n + 1] = g[n] \o s
    <3> HIDE DEF tt, n
    <3> QED
      BY <1>1, <1>2, <2>4 DEF Flattens
  <2> QED
    BY <1>3, <2>1, <2>3, <2>4, <2>5
<1> QED
  BY <1>4, <1>5

\* What comes of a beginning is a beginning of what comes of the whole.
LEMMA FlattenPrefix ==
  ASSUME NEW S, NEW ss \in Seq(Seq(S)), NEW n \in 0 .. Len(ss)
  PROVE  \E t \in Seq(S) :
           SX!FlattenSeq(ss) = SX!FlattenSeq(SubSeq(ss, 1, n)) \o t
<1> DEFINE Part(k) == SX!FlattenSeq(SubSeq(ss, 1, k))
           Ok(k) == \E t \in Seq(S) : Part(k) = Part(n) \o t
           Bad == {k \in n .. Len(ss) : ~ Ok(k)}
<1>1. Len(ss) \in Nat /\ \A i \in 1 .. Len(ss) : ss[i] \in Seq(S)
  BY ElementOfSeq, LenProperties
<1>2. ASSUME NEW k \in 0 .. Len(ss)
      PROVE  SubSeq(ss, 1, k) \in Seq(Seq(S)) /\ Part(k) \in Seq(S)
  <2>1. SubSeq(ss, 1, k) \in Seq(Seq(S))
    BY <1>1, SubSeqProperties
  <2> QED
    BY <2>1, FlattenAppend, EmptySeq
<1>3. Ok(n)
  <2> HIDE DEF Part
  <2> QED
    BY <1>1, <1>2, ConcatEmptySeq, EmptySeq
<1>4. ASSUME NEW k \in n .. Len(ss) - 1, Ok(k)
      PROVE  Ok(k + 1)
  <2>1. /\ k \in Nat /\ k + 1 \in 1 .. Len(ss) /\ k \in 0 .. Len(ss)
        /\ n \in 0 .. Len(ss)
    BY <1>1
  <2>2. SubSeq(ss, 1, k) \in Seq(Seq(S))
    BY <2>1, SubSeqProperties
  <2>3. SubSeq(ss, 1, k + 1) = Append(SubSeq(ss, 1, k), ss[k + 1])
    BY <1>1, <2>1, SubSeqRecursiveSecond
  <2>4. Part(k + 1) = Part(k) \o ss[k + 1]
    BY <1>1, <2>1, <2>2, <2>3, FlattenAppend
  <2> HIDE DEF Part
  <2>5. PICK t \in Seq(S) : Part(k) = Part(n) \o t
    BY <1>4
  <2>6. Part(k + 1) = Part(n) \o (t \o ss[k + 1])
    <3>1. Part(n) \in Seq(S) /\ ss[k + 1] \in Seq(S)
      BY <1>1, <1>2, <2>1
    <3> DEFINE a == Part(n)
               b == ss[k + 1]
    <3>2. a \in Seq(S) /\ b \in Seq(S) /\ Part(k + 1) = (a \o t) \o b
      BY <2>4, <2>5, <3>1
    <3> HIDE DEF a, b
    <3>3. (a \o t) \o b = a \o (t \o b)
      <4>1. Associates(a, t, b)
        BY <2>5, <3>2, Associative
      <4> QED
        BY <4>1 DEF Associates
    <3> QED
      BY <3>2, <3>3 DEF a, b
  <2>7. t \o ss[k + 1] \in Seq(S)
    BY <1>1, <2>1, ConcatProperties
  <2> QED
    BY <2>6, <2>7
<1> HIDE DEF Ok
<1>5. Bad = {}
  <2>1. SUFFICES ASSUME Bad # {}
                 PROVE  FALSE
    OBVIOUS
  <2>2. PICK k \in Bad : \A j \in Bad : k <= j
    <3>1. Bad \subseteq Nat
      BY <1>1
    <3> HIDE DEF Bad
    <3> QED
      BY <2>1, <3>1, LeastNumber
  <2>3. k # n /\ k \in Int
    BY <1>1, <1>3
  <2>4. k - 1 \in n .. Len(ss) - 1 /\ (k - 1) + 1 = k
    BY <1>1, <2>3
  <2>5. Ok(k - 1)
    BY <1>1, <2>2, <2>4
  <2> QED
    BY <1>4, <2>4, <2>5
<1>6. Ok(Len(ss))
  BY <1>1, <1>5
<1>7. Part(Len(ss)) = SX!FlattenSeq(ss)
  BY SubSeqFull
<1> QED
  BY <1>6, <1>7 DEF Ok

-----------------------------------------------------------------------------
(* The segments in runs, and those that are wanted.                        *)

\* The constants. (the sizes of a cluster and of a batch)
LEMMA Sizes ==
  /\ SegmentsPerCluster \in Nat \ {0} /\ BatchLen \in Nat \ {0}
  /\ MaxClusters \in Nat /\ None \notin Run /\ None \notin Nat
  /\ \A k \in Nat : k * SegmentsPerCluster \in Nat
  /\ \A k, m \in Nat : k <= m => k * SegmentsPerCluster <= m * SegmentsPerCluster
  /\ \A k, m \in Nat : (k + m) * SegmentsPerCluster
                        = (k * SegmentsPerCluster) + (m * SegmentsPerCluster)
<1>1. /\ SegmentsPerCluster \in Nat \ {0} /\ BatchLen \in Nat \ {0}
      /\ MaxClusters \in Nat /\ None \notin Run /\ None \notin Nat
  BY IteratorAssumption
<1>2. \A k \in Nat : k * SegmentsPerCluster \in Nat
  BY <1>1
<1>3. ASSUME NEW k \in Nat, NEW m \in Nat, k <= m
      PROVE  k * SegmentsPerCluster <= m * SegmentsPerCluster
  <2>1. PICK d \in Nat : m = k + d
    <3>1. m - k \in Nat /\ m = k + (m - k)
      BY <1>3
    <3> QED
      BY <3>1
  <2>2. m * SegmentsPerCluster = (k * SegmentsPerCluster) + (d * SegmentsPerCluster)
    BY <1>1, <2>1
  <2> QED
    BY <1>2, <2>2
<1>4. \A k, m \in Nat : (k + m) * SegmentsPerCluster
                        = (k * SegmentsPerCluster) + (m * SegmentsPerCluster)
  BY <1>1
<1> QED
  BY <1>1, <1>2, <1>3, <1>4

\* A run has its clusters' segments. (openRun)
LEMMA RunSegments ==
  ASSUME NEW r \in Run
  PROVE  /\ SegmentsOf(r) \in Seq(Segment)
         /\ Len(SegmentsOf(r)) = r.len * SegmentsPerCluster
         /\ \A n \in 1 .. r.len * SegmentsPerCluster :
              SegmentsOf(r)[n] = SegmentOf(r, n - 1)
<1>1. r.len \in Nat /\ r.lcn \in Nat
  BY DEF Run
<1> DEFINE N == r.len * SegmentsPerCluster
<1>2. N \in Nat
  BY <1>1, Sizes
<1>3. ASSUME NEW n \in 1 .. N
      PROVE  SegmentOf(r, n - 1) \in Segment
  <2>1. n - 1 \in Nat
    BY <1>2
  <2> DEFINE m == n - 1
  <2> HIDE DEF m
  <2>2. /\ m \div SegmentsPerCluster \in Nat
        /\ m % SegmentsPerCluster \in 0 .. SegmentsPerCluster - 1
    BY <2>1, Sizes, DivMod DEF m
  <2>3. SegmentOf(r, m) \in Segment
    BY <1>1, <2>2 DEF SegmentOf, Segment
  <2> QED
    BY <2>3 DEF m
<1>4. SegmentsOf(r) = [n \in 1 .. N |-> SegmentOf(r, n - 1)]
  BY DEF SegmentsOf
<1> HIDE DEF N
<1>5. SegmentsOf(r) \in [1 .. N -> Segment]
  BY <1>3, <1>4
<1>6. SegmentsOf(r) \in Seq(Segment) /\ Len(SegmentsOf(r)) = N
  BY <1>2, <1>5, IsASeq, LenProperties
<1> QED
  BY <1>4, <1>6 DEF N

\* A run can be read in parts. (advance, readSize)
LEMMA RunInParts ==
  ASSUME NEW lcn \in Nat, NEW k \in Nat, NEW m \in Nat
  PROVE  SegmentsOf([lcn |-> lcn, len |-> k + m])
           = SegmentsOf([lcn |-> lcn, len |-> k])
               \o SegmentsOf([lcn |-> lcn + k, len |-> m])
<1> DEFINE r == [lcn |-> lcn, len |-> k + m]
           a == [lcn |-> lcn, len |-> k]
           b == [lcn |-> lcn + k, len |-> m]
           K == k * SegmentsPerCluster
           M == m * SegmentsPerCluster
<1>1. r \in Run /\ a \in Run /\ b \in Run
  BY DEF Run
<1>2. /\ r.lcn = lcn /\ a.lcn = lcn /\ b.lcn = lcn + k
      /\ r.len = k + m /\ a.len = k /\ b.len = m
  OBVIOUS
<1>3. K \in Nat /\ M \in Nat /\ (k + m) * SegmentsPerCluster = K + M
  BY Sizes
<1> DEFINE R == SegmentsOf(r)
           A == SegmentsOf(a)
           B == SegmentsOf(b)
<1> HIDE DEF r, a, b
<1>4. /\ R \in Seq(Segment) /\ Len(R) = K + M
      /\ \A n \in 1 .. K + M : R[n] = SegmentOf(r, n - 1)
  BY <1>1, <1>2, <1>3, RunSegments
<1>5. /\ A \in Seq(Segment) /\ Len(A) = K
      /\ \A n \in 1 .. K : A[n] = SegmentOf(a, n - 1)
  BY <1>1, <1>2, <1>3, RunSegments
<1>6. /\ B \in Seq(Segment) /\ Len(B) = M
      /\ \A n \in 1 .. M : B[n] = SegmentOf(b, n - 1)
  BY <1>1, <1>2, <1>3, RunSegments
<1>7. ASSUME NEW n \in Nat
      PROVE  SegmentOf(r, K + n) = SegmentOf(b, n)
  <2>1. /\ (K + n) \div SegmentsPerCluster = k + (n \div SegmentsPerCluster)
        /\ (K + n) % SegmentsPerCluster = n % SegmentsPerCluster
        /\ n \div SegmentsPerCluster \in Nat
    <3> DEFINE S == SegmentsPerCluster
    <3>1. S \in Nat \ {0} /\ k \in Nat /\ K = k * S
      BY Sizes
    <3> HIDE DEF S, K
    <3>2. ((k * S) + n) \div S = k + (n \div S) /\ ((k * S) + n) % S = n % S
      BY <3>1, DivShift
    <3>3. n \div S \in Nat
      BY <3>1, DivMod
    <3> QED
      BY <3>1, <3>2, <3>3 DEF S
  <2>2. r.lcn + (k + (n \div SegmentsPerCluster)) = b.lcn + (n \div SegmentsPerCluster)
    <3> DEFINE x == n \div SegmentsPerCluster
    <3> HIDE DEF x
    <3>1. x \in Nat
      BY <2>1 DEF x
    <3>2. r.lcn + (k + x) = b.lcn + x
      BY <1>2, <3>1
    <3> QED
      BY <3>2 DEF x
  <2> QED
    BY <2>1, <2>2 DEF SegmentOf
<1> HIDE DEF R, A, B, K, M
<1>8. ASSUME NEW n \in 1 .. K + M
      PROVE  R[n] = (A \o B)[n]
  <2>1. CASE n <= K
    <3>1. n \in 1 .. K
      BY <1>3, <2>1
    <3>2. SegmentOf(r, n - 1) = SegmentOf(a, n - 1)
      BY <1>2 DEF SegmentOf
    <3>3. (A \o B)[n] = A[n]
      BY <1>3, <1>5, <1>6, <3>1, ConcatProperties
    <3> QED
      BY <1>4, <1>5, <3>1, <3>2, <3>3
  <2>2. CASE n > K
    <3>1. n - K \in 1 .. M /\ n - K - 1 \in Nat /\ K + (n - K - 1) = n - 1
      BY <1>3, <2>2
    <3>2. SegmentOf(r, n - 1) = SegmentOf(b, n - K - 1)
      BY <1>7, <3>1
    <3>3. (A \o B)[n] = B[n - K]
      BY <1>3, <1>5, <1>6, <2>2, <3>1, ConcatProperties
    <3>4. (n - K) - 1 = n - K - 1
      OBVIOUS
    <3>5. R[n] = SegmentOf(r, n - 1)
      BY <1>4
    <3>6. B[n - K] = SegmentOf(b, n - K - 1)
      BY <1>6, <3>1
    <3> QED
      BY <3>2, <3>3, <3>5, <3>6
  <2>3. n <= K \/ n > K
    BY <1>3
  <2> QED
    BY <2>1, <2>2, <2>3
<1>9. A \o B \in Seq(Segment) /\ Len(A \o B) = K + M
  BY <1>3, <1>5, <1>6, ConcatProperties
<1>10. R = A \o B
  BY <1>4, <1>8, <1>9, SeqEqual
<1> QED
  BY <1>10 DEF R, A, B, r, a, b

\* The segments of a list with one run more. (advanceRun)
LEMMA SegmentsInAppend ==
  ASSUME NEW list \in Seq(Run), NEW r \in Run
  PROVE  /\ SegmentsIn(list) \in Seq(Segment)
         /\ SegmentsIn(Append(list, r)) = SegmentsIn(list) \o SegmentsOf(r)
<1> DEFINE F(l) == [n \in DOMAIN l |-> SegmentsOf(l[n])]
<1>1. ASSUME NEW l \in Seq(Run)
      PROVE  /\ F(l) \in Seq(Seq(Segment)) /\ Len(F(l)) = Len(l)
             /\ \A n \in 1 .. Len(l) : F(l)[n] = SegmentsOf(l[n])
  <2>1. Len(l) \in Nat /\ DOMAIN l = 1 .. Len(l) /\ \A n \in 1 .. Len(l) : l[n] \in Run
    BY LenProperties, ElementOfSeq
  <2>2. F(l) \in [1 .. Len(l) -> Seq(Segment)]
    BY <2>1, RunSegments
  <2>3. F(l) \in Seq(Seq(Segment))
    BY <2>1, <2>2, IsASeq
  <2> QED
    BY <2>1, <2>2, <2>3, LenProperties
<1>2. /\ Append(list, r) \in Seq(Run) /\ Len(list) \in Nat
      /\ Len(Append(list, r)) = Len(list) + 1
      /\ \A n \in 1 .. Len(list) : Append(list, r)[n] = list[n]
      /\ Append(list, r)[Len(list) + 1] = r
  BY AppendProperties, LenProperties
<1>3. SegmentsOf(r) \in Seq(Segment)
  BY RunSegments
<1>4. /\ SegmentsIn(list) = SX!FlattenSeq(F(list))
      /\ SegmentsIn(Append(list, r)) = SX!FlattenSeq(F(Append(list, r)))
  BY DEF SegmentsIn
<1> DEFINE s == F(list)
           t == F(Append(list, r))
           u == Append(s, SegmentsOf(r))
<1>5. /\ s \in Seq(Seq(Segment)) /\ Len(s) = Len(list)
      /\ \A n \in 1 .. Len(list) : s[n] = SegmentsOf(list[n])
  BY <1>1
<1>6. /\ t \in Seq(Seq(Segment)) /\ Len(t) = Len(list) + 1
      /\ \A n \in 1 .. Len(list) + 1 : t[n] = SegmentsOf(Append(list, r)[n])
  <2> HIDE DEF F
  <2> QED
    BY <1>1, <1>2
<1> HIDE DEF s, t
<1>7. /\ u \in Seq(Seq(Segment)) /\ Len(u) = Len(list) + 1
      /\ \A n \in 1 .. Len(list) : u[n] = s[n]
      /\ u[Len(list) + 1] = SegmentsOf(r)
  BY <1>2, <1>3, <1>5, AppendProperties
<1>8. t = u
  <2> HIDE DEF u
  <2>1. ASSUME NEW n \in 1 .. Len(list) + 1
        PROVE  t[n] = u[n]
    <3>1. CASE n = Len(list) + 1
      BY <1>2, <1>6, <1>7, <3>1
    <3>2. CASE n # Len(list) + 1
      <4>1. n \in 1 .. Len(list)
        BY <1>2, <3>2
      <4> QED
        BY <1>2, <1>5, <1>6, <1>7, <4>1
    <3> QED
      BY <3>1, <3>2
  <2> QED
    BY <1>6, <1>7, <2>1, SeqEqual
<1>9. /\ SX!FlattenSeq(s) \in Seq(Segment)
      /\ SX!FlattenSeq(u) = SX!FlattenSeq(s) \o SegmentsOf(r)
  BY <1>3, <1>5, FlattenAppend
<1> QED
  BY <1>4, <1>8, <1>9 DEF s, t

\* No run, no segment.
LEMMA SegmentsInNothing == SegmentsIn(<<>>) = <<>>
<1>1. [n \in DOMAIN <<>> |-> SegmentsOf(<<>>[n])] = <<>>
  OBVIOUS
<1> QED
  BY <1>1, FlattenEmpty DEF SegmentsIn

\* The first runs have the first segments. (advanceRun)
LEMMA SegmentsInPrefix ==
  ASSUME NEW list \in Seq(Run), NEW k \in 0 .. Len(list)
  PROVE  \E t \in Seq(Segment) :
           SegmentsIn(list) = SegmentsIn(SubSeq(list, 1, k)) \o t
<1> DEFINE s == [n \in DOMAIN list |-> SegmentsOf(list[n])]
           p == SubSeq(list, 1, k)
           f == [n \in DOMAIN p |-> SegmentsOf(p[n])]
<1>1. Len(list) \in Nat /\ DOMAIN list = 1 .. Len(list)
      /\ \A n \in 1 .. Len(list) : list[n] \in Run
  BY LenProperties, ElementOfSeq
<1>2. /\ s \in Seq(Seq(Segment)) /\ Len(s) = Len(list)
      /\ \A n \in 1 .. Len(list) : s[n] = SegmentsOf(list[n])
  <2>1. s \in [1 .. Len(list) -> Seq(Segment)]
    BY <1>1, RunSegments
  <2> QED
    BY <1>1, <2>1, IsASeq, LenProperties
<1>3. /\ p \in Seq(Run) /\ Len(p) = k /\ \A n \in 1 .. k : p[n] = list[n]
      /\ DOMAIN p = 1 .. k
  BY <1>1, SubSeqProperties, LenProperties
<1> HIDE DEF p, s
<1>4. /\ f \in Seq(Seq(Segment)) /\ Len(f) = k
      /\ \A n \in 1 .. k : f[n] = SegmentsOf(list[n])
  <2>1. f \in [1 .. k -> Seq(Segment)]
    BY <1>1, <1>3, RunSegments
  <2> QED
    BY <1>1, <1>3, <2>1, IsASeq, LenProperties
<1> HIDE DEF f
<1>5. f = SubSeq(s, 1, k)
  <2>1. /\ SubSeq(s, 1, k) \in Seq(Seq(Segment)) /\ Len(SubSeq(s, 1, k)) = k
        /\ \A n \in 1 .. k : SubSeq(s, 1, k)[n] = s[n]
    BY <1>1, <1>2, SubSeqProperties, ElementOfSeq
  <2>2. ASSUME NEW n \in 1 .. k
        PROVE  f[n] = SubSeq(s, 1, k)[n]
    <3>1. n \in 1 .. Len(list)
      BY <1>1
    <3> QED
      BY <1>2, <1>4, <2>1, <3>1
  <2> QED
    BY <1>4, <2>1, <2>2, SeqEqual
<1>6. \E t \in Seq(Segment) :
        SX!FlattenSeq(s) = SX!FlattenSeq(SubSeq(s, 1, k)) \o t
  <2>1. k \in 0 .. Len(s) /\ s \in Seq(Seq(Segment))
    BY <1>1, <1>2
  <2> QED
    BY <2>1, FlattenPrefix
<1> QED
  BY <1>5, <1>6 DEF SegmentsIn, s, f, p

\* What Wanted makes of one segment.
Kept(e) == IF e \in Unwanted(flags) THEN <<>> ELSE <<e>>

\* A segment that the flags skip changes nothing; another one is wanted.
LEMMA WantedAppend ==
  ASSUME NEW s \in Seq(Segment), NEW e \in Segment
  PROVE  /\ Wanted(s) \in Seq(Segment)
         /\ Wanted(Append(s, e)) = Wanted(s) \o Kept(e)
<1> DEFINE F(l) == [n \in DOMAIN l |-> Kept(l[n])]
<1>0. \A x \in Segment : Kept(x) \in Seq(Segment)
  BY EmptySeq DEF Kept
<1>1. ASSUME NEW l \in Seq(Segment)
      PROVE  /\ F(l) \in Seq(Seq(Segment)) /\ Len(F(l)) = Len(l)
             /\ \A n \in 1 .. Len(l) : F(l)[n] = Kept(l[n])
             /\ Wanted(l) = SX!FlattenSeq(F(l))
  <2>1. Len(l) \in Nat /\ DOMAIN l = 1 .. Len(l)
        /\ \A n \in 1 .. Len(l) : l[n] \in Segment
    BY LenProperties, ElementOfSeq
  <2>2. F(l) \in [1 .. Len(l) -> Seq(Segment)]
    BY <1>0, <2>1
  <2>3. F(l) \in Seq(Seq(Segment))
    BY <2>1, <2>2, IsASeq
  <2>4. Wanted(l) = SX!FlattenSeq(F(l))
    BY DEF Wanted, Kept
  <2> QED
    BY <2>1, <2>2, <2>3, <2>4, LenProperties
<1>2. /\ Append(s, e) \in Seq(Segment) /\ Len(s) \in Nat
      /\ Len(Append(s, e)) = Len(s) + 1
      /\ \A n \in 1 .. Len(s) : Append(s, e)[n] = s[n]
      /\ Append(s, e)[Len(s) + 1] = e
  BY AppendProperties, LenProperties
<1> DEFINE f == F(s)
           t == F(Append(s, e))
           u == Append(f, Kept(e))
<1>3. /\ f \in Seq(Seq(Segment)) /\ Len(f) = Len(s)
      /\ \A n \in 1 .. Len(s) : f[n] = Kept(s[n])
  BY <1>1
<1>4. /\ t \in Seq(Seq(Segment)) /\ Len(t) = Len(s) + 1
      /\ \A n \in 1 .. Len(s) + 1 : t[n] = Kept(Append(s, e)[n])
  <2> HIDE DEF F
  <2> QED
    BY <1>1, <1>2
<1>5. Wanted(s) = SX!FlattenSeq(f) /\ Wanted(Append(s, e)) = SX!FlattenSeq(t)
  <2> HIDE DEF F
  <2> QED
    BY <1>1, <1>2
<1> HIDE DEF f, t
<1>6. /\ u \in Seq(Seq(Segment)) /\ Len(u) = Len(s) + 1
      /\ \A n \in 1 .. Len(s) : u[n] = f[n]
      /\ u[Len(s) + 1] = Kept(e)
  BY <1>0, <1>2, <1>3, AppendProperties
<1>7. t = u
  <2> HIDE DEF u
  <2>1. ASSUME NEW n \in 1 .. Len(s) + 1
        PROVE  t[n] = u[n]
    <3>1. CASE n = Len(s) + 1
      BY <1>2, <1>4, <1>6, <3>1
    <3>2. CASE n # Len(s) + 1
      <4>1. n \in 1 .. Len(s)
        BY <1>2, <3>2
      <4> QED
        BY <1>2, <1>3, <1>4, <1>6, <4>1
    <3> QED
      BY <3>1, <3>2
  <2> QED
    BY <1>4, <1>6, <2>1, SeqEqual
<1>8. /\ SX!FlattenSeq(f) \in Seq(Segment)
      /\ SX!FlattenSeq(u) = SX!FlattenSeq(f) \o Kept(e)
  BY <1>0, <1>3, FlattenAppend
<1> QED
  BY <1>5, <1>7, <1>8

\* Of no segment none is wanted.
LEMMA WantedNothing == Wanted(<<>>) = <<>>
<1>1. [n \in DOMAIN <<>> |-> IF <<>>[n] \in Unwanted(flags) THEN <<>> ELSE <<<<>>[n]>>]
        = <<>>
  OBVIOUS
<1> QED
  BY <1>1, FlattenEmpty DEF Wanted

\* What is wanted of a beginning is the beginning of what is wanted.
LEMMA WantedPrefix ==
  ASSUME NEW s \in Seq(Segment), NEW t \in Seq(Segment)
  PROVE  SX!IsPrefix(Wanted(s), Wanted(s \o t))
<1> DEFINE w == s \o t
           k == Len(s)
           f == [n \in DOMAIN w |-> Kept(w[n])]
           g == [n \in DOMAIN s |-> Kept(s[n])]
<1>0. \A x \in Segment : Kept(x) \in Seq(Segment)
  BY EmptySeq DEF Kept
<1>1. /\ k \in Nat /\ DOMAIN s = 1 .. k /\ \A n \in 1 .. k : s[n] \in Segment
      /\ w \in Seq(Segment) /\ Len(w) \in Nat /\ k <= Len(w)
      /\ DOMAIN w = 1 .. Len(w) /\ \A n \in 1 .. Len(w) : w[n] \in Segment
      /\ \A n \in 1 .. k : w[n] = s[n]
  BY LenProperties, ElementOfSeq, ConcatProperties
<1>2. Wanted(s) = SX!FlattenSeq(g) /\ Wanted(w) = SX!FlattenSeq(f)
  BY DEF Wanted, Kept
<1> HIDE DEF w, k
<1>3. /\ f \in Seq(Seq(Segment)) /\ Len(f) = Len(w)
      /\ \A n \in 1 .. Len(w) : f[n] = Kept(w[n])
  <2>1. f \in [1 .. Len(w) -> Seq(Segment)]
    BY <1>0, <1>1
  <2> QED
    BY <1>1, <2>1, IsASeq, LenProperties
<1>4. /\ g \in Seq(Seq(Segment)) /\ Len(g) = k
      /\ \A n \in 1 .. k : g[n] = Kept(s[n])
  <2>1. g \in [1 .. k -> Seq(Segment)]
    BY <1>0, <1>1
  <2> QED
    BY <1>1, <2>1, IsASeq, LenProperties
<1> HIDE DEF f, g
<1>5. g = SubSeq(f, 1, k)
  <2>1. /\ SubSeq(f, 1, k) \in Seq(Seq(Segment)) /\ Len(SubSeq(f, 1, k)) = k
        /\ \A n \in 1 .. k : SubSeq(f, 1, k)[n] = f[n]
    BY <1>1, <1>3, SubSeqProperties, ElementOfSeq
  <2>2. ASSUME NEW n \in 1 .. k
        PROVE  g[n] = SubSeq(f, 1, k)[n]
    <3>1. n \in 1 .. Len(w) /\ s[n] = w[n]
      BY <1>1
    <3> QED
      BY <1>3, <1>4, <2>1, <3>1
  <2> QED
    BY <1>4, <2>1, <2>2, SeqEqual
<1>6. PICK u \in Seq(Segment) : SX!FlattenSeq(f) = SX!FlattenSeq(g) \o u
  <2>1. k \in 0 .. Len(f)
    BY <1>1, <1>3
  <2>2. \E u \in Seq(Segment) :
          SX!FlattenSeq(f) = SX!FlattenSeq(SubSeq(f, 1, k)) \o u
    BY <1>3, <2>1, FlattenPrefix
  <2> QED
    BY <1>5, <2>2
<1>7. SX!FlattenSeq(g) \in Seq(Segment)
  BY <1>4, FlattenAppend, EmptySeq
<1> DEFINE a == SX!FlattenSeq(g)
           b == SX!FlattenSeq(f)
<1>8. a \in Seq(Segment) /\ b = a \o u
  BY <1>6, <1>7
<1> HIDE DEF a, b
<1>9. SX!IsPrefix(a, b)
  <2>1. /\ Len(a) \in Nat /\ Len(a) <= Len(b) /\ \A n \in 1 .. Len(a) : b[n] = a[n]
        /\ b \in Seq(Segment) /\ Len(b) \in Nat
    BY <1>8, ConcatProperties, LenProperties
  <2>2. SubSeq(a, 1, Len(a)) = SubSeq(b, 1, Len(a))
    <3>1. /\ SubSeq(a, 1, Len(a)) \in Seq(Segment)
          /\ Len(SubSeq(a, 1, Len(a))) = Len(a)
          /\ \A n \in 1 .. Len(a) : SubSeq(a, 1, Len(a))[n] = a[n]
      BY <1>8, <2>1, SubSeqProperties, ElementOfSeq
    <3>2. /\ SubSeq(b, 1, Len(a)) \in Seq(Segment)
          /\ Len(SubSeq(b, 1, Len(a))) = Len(a)
          /\ \A n \in 1 .. Len(a) : SubSeq(b, 1, Len(a))[n] = b[n]
      BY <1>8, <2>1, SubSeqProperties, ElementOfSeq
    <3> QED
      BY <2>1, <3>1, <3>2, SeqEqual
  <2> QED
    BY <2>1, <2>2 DEF SX!IsPrefix
<1> QED
  BY <1>2, <1>9 DEF a, b, w

-----------------------------------------------------------------------------
(* The ring of reads.                                                      *)

\* A read is a run of clusters itself, of at least one. (advance)
LEMMA ChunkIsRun ==
  ASSUME NEW c \in Chunk
  PROVE  c \in Run /\ c.lcn \in Nat /\ c.len \in Nat \ {0} /\ c.len <= BatchLen
<1>1. PICK list \in RunLists : \E r \in SX!ToSet(list) :
        c \in [lcn : r.lcn .. r.lcn + MaxClusters, len : 1 .. BatchLen]
  BY DEF Chunk
<1>2. PICK r \in SX!ToSet(list) :
        c \in [lcn : r.lcn .. r.lcn + MaxClusters, len : 1 .. BatchLen]
  BY <1>1
<1>3. r \in Run
  <2>1. list \in Seq(Run)
    BY IteratorAssumption
  <2> QED
    BY <1>2, <2>1, ElementOfSeq DEF SX!ToSet
<1> QED
  BY <1>2, <1>3, Sizes DEF Run

\* The segments of a read: at least one, and no more than a batch has. (advance)
LEMMA ChunkSize ==
  ASSUME NEW c \in Chunk
  PROVE  /\ c.len * SegmentsPerCluster \in Nat \ {0}
         /\ BatchLen * SegmentsPerCluster \in Nat \ {0}
         /\ c.len * SegmentsPerCluster <= BatchLen * SegmentsPerCluster
<1> DEFINE k == c.len
           S == SegmentsPerCluster
<1>1. k \in Nat \ {0} /\ k <= BatchLen
  BY ChunkIsRun
<1>2. S \in Nat \ {0} /\ BatchLen \in Nat
  BY Sizes
<1>3. \A i, j \in Nat : i <= j => i * S <= j * S
  BY Sizes
<1>4. \A i \in Nat : i * S \in Nat
  BY Sizes
<1> HIDE DEF k, S
<1>5. 1 <= k /\ k \in Nat /\ 1 \in Nat /\ 1 * S = S
  BY <1>1, <1>2
<1>6. 1 * S <= k * S /\ k * S <= BatchLen * S
  BY <1>1, <1>2, <1>3, <1>5
<1>7. k * S \in Nat /\ BatchLen * S \in Nat
  BY <1>2, <1>4, <1>5
<1>8. k * S \in Nat \ {0} /\ BatchLen * S \in Nat \ {0}
  <2> DEFINE x == k * S
             y == BatchLen * S
  <2>1. x \in Nat /\ y \in Nat /\ S <= x /\ x <= y
    BY <1>5, <1>6, <1>7
  <2> HIDE DEF x, y
  <2>2. x \in Nat \ {0} /\ y \in Nat \ {0}
    BY <1>2, <2>1
  <2> QED
    BY <2>2 DEF x, y
<1> QED
  BY <1>6, <1>8 DEF k, S

\* The slot of the n-th read.
SlotAt(n) == (n - 1) % Depth

\* The reads in the ring, by their numbers.
Numbers == Len(delivered) + 1 .. Len(accepted)

\* Counters and places. (pending_count, head, tail)
LEMMA RingFacts ==
  ASSUME TypeOK, InRing
  PROVE  /\ Len(accepted) \in Nat /\ Len(delivered) \in Nat
         /\ q.pendingCount \in 0 .. Depth
         /\ Len(accepted) - Len(delivered) = q.pendingCount
         /\ q.head \in Index /\ q.tail \in Index
         /\ q.head = SlotAt(Len(accepted) + 1)
         /\ q.tail = SlotAt(Len(delivered) + 1)
         /\ \A n \in Numbers : /\ n \in Nat \ {0} /\ SlotAt(n) \in Index
                               /\ accepted[n] \in Chunk
         /\ q.slots \in [Index -> Slot(Chunk, Chunk)]
<1>1. /\ Len(accepted) \in Nat /\ Len(delivered) \in Nat
      /\ q.pendingCount \in 0 .. Depth
      /\ q.head \in Index /\ q.tail \in Index
      /\ q.slots \in [Index -> Slot(Chunk, Chunk)]
  BY LenProperties DEF TypeOK, Queue
<1>2. Len(accepted) - Len(delivered) = q.pendingCount
  BY <1>1 DEF InRing
<1>3. \A n \in Numbers : n \in Nat \ {0} /\ n \in 1 .. Len(accepted)
  BY <1>1 DEF Numbers
<1>4. ASSUME NEW n \in Numbers
      PROVE  SlotAt(n) \in Index
  <2>1. n - 1 \in Nat
    BY <1>3
  <2> QED
    BY <2>1, DivMod DEF SlotAt, Index
<1>5. \A n \in Numbers : accepted[n] \in Chunk
  BY <1>3, ElementOfSeq DEF TypeOK
<1>6. /\ q.head = SlotAt(Len(accepted) + 1)
      /\ q.tail = SlotAt(Len(delivered) + 1)
  BY <1>1 DEF InRing, SlotAt
<1> QED
  BY <1>1, <1>2, <1>3, <1>4, <1>5, <1>6

\* The slot that the next read takes is none of those in use, unless the ring
\* is full. (try_push_back)
LEMMA HeadIsFree ==
  ASSUME TypeOK, InRing, ~IsFull(q), NEW n \in Numbers
  PROVE  SlotAt(n) # q.head
<1>1. /\ n - 1 \in Nat /\ Len(accepted) \in Nat
      /\ n - 1 < Len(accepted)
      /\ Len(accepted) - (n - 1) < Depth
  BY RingFacts DEF Numbers, IsFull
<1>2. (n - 1) % Depth # Len(accepted) % Depth
  BY <1>1, ModDistinct
<1> QED
  BY <1>2 DEF SlotAt, InRing

\* The oldest read is the first that was not returned. (finalize_front)
LEMMA FrontIsNext ==
  ASSUME TypeOK, InRing, ~IsEmpty(q)
  PROVE  /\ Len(delivered) + 1 \in Numbers
         /\ q.tail = SlotAt(Len(delivered) + 1)
         /\ Front(q).req = accepted[Len(delivered) + 1]
         /\ Front(q).isPending
         /\ FrontIs(q, "ok") => Front(q).buf = accepted[Len(delivered) + 1]
<1>1. Len(delivered) + 1 \in Numbers /\ q.tail = SlotAt(Len(delivered) + 1)
  BY RingFacts DEF Numbers, IsEmpty
<1> QED
  BY <1>1 DEF InRing, SlotAt, Numbers, Front, FrontIs

\* One more read keeps the ring sound, and the oldest one, if there is one, as
\* it is. (try_push_back)
LEMMA PushRing ==
  ASSUME TypeOK, InRing, NEW c \in Chunk, ~IsFull(q),
         q' = PushBack(q, c, None), accepted' = Append(accepted, c),
         UNCHANGED delivered
  PROVE  /\ q' \in Queue(Chunk, Chunk) /\ accepted' \in Seq(Chunk) /\ InRing'
         /\ ~IsEmpty(q) => Front(q)' = Front(q) /\ ~IsEmpty(q')
<1> DEFINE s == [req |-> c, buf |-> None, io |-> "inflight", isPending |-> TRUE]
           a == Len(accepted)
<1>1. q' = [slots |-> [q.slots EXCEPT ![q.head] = s],
            head |-> Advance(q.head), tail |-> q.tail,
            pendingCount |-> q.pendingCount + 1]
  BY DEF PushBack, TypeOK, Queue
<1>2. /\ accepted' \in Seq(Chunk) /\ Len(accepted') = a + 1
      /\ accepted'[a + 1] = c
      /\ \A n \in 1 .. a : accepted'[n] = accepted[n]
  BY AppendProperties DEF TypeOK
<1>3. q.pendingCount + 1 \in 0 .. Depth /\ Len(accepted') = Len(delivered') + q'.pendingCount
  <2>1. /\ q'.pendingCount = q.pendingCount + 1 /\ Len(delivered') = Len(delivered)
        /\ Len(accepted) = Len(delivered) + q.pendingCount
    BY <1>1 DEF InRing
  <2>2. q.pendingCount \in 0 .. Depth /\ Len(accepted) \in Nat /\ Len(delivered) \in Nat
    BY RingFacts
  <2> QED
    BY <1>2, <2>1, <2>2 DEF IsFull
<1>4. Advance(q.head) \in Index /\ Advance(q.head) = Len(accepted') % Depth
  <2>1. Advance(q.head) = Len(accepted') % Depth
    BY <1>2, ModStep, RingFacts DEF Advance, InRing
  <2>2. Len(accepted') \in Nat
    BY <1>2, RingFacts
  <2> QED
    BY <2>1, <2>2, DivMod DEF Index
<1>5. q' \in Queue(Chunk, Chunk)
  <2>1. s \in Slot(Chunk, Chunk)
    BY DEF Slot, IoStates
  <2>2. [q.slots EXCEPT ![q.head] = s] \in [Index -> Slot(Chunk, Chunk)]
    BY <2>1, RingFacts
  <2> QED
    BY <1>1, <1>3, <1>4, <2>2, RingFacts DEF Queue
<1>6. ASSUME NEW n \in Len(delivered') + 1 .. Len(accepted')
      PROVE  LET t == q'.slots[(n - 1) % Depth]
             IN t.isPending /\ t.req = accepted'[n] /\ (t.io = "ok" => t.buf = t.req)
  <2>1. CASE n = a + 1
    <3>1. SlotAt(n) = q.head /\ q.head \in Index
      BY <2>1, RingFacts
    <3>2. q'.slots[SlotAt(n)] = s
      BY <1>1, <3>1, RingFacts
    <3> QED
      BY <1>2, <2>1, <3>2 DEF SlotAt
  <2>2. CASE n # a + 1
    <3>1. n \in Numbers /\ n \in 1 .. a
      BY <1>2, <2>2, RingFacts DEF Numbers
    <3>2. SlotAt(n) # q.head
      BY <3>1, HeadIsFree
    <3>3. q'.slots[SlotAt(n)] = q.slots[SlotAt(n)]
      BY <1>1, <3>1, <3>2, RingFacts
    <3> QED
      BY <1>2, <3>1, <3>3 DEF InRing, SlotAt, Numbers
  <2> QED
    BY <2>1, <2>2
<1>7. InRing'
  <2>1. q'.head = Len(accepted') % Depth /\ q'.tail = Len(delivered') % Depth
    BY <1>1, <1>4 DEF InRing
  <2>2. \A n \in Len(delivered') + 1 .. Len(accepted') :
          LET t == q'.slots[(n - 1) % Depth]
          IN t.isPending /\ t.req = accepted'[n] /\ (t.io = "ok" => t.buf = t.req)
    BY <1>6
  <2> QED
    BY <1>3, <2>1, <2>2 DEF InRing
<1>8. ASSUME ~IsEmpty(q)
      PROVE  Front(q)' = Front(q) /\ ~IsEmpty(q')
  <2>1. q.tail # q.head
    BY <1>8, FrontIsNext, HeadIsFree
  <2> QED
    BY <1>1, <1>8, <2>1, RingFacts DEF Front, IsEmpty
<1> QED
  BY <1>2, <1>5, <1>7, <1>8

\* Returning the lent buffer keeps the ring sound. (pop_front)
LEMMA PopRing ==
  ASSUME TypeOK, InRing, FrontIs(q, "ok"), ReturnBuffer
  PROVE  /\ q' \in Queue(Chunk, Chunk) /\ InRing'
         /\ delivered' \in Seq([req : Chunk, buf : Chunk])
         /\ Len(delivered') = Len(delivered) + 1
<1> DEFINE f == Len(delivered) + 1
<1>1. /\ q.pendingCount # 0 /\ f \in Numbers /\ q.tail = SlotAt(f)
      /\ Front(q).req \in Chunk /\ Front(q).buf \in Chunk
  BY FrontIsNext, RingFacts DEF FrontIs, IsEmpty
<1>2. /\ delivered' \in Seq([req : Chunk, buf : Chunk])
      /\ Len(delivered') = Len(delivered) + 1
  <2>1. [req |-> Front(q).req, buf |-> Front(q).buf] \in [req : Chunk, buf : Chunk]
    BY <1>1
  <2> QED
    BY <2>1, AppendProperties DEF ReturnBuffer, TypeOK
<1>3. q' = [slots |-> [q.slots EXCEPT ![q.tail].isPending = FALSE],
            head |-> q.head, tail |-> Advance(q.tail),
            pendingCount |-> q.pendingCount - 1]
  BY DEF ReturnBuffer, PopFront, TypeOK, Queue
<1>4. q.pendingCount - 1 \in 0 .. Depth
  BY <1>1, RingFacts
<1>5. Advance(q.tail) \in Index /\ Advance(q.tail) = Len(delivered') % Depth
  <2>1. Advance(q.tail) = Len(delivered') % Depth
    BY <1>2, ModStep, RingFacts DEF Advance, InRing
  <2>2. Len(delivered') \in Nat
    BY <1>2, RingFacts
  <2> QED
    BY <2>1, <2>2, DivMod DEF Index
<1>6. q' \in Queue(Chunk, Chunk)
  <2>1. [q.slots EXCEPT ![q.tail].isPending = FALSE] \in [Index -> Slot(Chunk, Chunk)]
    BY RingFacts DEF Slot
  <2> QED
    BY <1>3, <1>4, <1>5, <2>1, RingFacts DEF Queue
<1>7. ASSUME NEW n \in Len(delivered') + 1 .. Len(accepted')
      PROVE  LET t == q'.slots[(n - 1) % Depth]
             IN t.isPending /\ t.req = accepted'[n] /\ (t.io = "ok" => t.buf = t.req)
  <2>1. n \in Numbers /\ SlotAt(n) \in Index /\ accepted' = accepted
    BY <1>2, RingFacts DEF Numbers, ReturnBuffer
  <2>2. SlotAt(n) # q.tail
    <3>1. /\ f - 1 \in Nat /\ n - 1 \in Nat /\ f - 1 < n - 1 /\ (n - 1) - (f - 1) < Depth
      BY <1>2, <2>1, RingFacts DEF Numbers
    <3> QED
      BY <1>1, <3>1, ModDistinct DEF SlotAt
  <2>3. q'.slots[SlotAt(n)] = q.slots[SlotAt(n)]
    BY <1>3, <2>1, <2>2, RingFacts
  <2> QED
    BY <2>1, <2>3 DEF InRing, SlotAt, Numbers
<1>8. Len(accepted') = Len(delivered') + q'.pendingCount /\ accepted' = accepted
  BY <1>2, <1>3, RingFacts DEF ReturnBuffer
<1> QED
  BY <1>2, <1>3, <1>5, <1>6, <1>7, <1>8 DEF InRing

\* A completion changes a slot that no data had arrived in. (GetOverlappedResult)
LEMMA ReadDoneRing ==
  ASSUME TypeOK, InRing, NEW i \in Index, ReadDone(i)
  PROVE  /\ q' \in Queue(Chunk, Chunk) /\ InRing'
         /\ q'.pendingCount = q.pendingCount /\ q'.tail = q.tail
         /\ FrontIs(q, "ok") => Front(q)' = Front(q)
<1>1. PICK result \in Results, b \in {q.slots[i].req, None} :
        /\ q' = CompleteIo(q, i, result, b)
        /\ result = "ok" => b = q.slots[i].req
  BY DEF ReadDone, Results
<1> DEFINE s == [q.slots[i] EXCEPT !.io = result, !.buf = b]
<1>2. s \in Slot(Chunk, Chunk)
  BY RingFacts DEF Slot, IoStates
<1>3. q' = [q EXCEPT !.slots = [q.slots EXCEPT ![i] = s]]
  BY <1>1, RingFacts DEF CompleteIo, TypeOK, Queue, Slot
<1>4. /\ s.io = result /\ s.buf = b /\ s.req = q.slots[i].req
      /\ s.isPending = q.slots[i].isPending
  BY RingFacts DEF Slot
<1> HIDE DEF s
<1>5. /\ q'.slots = [q.slots EXCEPT ![i] = s]
      /\ q'.head = q.head /\ q'.tail = q.tail /\ q'.pendingCount = q.pendingCount
  BY <1>3 DEF TypeOK, Queue
<1>6. q' \in Queue(Chunk, Chunk)
  BY <1>2, <1>3, <1>5, RingFacts DEF TypeOK, Queue
<1>7. /\ q'.slots[i] = s
      /\ \A j \in Index \ {i} : q'.slots[j] = q.slots[j]
  BY <1>5, RingFacts
<1>8. UNCHANGED <<accepted, delivered>> /\ q.slots[i].io = "inflight"
  BY DEF ReadDone, InFlight, history
<1>9. ASSUME NEW n \in Numbers
      PROVE  LET t == q'.slots[SlotAt(n)]
             IN t.isPending /\ t.req = accepted[n] /\ (t.io = "ok" => t.buf = accepted[n])
  <2>1. /\ SlotAt(n) \in Index
        /\ LET t == q.slots[SlotAt(n)]
           IN t.isPending /\ t.req = accepted[n] /\ (t.io = "ok" => t.buf = t.req)
    BY RingFacts DEF InRing, SlotAt, Numbers
  <2>2. CASE SlotAt(n) = i
    BY <1>1, <1>4, <1>7, <2>1, <2>2
  <2>3. CASE SlotAt(n) # i
    BY <1>7, <2>1, <2>3
  <2> QED
    BY <2>2, <2>3
<1>10. InRing'
  BY <1>5, <1>8, <1>9 DEF InRing, SlotAt, Numbers
<1>11. FrontIs(q, "ok") => Front(q)' = Front(q)
  BY <1>5, <1>7, <1>8, RingFacts DEF FrontIs, Front
<1> QED
  BY <1>5, <1>6, <1>10, <1>11

\* A read that cannot be issued zeroes a buffer that is not in use.
\* (try_push_back, ReadFile failing)
LEMMA ThrowRing ==
  ASSUME TypeOK, InRing, PushThrows
  PROVE  /\ q' \in Queue(Chunk, Chunk) /\ InRing'
         /\ q'.pendingCount = q.pendingCount /\ q'.tail = q.tail
         /\ ~IsEmpty(q) => Front(q)' = Front(q)
<1>1. /\ q' = [q EXCEPT !.slots = [q.slots EXCEPT ![q.head] =
                [q.slots[q.head] EXCEPT !.buf = None]]]
      /\ UNCHANGED <<accepted, delivered>>
      /\ ~IsFull(q)
  BY RingFacts DEF PushThrows, TypeOK, Queue, Slot, history
<1>2. /\ \A j \in Index \ {q.head} : q'.slots[j] = q.slots[j]
      /\ q'.head = q.head /\ q'.tail = q.tail /\ q'.pendingCount = q.pendingCount
  BY <1>1, RingFacts DEF TypeOK, Queue
<1>3. q' \in Queue(Chunk, Chunk)
  <2> DEFINE s == [q.slots[q.head] EXCEPT !.buf = None]
  <2>1. s \in Slot(Chunk, Chunk)
    BY RingFacts DEF Slot
  <2>2. [q.slots EXCEPT ![q.head] = s] \in [Index -> Slot(Chunk, Chunk)]
    BY <2>1, RingFacts
  <2>3. q' = [q EXCEPT !.slots = [q.slots EXCEPT ![q.head] = s]]
    BY <1>1
  <2> HIDE DEF s
  <2> QED
    BY <2>2, <2>3 DEF TypeOK, Queue
<1>4. ASSUME NEW n \in Numbers
      PROVE  q'.slots[SlotAt(n)] = q.slots[SlotAt(n)]
  <2>1. SlotAt(n) # q.head
    BY <1>1, HeadIsFree
  <2>2. SlotAt(n) \in Index
    BY RingFacts
  <2> QED
    BY <1>2, <2>1, <2>2
<1>5. InRing'
  BY <1>1, <1>2, <1>4 DEF InRing, SlotAt, Numbers
<1>6. ~IsEmpty(q) => Front(q)' = Front(q)
  BY <1>2, <1>4, FrontIsNext DEF Front
<1> QED
  BY <1>2, <1>3, <1>5, <1>6

-----------------------------------------------------------------------------
(* Reading ahead.                                                          *)

\* One run more is its segments more. (advanceRun)
LEMMA OneMoreRun ==
  ASSUME NEW list \in Seq(Run), NEW n \in 1 .. Len(list)
  PROVE  /\ SegmentsIn(SubSeq(list, 1, n - 1)) \in Seq(Segment)
         /\ SegmentsIn(SubSeq(list, 1, n))
              = SegmentsIn(SubSeq(list, 1, n - 1)) \o SegmentsOf(list[n])
<1> DEFINE s == SubSeq(list, 1, n - 1)
           t == SubSeq(list, 1, n)
           u == Append(s, list[n])
<1>1. /\ Len(list) \in Nat /\ n - 1 \in Nat /\ n \in Nat /\ n <= Len(list)
      /\ \A k \in 1 .. Len(list) : list[k] \in Run
  BY LenProperties, ElementOfSeq
<1>2. /\ s \in Seq(Run) /\ Len(s) = n - 1 /\ \A k \in 1 .. n - 1 : s[k] = list[k]
  BY <1>1, SubSeqProperties
<1>3. /\ t \in Seq(Run) /\ Len(t) = n /\ \A k \in 1 .. n : t[k] = list[k]
  BY <1>1, SubSeqProperties
<1> HIDE DEF s, t
<1>4. /\ u \in Seq(Run) /\ Len(u) = n /\ \A k \in 1 .. n - 1 : u[k] = s[k]
      /\ u[n] = list[n]
  BY <1>1, <1>2, AppendProperties
<1> HIDE DEF u
<1>5. ASSUME NEW k \in 1 .. n
      PROVE  t[k] = u[k]
  <2>1. CASE k = n
    BY <1>3, <1>4, <2>1
  <2>2. CASE k # n
    <3>1. k \in 1 .. n - 1
      BY <1>1, <2>2
    <3> QED
      BY <1>2, <1>3, <1>4, <3>1
  <2> QED
    BY <2>1, <2>2
<1>6. t = u
  BY <1>3, <1>4, <1>5, SeqEqual
<1>7. list[n] \in Run
  BY <1>1
<1>8. /\ SegmentsIn(s) \in Seq(Segment)
      /\ SegmentsIn(Append(s, list[n])) = SegmentsIn(s) \o SegmentsOf(list[n])
  BY <1>2, <1>7, SegmentsInAppend
<1> QED
  BY <1>6, <1>8 DEF s, t, u

\* All runs of a list, and none of them.
LEMMA AllOrNone ==
  ASSUME NEW T, NEW list \in Seq(T)
  PROVE  SubSeq(list, 1, Len(list)) = list /\ SubSeq(list, 1, 0) = <<>>
<1>1. Len(list) \in Nat /\ \A k \in 1 .. Len(list) : list[k] \in T
  BY LenProperties, ElementOfSeq
<1>2. /\ SubSeq(list, 1, Len(list)) \in Seq(T)
      /\ Len(SubSeq(list, 1, Len(list))) = Len(list)
      /\ \A k \in 1 .. Len(list) : SubSeq(list, 1, Len(list))[k] = list[k]
  BY <1>1, SubSeqProperties
<1>3. SubSeq(list, 1, Len(list)) = list
  BY <1>1, <1>2, SeqEqual
<1>4. SubSeq(list, 1, 0) \in Seq(T) /\ Len(SubSeq(list, 1, 0)) = 0
  BY <1>1, SubSeqProperties
<1> QED
  BY <1>3, <1>4, EmptySeq

\* The segments of $MFT before cluster c of the run.
PassTo(c) ==
  SegmentsIn(SubSeq(runs, 1, run - 1))
    \o SegmentsOf([lcn |-> runs[run].lcn, len |-> c])

\* The runs, the segments in them and the place the next read starts at.
LEMMA RunFacts ==
  ASSUME TypeOK
  PROVE  /\ runs \in Seq(Run) /\ Len(runs) \in Nat /\ runs \in RunLists
         /\ AllSegments \in Seq(Segment) /\ Len(AllSegments) \in Nat
         /\ Len(AllSegments) <= MaxClusters * SegmentsPerCluster
         /\ cluster \in Nat
         /\ run # None => /\ run \in 1 .. Len(runs) /\ runs[run] \in Run
                          /\ runs[run].lcn \in Nat /\ runs[run].len \in Nat
<1>1. runs \in Seq(Run) /\ Len(AllSegments) <= MaxClusters * SegmentsPerCluster
      /\ runs \in RunLists /\ cluster \in Nat
  BY IteratorAssumption DEF TypeOK, AllSegments
<1>2. Len(runs) \in Nat /\ DOMAIN runs = 1 .. Len(runs)
      /\ \A k \in 1 .. Len(runs) : runs[k] \in Run
  BY <1>1, LenProperties, ElementOfSeq
<1>3. AllSegments \in Seq(Segment)
  <2>1. [lcn |-> 0, len |-> 0] \in Run
    BY DEF Run
  <2> QED
    BY <1>1, <2>1, SegmentsInAppend DEF AllSegments
<1>4. run # None => run \in 1 .. Len(runs) /\ runs[run] \in Run
  BY <1>2 DEF TypeOK
<1> QED
  BY <1>1, <1>2, <1>3, <1>4, LenProperties DEF Run

\* Four of them.
Regroups(p, a, b, t) == (p \o (a \o b)) \o t = (p \o a) \o (b \o t)

\* Two parts more, at once or one after the other.
LEMMA Regrouped ==
  ASSUME NEW T, NEW p \in Seq(T), NEW a \in Seq(T), NEW b \in Seq(T), NEW t \in Seq(T)
  PROVE  Regroups(p, a, b, t)
<1>1. p \o a \in Seq(T) /\ b \o t \in Seq(T)
  BY ConcatProperties
<1>2. p \o (a \o b) = (p \o a) \o b
  BY ConcatAssociative
<1>3. ((p \o a) \o b) \o t = (p \o a) \o (b \o t)
  BY <1>1, ConcatAssociative
<1> QED
  BY <1>1, <1>2, <1>3 DEF Regroups

\* What was passed is a beginning of $MFT, and the rest of the run is still to
\* come. (advance)
LEMMA PassedFacts ==
  ASSUME TypeOK, ReadAhead
  PROVE  /\ Passed \in Seq(Segment) /\ Len(Passed) \in Nat
         /\ \E t \in Seq(Segment) : AllSegments = Passed \o t
         /\ run # None =>
              /\ cluster * SegmentsPerCluster <= Len(Passed)
              /\ Len(Passed) + ((runs[run].len - cluster) * SegmentsPerCluster)
                   <= Len(AllSegments)
<1>1. CASE run = None
  <2>1. Passed = AllSegments
    BY <1>1 DEF Passed
  <2>2. AllSegments = AllSegments \o <<>> /\ <<>> \in Seq(Segment)
    BY RunFacts, ConcatEmptySeq, EmptySeq
  <2> QED
    BY <1>1, <2>1, <2>2, RunFacts
<1>2. CASE run # None
  <2> DEFINE r == runs[run]
             pre == SegmentsIn(SubSeq(runs, 1, run - 1))
             a == SegmentsOf([lcn |-> r.lcn, len |-> cluster])
             b == SegmentsOf([lcn |-> r.lcn + cluster, len |-> r.len - cluster])
  <2>1. /\ run \in 1 .. Len(runs) /\ r \in Run /\ r.lcn \in Nat /\ r.len \in Nat
        /\ cluster \in Nat /\ r.len - cluster \in Nat
    BY <1>2, RunFacts DEF ReadAhead
  <2>2. /\ pre \in Seq(Segment)
        /\ SegmentsIn(SubSeq(runs, 1, run)) = pre \o SegmentsOf(r)
    BY <2>1, RunFacts, OneMoreRun
  <2>3. PICK t \in Seq(Segment) : AllSegments = SegmentsIn(SubSeq(runs, 1, run)) \o t
    <3>1. run \in 0 .. Len(runs) /\ runs \in Seq(Run)
      BY <2>1, RunFacts
    <3> QED
      BY <3>1, SegmentsInPrefix DEF AllSegments
  <2>4. SegmentsOf(r) = a \o b
    <3>1. r = [lcn |-> r.lcn, len |-> cluster + (r.len - cluster)]
      BY <2>1 DEF Run
    <3> HIDE DEF r
    <3>2. SegmentsOf([lcn |-> r.lcn, len |-> cluster + (r.len - cluster)]) = a \o b
      BY <2>1, RunInParts
    <3> QED
      BY <3>1, <3>2
  <2>5. /\ a \in Seq(Segment) /\ Len(a) = cluster * SegmentsPerCluster
        /\ b \in Seq(Segment) /\ Len(b) = (r.len - cluster) * SegmentsPerCluster
    <3>1. /\ [lcn |-> r.lcn, len |-> cluster] \in Run
          /\ [lcn |-> r.lcn + cluster, len |-> r.len - cluster] \in Run
      BY <2>1 DEF Run
    <3> QED
      BY <3>1, RunSegments
  <2>6. Passed = pre \o a
    BY <1>2 DEF Passed
  <2> HIDE DEF pre, a, b
  <2>7. /\ pre \o a \in Seq(Segment) /\ b \o t \in Seq(Segment)
        /\ (pre \o (a \o b)) \o t = (pre \o a) \o (b \o t)
    <3>1. pre \in Seq(Segment) /\ a \in Seq(Segment) /\ b \in Seq(Segment)
      BY <2>2, <2>5
    <3>2. Regroups(pre, a, b, t)
      BY <2>3, <3>1, Regrouped
    <3>3. pre \o a \in Seq(Segment) /\ b \o t \in Seq(Segment)
      BY <2>3, <3>1, ConcatProperties
    <3> QED
      BY <3>2, <3>3 DEF Regroups
  <2>8. AllSegments = Passed \o (b \o t)
    BY <2>2, <2>3, <2>4, <2>6, <2>7
  <2>9. /\ Len(pre) \in Nat /\ Len(a) \in Nat /\ Len(b) \in Nat /\ Len(t) \in Nat
        /\ Len(Passed) = Len(pre) + Len(a)
        /\ Len(AllSegments) = Len(Passed) + Len(b) + Len(t)
    <3>1. Len(b \o t) = Len(b) + Len(t)
      BY <2>3, <2>5, ConcatProperties
    <3>2. Len(Passed \o (b \o t)) = Len(Passed) + Len(b \o t)
      BY <2>6, <2>7, ConcatProperties
    <3>3. Len(pre \o a) = Len(pre) + Len(a)
      BY <2>2, <2>5, ConcatProperties
    <3> HIDE DEF r
    <3>4. /\ Len(pre) \in Nat /\ Len(a) \in Nat /\ Len(b) \in Nat /\ Len(t) \in Nat
      BY <2>2, <2>3, <2>5, LenProperties
    <3> QED
      BY <2>6, <2>8, <3>1, <3>2, <3>3, <3>4
  <2> HIDE DEF r
  <2>10. /\ cluster * SegmentsPerCluster <= Len(Passed)
         /\ Len(Passed) + ((r.len - cluster) * SegmentsPerCluster) <= Len(AllSegments)
         /\ Len(Passed) \in Nat
    BY <2>5, <2>9
  <2> QED
    BY <2>6, <2>7, <2>8, <2>10 DEF r
<1> QED
  BY <1>1, <1>2

\* Going on to cluster c of the run passes what is before it, in the next run
\* too. (advance, advanceRun, openRun)
LEMMA MoveStep ==
  ASSUME TypeOK, run # None, NEW c \in Nat, c <= runs[run].len, MoveTo(c),
         UNCHANGED runs
  PROVE  /\ Passed' = PassTo(c)
         /\ run' \in DOMAIN runs \cup {None} /\ cluster' \in Nat
         /\ run' # None => cluster' <= runs'[run'].len
<1> DEFINE r == runs[run]
<1>1. /\ run \in 1 .. Len(runs) /\ r \in Run /\ r.lcn \in Nat /\ r.len \in Nat
      /\ DOMAIN runs = 1 .. Len(runs) /\ Len(runs) \in Nat /\ runs \in Seq(Run)
  BY RunFacts, LenProperties
<1>2. CASE c < r.len
  <2>1. cluster' = c /\ run' = run
    BY <1>2 DEF MoveTo
  <2> QED
    BY <1>1, <1>2, <2>1 DEF Passed, PassTo
<1>3. CASE c = r.len
  <2>1. PassTo(c) = SegmentsIn(SubSeq(runs, 1, run))
    <3>1. [lcn |-> r.lcn, len |-> c] = r
      BY <1>1, <1>3 DEF Run
    <3> QED
      BY <1>1, <3>1, OneMoreRun DEF PassTo
  <2>2. cluster' = 0 /\ run' = IF run < Len(runs) THEN run + 1 ELSE None
    BY <1>1, <1>3 DEF MoveTo
  <2>3. CASE run < Len(runs)
    <3>1. run' = run + 1 /\ run' # None /\ run' \in 1 .. Len(runs)
      BY <1>1, <2>2, <2>3, Sizes
    <3>2. runs[run'] \in Run /\ runs[run'].lcn \in Nat /\ runs[run'].len \in Nat
      <4>1. runs[run'] \in Run
        BY <1>1, <3>1, ElementOfSeq
      <4> QED
        BY <4>1 DEF Run
    <3>3. SegmentsOf([lcn |-> runs[run'].lcn, len |-> 0]) = <<>>
      <4>1. [lcn |-> runs[run'].lcn, len |-> 0] \in Run
        BY <3>2 DEF Run
      <4>2. /\ SegmentsOf([lcn |-> runs[run'].lcn, len |-> 0]) \in Seq(Segment)
            /\ Len(SegmentsOf([lcn |-> runs[run'].lcn, len |-> 0]))
                 = 0 * SegmentsPerCluster
        BY <4>1, RunSegments
      <4> QED
        BY <4>2, EmptySeq, Sizes
    <3>4. run' - 1 = run
      BY <1>1, <3>1
    <3>5. Passed' = SegmentsIn(SubSeq(runs, 1, run)) \o <<>>
      BY <2>2, <3>1, <3>3, <3>4 DEF Passed
    <3>6. SegmentsIn(SubSeq(runs, 1, run)) \in Seq(Segment)
      <4>1. \A k \in 1 .. Len(runs) : runs[k] \in Run
        BY <1>1, ElementOfSeq
      <4>2. SubSeq(runs, 1, run) \in Seq(Run)
        BY <1>1, <4>1, SubSeqProperties
      <4> QED
        BY <1>1, <4>2, SegmentsInAppend
    <3>7. SegmentsIn(SubSeq(runs, 1, run)) \o <<>> = SegmentsIn(SubSeq(runs, 1, run))
      BY <3>6, ConcatEmptySeq
    <3> QED
      BY <1>1, <2>1, <2>2, <3>1, <3>2, <3>5, <3>7
  <2>4. CASE ~ (run < Len(runs))
    <3>1. run = Len(runs) /\ run' = None
      <4>1. run \in 1 .. Len(runs) /\ Len(runs) \in Nat
        BY <1>1
      <4>2. run' = None
        BY <2>2, <2>4
      <4> QED
        BY <2>4, <4>1, <4>2
    <3>2. SubSeq(runs, 1, run) = runs
      BY <1>1, <3>1, AllOrNone
    <3> QED
      BY <2>1, <2>2, <3>1, <3>2 DEF Passed, AllSegments
  <2> QED
    BY <2>3, <2>4
<1> QED
  BY <1>1, <1>2, <1>3

\* What is pushed next is what may be asked for, it is in the run, and there is
\* room for it in the bound on the number of reads. (advance)
LEMMA NextRead ==
  ASSUME TypeOK, ReadAhead, run # None, NextLen > 0
  PROVE  /\ NextChunk \in Chunk /\ NextLen \in Nat \ {0}
         /\ cluster + NextLen <= runs[run].len
         /\ Len(accepted) < MaxClusters
<1> DEFINE S == SegmentsPerCluster
           p == Len(Passed)
           a == Len(accepted)
<1>1. /\ run \in 1 .. Len(runs) /\ runs[run] \in Run /\ runs[run].lcn \in Nat
      /\ runs[run].len \in Nat /\ cluster \in Nat /\ cluster <= runs[run].len
      /\ runs \in Seq(Run) /\ runs \in RunLists
  BY RunFacts DEF ReadAhead
<1>2. NextLen \in 1 .. BatchLen /\ cluster + NextLen <= runs[run].len
  BY <1>1, Sizes DEF NextLen
<1>3. /\ p \in Nat /\ cluster * S <= p /\ a \in Nat /\ a * S <= p
      /\ p + ((runs[run].len - cluster) * S) <= MaxClusters * S
  <2>1. /\ p \in Nat /\ cluster * S <= p
        /\ p + ((runs[run].len - cluster) * S) <= Len(AllSegments)
    BY PassedFacts
  <2>2. a \in Nat /\ a * S <= p
    BY LenProperties DEF ReadAhead, TypeOK
  <2>3. /\ Len(AllSegments) \in Nat /\ Len(AllSegments) <= MaxClusters * S
        /\ (runs[run].len - cluster) * S \in Nat /\ MaxClusters * S \in Nat
    <3>1. runs[run].len - cluster \in Nat
      BY <1>1
    <3> QED
      BY <3>1, RunFacts, Sizes
  <2> HIDE DEF p, a, S
  <2> QED
    BY <2>1, <2>2, <2>3
<1>4. /\ S \in Nat /\ S > 0 /\ S <= (runs[run].len - cluster) * S
      /\ a * S \in Nat /\ cluster * S \in Nat /\ MaxClusters * S \in Nat
  <2>1. runs[run].len - cluster \in Nat /\ 1 <= runs[run].len - cluster
    BY <1>1, <1>2
  <2>2. 1 * S <= (runs[run].len - cluster) * S
    BY <2>1, Sizes
  <2>3. 1 * S = S
    BY Sizes
  <2> QED
    BY <1>1, <1>3, <2>2, <2>3, Sizes
<1>5. ASSUME NEW k \in Nat, k * S <= p
      PROVE  k < MaxClusters
  <2>1. SUFFICES ASSUME MaxClusters <= k
                 PROVE  FALSE
    BY Sizes
  <2>2. MaxClusters * S <= k * S /\ k * S \in Nat
    BY <2>1, Sizes
  <2>3. (runs[run].len - cluster) * S \in Nat
    BY <1>1, Sizes
  <2> HIDE DEF p, S
  <2> QED
    BY <1>3, <1>4, <1>5, <2>2, <2>3
<1>6. a < MaxClusters /\ cluster < MaxClusters
  BY <1>1, <1>3, <1>5
<1>7. NextChunk \in Chunk
  <2>1. runs[run] \in SX!ToSet(runs)
    BY <1>1 DEF SX!ToSet
  <2>2. runs[run].lcn + cluster \in runs[run].lcn .. runs[run].lcn + MaxClusters
    BY <1>1, <1>6, Sizes
  <2>3. NextChunk \in [lcn : runs[run].lcn .. runs[run].lcn + MaxClusters,
                       len : 1 .. BatchLen]
    BY <1>2, <2>2 DEF NextChunk
  <2> QED
    BY <1>1, <2>1, <2>3 DEF Chunk
<1> QED
  BY <1>2, <1>6, <1>7

\* One read more is its clusters more. (advance)
LEMMA PassedNext ==
  ASSUME TypeOK, ReadAhead, run # None, NEW k \in Nat
  PROVE  PassTo(cluster + k)
           = Passed \o SegmentsOf([lcn |-> runs[run].lcn + cluster, len |-> k])
<1> DEFINE l == runs[run].lcn
           pre == SegmentsIn(SubSeq(runs, 1, run - 1))
           a == SegmentsOf([lcn |-> l, len |-> cluster])
           b == SegmentsOf([lcn |-> l + cluster, len |-> k])
<1>1. l \in Nat /\ cluster \in Nat /\ run \in 1 .. Len(runs) /\ runs \in Seq(Run)
  BY RunFacts
<1>2. SegmentsOf([lcn |-> l, len |-> cluster + k]) = a \o b
  <2> HIDE DEF l
  <2> QED
    BY <1>1, RunInParts
<1>3. pre \in Seq(Segment) /\ a \in Seq(Segment) /\ b \in Seq(Segment)
  <2>1. /\ [lcn |-> l, len |-> cluster] \in Run
        /\ [lcn |-> l + cluster, len |-> k] \in Run
    BY <1>1 DEF Run
  <2>2. a \in Seq(Segment) /\ b \in Seq(Segment)
    BY <2>1, RunSegments
  <2>3. pre \in Seq(Segment)
    BY <1>1, OneMoreRun
  <2> QED
    BY <2>2, <2>3
<1>4. Passed = pre \o a
  BY DEF Passed
<1>5. PassTo(cluster + k) = pre \o (a \o b)
  BY <1>2 DEF PassTo
<1> HIDE DEF pre, a, b
<1>6. pre \o (a \o b) = (pre \o a) \o b
  <2>1. Associates(pre, a, b)
    BY <1>3, Associative
  <2> QED
    BY <2>1 DEF Associates
<1>7. PassTo(cluster + k) = Passed \o b
  BY <1>4, <1>5, <1>6
<1> QED
  BY <1>7 DEF b

-----------------------------------------------------------------------------
(* The segments looked at.                                                 *)

\* How many segments the first n reads have.
Base(n) == Len(SegmentsIn(SubSeq(accepted, 1, n)))

\* The reads pushed are runs of clusters.
LEMMA ReadsAreRuns ==
  ASSUME TypeOK
  PROVE  /\ accepted \in Seq(Run) /\ Len(accepted) \in Nat
         /\ \A n \in 1 .. Len(accepted) : accepted[n] \in Chunk
<1>1. accepted \in Seq(Chunk) /\ Len(accepted) \in Nat
      /\ \A n \in 1 .. Len(accepted) : accepted[n] \in Chunk
  BY LenProperties, ElementOfSeq DEF TypeOK
<1>2. \A n \in 1 .. Len(accepted) : accepted[n] \in Run
  BY <1>1, ChunkIsRun
<1>3. accepted \in [1 .. Len(accepted) -> Run]
  BY <1>1, <1>2, LenProperties
<1> QED
  BY <1>1, <1>3, IsASeq

\* The first reads have the first segments of $MFT.
LEMMA BaseFacts ==
  ASSUME TypeOK, ReadAhead, NEW n \in 0 .. Len(accepted)
  PROVE  Base(n) \in 0 .. Len(AllSegments)
<1> DEFINE b == SegmentsIn(SubSeq(accepted, 1, n))
<1>1. PICK t \in Seq(Segment) : SegmentsIn(accepted) = b \o t
  BY ReadsAreRuns, SegmentsInPrefix
<1>2. PICK u \in Seq(Segment) : AllSegments = SegmentsIn(accepted) \o u
  BY PassedFacts DEF ReadAhead
<1>3. b \in Seq(Segment) /\ SegmentsIn(accepted) \in Seq(Segment)
  <2>1. /\ accepted \in Seq(Run) /\ Len(accepted) \in Nat
        /\ \A k \in 1 .. Len(accepted) : accepted[k] \in Run
    BY ReadsAreRuns, ElementOfSeq
  <2>2. SubSeq(accepted, 1, n) \in Seq(Run)
    BY <2>1, SubSeqProperties
  <2>3. [lcn |-> 0, len |-> 0] \in Run
    BY DEF Run
  <2> QED
    BY <2>1, <2>2, <2>3, SegmentsInAppend
<1> HIDE DEF b
<1>4. Len(SegmentsIn(accepted)) = Len(b) + Len(t)
  BY <1>1, <1>3, ConcatProperties
<1>5. Len(AllSegments) = Len(SegmentsIn(accepted)) + Len(u)
  BY <1>2, <1>3, ConcatProperties
<1>6. Len(b) \in Nat /\ Len(t) \in Nat /\ Len(u) \in Nat
  BY <1>1, <1>2, <1>3, LenProperties
<1>7. Len(b) \in 0 .. Len(AllSegments)
  BY <1>4, <1>5, <1>6
<1> QED
  BY <1>7 DEF Base, b

\* The segments of a read are those of $MFT from where the reads before it end.
LEMMA ReadSegments ==
  ASSUME TypeOK, ReadAhead, NEW n \in 1 .. Len(accepted)
  PROVE  LET size == accepted[n].len * SegmentsPerCluster
         IN /\ Base(n) = Base(n - 1) + size
            /\ Base(n - 1) \in Nat /\ size \in Nat
            /\ Base(n) <= Len(AllSegments)
            /\ \A k \in 1 .. size :
                 AllSegments[Base(n - 1) + k] = SegmentOf(accepted[n], k - 1)
<1> DEFINE size == accepted[n].len * SegmentsPerCluster
           pre == SegmentsIn(SubSeq(accepted, 1, n - 1))
           c == SegmentsOf(accepted[n])
           all == SegmentsIn(accepted)
<1>1. /\ accepted \in Seq(Run) /\ Len(accepted) \in Nat
      /\ accepted[n] \in Run /\ accepted[n].len \in Nat
  <2>1. accepted[n] \in Run
    BY ReadsAreRuns, ChunkIsRun
  <2> QED
    BY <2>1, ReadsAreRuns DEF Run
<1>2. /\ c \in Seq(Segment) /\ Len(c) = size /\ size \in Nat
      /\ \A k \in 1 .. size : c[k] = SegmentOf(accepted[n], k - 1)
  BY <1>1, RunSegments, Sizes
<1>3. /\ pre \in Seq(Segment) /\ Len(pre) \in Nat
      /\ SegmentsIn(SubSeq(accepted, 1, n)) = pre \o c
  BY <1>1, OneMoreRun, LenProperties
<1>4. PICK t \in Seq(Segment) : all = SegmentsIn(SubSeq(accepted, 1, n)) \o t
  <2>1. n \in 0 .. Len(accepted)
    BY <1>1
  <2> QED
    BY <1>1, <2>1, SegmentsInPrefix
<1>5. PICK u \in Seq(Segment) : AllSegments = all \o u
  BY PassedFacts DEF ReadAhead
<1> HIDE DEF pre, c, all, size
<1>6. /\ pre \o c \in Seq(Segment) /\ Len(pre \o c) = Len(pre) + size
      /\ \A k \in 1 .. size : (pre \o c)[Len(pre) + k] = c[k]
  <2>1. /\ pre \o c \in Seq(Segment) /\ Len(pre \o c) = Len(pre) + size
        /\ \A i \in 1 .. Len(pre) + size :
             (pre \o c)[i] = IF i <= Len(pre) THEN pre[i] ELSE c[i - Len(pre)]
    BY <1>2, <1>3, ConcatProperties
  <2>2. ASSUME NEW k \in 1 .. size
        PROVE  (pre \o c)[Len(pre) + k] = c[k]
    <3>1. /\ Len(pre) + k \in 1 .. Len(pre) + size /\ ~ (Len(pre) + k <= Len(pre))
          /\ (Len(pre) + k) - Len(pre) = k
      BY <1>2, <1>3
    <3> QED
      BY <2>1, <3>1
  <2> QED
    BY <2>1, <2>2
<1> DEFINE w == pre \o c
<1>7. w \in Seq(Segment) /\ Len(w) = Len(pre) + size /\ all = w \o t
  BY <1>3, <1>4, <1>6
<1> HIDE DEF w
<1>8. /\ all \in Seq(Segment) /\ Len(all) = Len(w) + Len(t) /\ Len(t) \in Nat
      /\ Len(w) \in Nat
      /\ \A k \in 1 .. Len(w) : all[k] = w[k]
  <2>1. Len(w) \in Nat /\ Len(t) \in Nat
    BY <1>4, <1>7, LenProperties
  <2>2. /\ all \in Seq(Segment) /\ Len(all) = Len(w) + Len(t)
        /\ \A k \in 1 .. Len(w) + Len(t) :
             all[k] = IF k <= Len(w) THEN w[k] ELSE t[k - Len(w)]
    BY <1>4, <1>7, ConcatProperties
  <2>3. \A k \in 1 .. Len(w) : k \in 1 .. Len(w) + Len(t) /\ k <= Len(w)
    BY <2>1
  <2> QED
    BY <2>1, <2>2, <2>3
<1>9. /\ Len(AllSegments) = Len(all) + Len(u) /\ Len(u) \in Nat /\ Len(all) \in Nat
      /\ \A k \in 1 .. Len(all) : AllSegments[k] = all[k]
  <2>1. Len(all) \in Nat /\ Len(u) \in Nat
    BY <1>5, <1>8, LenProperties
  <2>2. /\ Len(AllSegments) = Len(all) + Len(u)
        /\ \A k \in 1 .. Len(all) + Len(u) :
             AllSegments[k] = IF k <= Len(all) THEN all[k] ELSE u[k - Len(all)]
    BY <1>5, <1>8, ConcatProperties
  <2>3. \A k \in 1 .. Len(all) : k \in 1 .. Len(all) + Len(u) /\ k <= Len(all)
    BY <2>1
  <2> QED
    BY <2>1, <2>2, <2>3
<1>10. ASSUME NEW k \in 1 .. size
       PROVE  AllSegments[Len(pre) + k] = SegmentOf(accepted[n], k - 1)
  <2>1. /\ Len(pre) + k \in 1 .. Len(w) /\ Len(pre) + k \in 1 .. Len(all)
    BY <1>2, <1>3, <1>7, <1>8
  <2>2. AllSegments[Len(pre) + k] = w[Len(pre) + k]
    BY <1>8, <1>9, <2>1
  <2> QED
    BY <1>2, <1>6, <2>2 DEF w
<1>11. Len(pre) + size <= Len(AllSegments)
  BY <1>2, <1>3, <1>7, <1>8, <1>9
<1>12. Base(n - 1) = Len(pre) /\ Base(n) = Len(pre) + size
  BY <1>3, <1>6 DEF Base, pre
<1> QED
  BY <1>2, <1>3, <1>10, <1>11, <1>12 DEF size

\* What the lent buffer holds: the segments of the first read not returned.
\* (finalize_front, readCurrent)
LEMMA LentSegments ==
  ASSUME TypeOK, InRing, OnLentBuffer, ReadAhead, seg # 0
  PROVE  /\ Len(delivered) + 1 \in 1 .. Len(accepted)
         /\ Base(Len(delivered) + 1) = Base(Len(delivered)) + seg + left
         /\ Base(Len(delivered)) \in Nat
         /\ Base(Len(delivered) + 1) <= Len(AllSegments)
         /\ Current = AllSegments[Base(Len(delivered)) + seg]
         /\ Current \in Segment
<1> DEFINE n == Len(delivered) + 1
           size == accepted[n].len * SegmentsPerCluster
<1>1. /\ n \in Numbers /\ Front(q).req = accepted[n] /\ Front(q).buf = accepted[n]
      /\ seg + left = size
  BY FrontIsNext DEF OnLentBuffer, FrontIs
<1>2. n \in 1 .. Len(accepted) /\ n - 1 = Len(delivered)
  BY <1>1, RingFacts DEF Numbers
<1>3. /\ Base(n) = Base(n - 1) + size
      /\ Base(n - 1) \in Nat /\ size \in Nat
      /\ Base(n) <= Len(AllSegments)
      /\ \A k \in 1 .. size : AllSegments[Base(n - 1) + k] = SegmentOf(accepted[n], k - 1)
  BY <1>2, ReadSegments
<1>4. seg \in Nat /\ left \in Nat /\ seg \in 1 .. size
  <2>1. seg \in Nat /\ left \in Nat
    BY Sizes DEF TypeOK
  <2> HIDE DEF size
  <2> QED
    BY <1>1, <1>3, <2>1
<1>5. Current = AllSegments[Base(n - 1) + seg]
  BY <1>1, <1>3, <1>4 DEF Current
<1>6. Current \in Segment
  <2>1. Base(n - 1) + seg \in 1 .. Len(AllSegments)
    <3> HIDE DEF n, size
    <3>1. Base(n - 1) + seg <= Base(n) /\ Len(AllSegments) \in Nat
      BY <1>1, <1>3, <1>4, RunFacts
    <3> QED
      BY <1>3, <1>4, <3>1
  <2> QED
    BY <1>5, <2>1, RunFacts, ElementOfSeq
<1>7. Base(n) = Base(n - 1) + seg + left
  <2> HIDE DEF n, size
  <2> QED
    BY <1>1, <1>3, <1>4
<1> QED
  BY <1>2, <1>3, <1>5, <1>6, <1>7

\* The segments looked at are in $MFT.
LEMMA LookedAtFacts ==
  ASSUME TypeOK, InRing, OnLentBuffer, ReadAhead
  PROVE  LookedAt \in 0 .. Len(AllSegments)
<1>1. CASE seg = 0
  <2>1. LookedAt = Base(Len(delivered)) + 0
    BY <1>1 DEF LookedAt, Base
  <2>2. Len(delivered) \in 0 .. Len(accepted)
    BY RingFacts
  <2> QED
    BY <2>1, <2>2, BaseFacts
<1>2. CASE seg # 0
  <2> DEFINE b == Base(Len(delivered))
             e == Base(Len(delivered) + 1)
  <2>1. e = b + seg + left /\ b \in Nat /\ e <= Len(AllSegments)
    BY <1>2, LentSegments
  <2>2. seg \in Nat \ {0} /\ left \in Nat /\ Len(AllSegments) \in Nat
    BY <1>2, Sizes, RunFacts DEF TypeOK
  <2>3. LookedAt = b + seg \/ LookedAt = b + (seg - 1)
    BY DEF LookedAt, Base
  <2> HIDE DEF b, e
  <2> QED
    BY <2>1, <2>2, <2>3
<1> QED
  BY <1>1, <1>2

\* What was handed out is in step with $MFT.
LEMMA WalkedInStep ==
  ASSUME TypeOK, InRing, OnLentBuffer, ReadAhead, Walked
  PROVE  InStep
<1> DEFINE l == LookedAt
           s == SubSeq(AllSegments, 1, l)
           t == SubSeq(AllSegments, l + 1, Len(AllSegments))
<1>1. /\ l \in 0 .. Len(AllSegments) /\ AllSegments \in Seq(Segment)
      /\ Len(AllSegments) \in Nat
      /\ \A k \in 1 .. Len(AllSegments) : AllSegments[k] \in Segment
  BY LookedAtFacts, RunFacts, ElementOfSeq
<1> HIDE DEF l
<1>2. /\ s \in Seq(Segment) /\ Len(s) = l
      /\ \A k \in 1 .. l : s[k] = AllSegments[k]
  BY <1>1, SubSeqProperties
<1>3. /\ t \in Seq(Segment) /\ Len(t) = Len(AllSegments) - l
      /\ \A k \in 1 .. Len(AllSegments) - l : t[k] = AllSegments[l + k]
  <2>1. ASSUME NEW k \in 1 .. Len(AllSegments) - l
        PROVE  t[k] = AllSegments[l + k]
    BY <1>1, SubSeqProperties
  <2>2. t \in Seq(Segment) /\ Len(t) = Len(AllSegments) - l
    BY <1>1, SubSeqProperties
  <2> QED
    BY <2>1, <2>2
<1> HIDE DEF s, t
<1> DEFINE w == s \o t
<1>4. /\ w \in Seq(Segment) /\ Len(w) = Len(AllSegments)
      /\ \A k \in 1 .. Len(AllSegments) :
           w[k] = IF k <= l THEN s[k] ELSE t[k - l]
  <2>1. /\ w \in Seq(Segment) /\ Len(w) = Len(s) + Len(t)
        /\ \A k \in 1 .. Len(s) + Len(t) :
             w[k] = IF k <= Len(s) THEN s[k] ELSE t[k - Len(s)]
    BY <1>2, <1>3, ConcatProperties
  <2>2. Len(s) + Len(t) = Len(AllSegments)
    BY <1>1, <1>2, <1>3
  <2> QED
    BY <1>2, <2>1, <2>2
<1> HIDE DEF w
<1>5. ASSUME NEW k \in 1 .. Len(AllSegments)
      PROVE  w[k] = AllSegments[k]
  <2>1. CASE k <= l
    BY <1>1, <1>2, <1>4, <2>1
  <2>2. CASE ~ (k <= l)
    <3>1. k - l \in 1 .. Len(AllSegments) - l /\ l + (k - l) = k
      BY <1>1, <2>2
    <3> QED
      BY <1>3, <1>4, <2>2, <3>1
  <2> QED
    BY <2>1, <2>2
<1>6. w = AllSegments
  BY <1>1, <1>4, <1>5, SeqEqual
<1>7. SX!IsPrefix(Wanted(s), Wanted(s \o t))
  BY <1>2, <1>3, WantedPrefix
<1> QED
  BY <1>6, <1>7 DEF InStep, Walked, w, s, l

-----------------------------------------------------------------------------
(* The steps.                                                              *)

\* What every step of the iterator keeps: IteratorInv, but for the conjunct
\* that follows from the others.
Sound == TypeOK /\ InRing /\ OnLentBuffer /\ ReadAhead /\ Walked

\* As long as neither the place nor the clusters passed change, nothing changes
\* about what was read ahead.
LEMMA StillAhead ==
  ASSUME ReadAhead, UNCHANGED <<runs, run, cluster, accepted>>
  PROVE  ReadAhead'
BY DEF ReadAhead, Passed, AllSegments

\* As long as the number of segments looked at does not change, nothing changes
\* about what was handed out.
LEMMA StillWalked ==
  ASSUME Walked, UNCHANGED <<runs, flags, handed>>, LookedAt' = LookedAt
  PROVE  Walked'
BY DEF Walked, Wanted, AllSegments

\* Nor about the ring, as long as no call of the reader is made.
LEMMA StillInRing ==
  ASSUME InRing, UNCHANGED <<q, accepted, delivered>>
  PROVE  InRing'
BY DEF InRing

\* The next read is pushed. (advance, try_push_back)
LEMMA PushHolds ==
  ASSUME Sound, Push
  PROVE  Sound'
<1> USE DEF Sound
<1> DEFINE c == NextChunk
           k == NextLen
<1>1. /\ pc = "push" /\ run # None /\ k > 0 /\ ~IsFull(q)
      /\ q' = PushBack(q, c, None) /\ accepted' = Append(accepted, c)
      /\ MoveTo(cluster + k)
      /\ UNCHANGED <<runs, flags, seg, left, pc, delivered, handed>>
  BY DEF Push
<1>2. /\ c \in Chunk /\ k \in Nat \ {0} /\ cluster + k <= runs[run].len
      /\ cluster \in Nat /\ cluster + k \in Nat
  BY <1>1, NextRead, RunFacts
<1>3. /\ q' \in Queue(Chunk, Chunk) /\ accepted' \in Seq(Chunk) /\ InRing'
      /\ ~IsEmpty(q) => Front(q)' = Front(q) /\ ~IsEmpty(q')
  BY <1>1, <1>2, PushRing
<1>4. /\ Passed' = PassTo(cluster + k)
      /\ run' \in DOMAIN runs \cup {None} /\ cluster' \in Nat
      /\ run' # None => cluster' <= runs'[run'].len
  BY <1>1, <1>2, MoveStep
<1>5. TypeOK'
  BY <1>1, <1>3, <1>4 DEF TypeOK
<1>6. OnLentBuffer'
  <2>1. ASSUME seg # 0
        PROVE  FrontIs(q, "ok")' /\ Front(q)' = Front(q)
    BY <1>3, <2>1 DEF OnLentBuffer, FrontIs, IsEmpty
  <2> QED
    BY <1>1, <2>1 DEF OnLentBuffer
<1>7. ReadAhead'
  <2> DEFINE s == SegmentsOf(c)
             S == SegmentsPerCluster
             a == Len(accepted)
  <2>1. Passed' = Passed \o s
    BY <1>1, <1>2, <1>4, PassedNext DEF NextChunk
  <2>2. SegmentsIn(accepted') = SegmentsIn(accepted) \o s
    <3>1. c \in Run
      BY <1>2, ChunkIsRun
    <3> HIDE DEF c
    <3> QED
      BY <1>1, <3>1, ReadsAreRuns, SegmentsInAppend
  <2>3. SegmentsIn(accepted') = Passed'
    BY <2>1, <2>2 DEF ReadAhead
  <2>4. Len(Passed') = Len(Passed) + (k * S)
    <3>1. c \in Run /\ c.len = k
      BY <1>2, ChunkIsRun DEF NextChunk
    <3>2. s \in Seq(Segment) /\ Len(s) = k * S
      BY <3>1, RunSegments
    <3> HIDE DEF s, k
    <3> QED
      BY <2>1, <3>2, PassedFacts, ConcatProperties
  <2>5. Len(accepted') = a + 1 /\ a \in Nat
    BY <1>1, <1>2, ReadsAreRuns, AppendProperties
  <2>6. (a + 1) * S = (a * S) + (1 * S) /\ 1 * S <= k * S /\ a * S \in Nat
        /\ 1 * S \in Nat /\ k * S \in Nat
    BY <1>2, <2>5, Sizes
  <2>7. a * S <= Len(Passed) /\ Len(Passed) \in Nat
    BY PassedFacts DEF ReadAhead
  <2>8. Len(accepted') * S <= Len(Passed')
    <3> HIDE DEF S, a, k
    <3> QED
      BY <2>4, <2>5, <2>6, <2>7
  <2> QED
    BY <1>4, <2>3, <2>8 DEF ReadAhead
<1>8. LookedAt' = LookedAt
  <2>1. SubSeq(accepted', 1, Len(delivered)) = SubSeq(accepted, 1, Len(delivered))
    <3> DEFINE n == Len(delivered)
    <3>1. /\ n \in Nat /\ Len(accepted) \in Nat /\ n <= Len(accepted)
          /\ accepted \in Seq(Chunk)
      BY RingFacts DEF TypeOK
    <3>2. /\ accepted' \in Seq(Chunk) /\ Len(accepted') = Len(accepted) + 1
          /\ \A i \in 1 .. Len(accepted) : accepted'[i] = accepted[i]
      BY <1>1, <1>2, <3>1, AppendProperties
    <3> HIDE DEF n
    <3>3. /\ SubSeq(accepted, 1, n) \in Seq(Chunk) /\ Len(SubSeq(accepted, 1, n)) = n
          /\ \A i \in 1 .. n : SubSeq(accepted, 1, n)[i] = accepted[i]
      BY <3>1, SubSeqProperties, ElementOfSeq
    <3>4. /\ SubSeq(accepted', 1, n) \in Seq(Chunk) /\ Len(SubSeq(accepted', 1, n)) = n
          /\ \A i \in 1 .. n : SubSeq(accepted', 1, n)[i] = accepted'[i]
      BY <3>1, <3>2, SubSeqProperties, ElementOfSeq
    <3>5. ASSUME NEW i \in 1 .. n
          PROVE  SubSeq(accepted', 1, n)[i] = SubSeq(accepted, 1, n)[i]
      BY <3>1, <3>2, <3>3, <3>4
    <3>6. SubSeq(accepted', 1, n) = SubSeq(accepted, 1, n)
      BY <3>3, <3>4, <3>5, SeqEqual
    <3> QED
      BY <3>6 DEF n
  <2> QED
    BY <1>1, <2>1 DEF LookedAt
<1>9. Walked'
  BY <1>1, <1>8, StillWalked
<1> QED
  BY <1>3, <1>5, <1>6, <1>7, <1>9

\* The read cannot be issued. (try_push_back throwing)
LEMMA PushThrowsHolds ==
  ASSUME Sound, PushThrows
  PROVE  Sound'
<1> USE DEF Sound
<1>1. /\ pc = "push" /\ pc' = "thrown"
      /\ UNCHANGED <<runs, flags, run, cluster, seg, left, accepted, delivered, handed>>
  BY DEF PushThrows, history
<1>2. /\ q' \in Queue(Chunk, Chunk) /\ InRing'
      /\ q'.pendingCount = q.pendingCount
      /\ ~IsEmpty(q) => Front(q)' = Front(q)
  BY ThrowRing
<1>3. TypeOK'
  BY <1>1, <1>2 DEF TypeOK
<1>4. OnLentBuffer'
  <2>1. ASSUME seg # 0
        PROVE  FrontIs(q, "ok")' /\ Front(q)' = Front(q)
    BY <1>2, <2>1 DEF OnLentBuffer, FrontIs, IsEmpty
  <2> QED
    BY <1>1, <2>1 DEF OnLentBuffer
<1>5. LookedAt' = LookedAt
  BY <1>1 DEF LookedAt
<1> QED
  BY <1>1, <1>2, <1>3, <1>4, <1>5, StillAhead, StillWalked

\* An empty run is passed over. (advance, advanceRun)
LEMMA PassRunHolds ==
  ASSUME Sound, PassRun
  PROVE  Sound'
<1> USE DEF Sound
<1>1. /\ pc = "push" /\ run # None /\ NextLen = 0 /\ MoveTo(cluster)
      /\ UNCHANGED <<runs, flags, q, seg, left, pc, accepted, delivered, handed>>
  BY DEF PassRun, history
<1>2. cluster \in Nat /\ cluster <= runs[run].len
  BY <1>1, RunFacts DEF ReadAhead
<1>3. /\ Passed' = PassTo(cluster)
      /\ run' \in DOMAIN runs \cup {None} /\ cluster' \in Nat
      /\ run' # None => cluster' <= runs'[run'].len
  BY <1>1, <1>2, MoveStep
<1>4. Passed' = Passed
  BY <1>1, <1>3 DEF Passed, PassTo
<1>5. TypeOK'
  BY <1>1, <1>3 DEF TypeOK
<1>6. ReadAhead'
  BY <1>1, <1>3, <1>4 DEF ReadAhead
<1>7. OnLentBuffer'
  BY <1>1 DEF OnLentBuffer
<1>8. LookedAt' = LookedAt
  BY <1>1 DEF LookedAt
<1> QED
  BY <1>1, <1>5, <1>6, <1>7, <1>8, StillInRing, StillWalked

\* The lent buffer has another segment. (advance)
LEMMA NextInBufferHolds ==
  ASSUME Sound, NextInBuffer
  PROVE  Sound'
<1> USE DEF Sound
<1>1. /\ pc = "take" /\ left > 0 /\ seg' = seg + 1 /\ left' = left - 1 /\ pc' = "filter"
      /\ UNCHANGED <<runs, flags, q, run, cluster, accepted, delivered, handed>>
  BY DEF NextInBuffer, history
<1> DEFINE size == Front(q).req.len * SegmentsPerCluster
<1>2. seg # 0 /\ seg + left = size
  BY <1>1 DEF OnLentBuffer
<1>3. size <= BatchLen * SegmentsPerCluster /\ BatchLen * SegmentsPerCluster \in Nat
  <2>1. /\ Front(q).req = accepted[Len(delivered) + 1]
        /\ Len(delivered) + 1 \in Numbers
    BY <1>2, FrontIsNext DEF OnLentBuffer, FrontIs
  <2>2. Front(q).req \in Chunk
    BY <2>1, RingFacts
  <2> QED
    BY <2>2, ChunkSize
<1>4. seg \in Nat /\ left \in Nat /\ left <= BatchLen * SegmentsPerCluster - 1
  BY <1>3 DEF TypeOK
<1>5. /\ seg' \in 0 .. BatchLen * SegmentsPerCluster
      /\ left' \in 0 .. BatchLen * SegmentsPerCluster - 1
      /\ seg' + left' = size /\ seg' # 0 /\ seg' - 1 = seg
  <2> DEFINE m == BatchLen * SegmentsPerCluster
  <2> HIDE DEF size, m
  <2>1. m \in Nat /\ size <= m /\ left <= m - 1
    BY <1>3, <1>4 DEF m
  <2>2. /\ seg' \in 0 .. m /\ left' \in 0 .. m - 1
        /\ seg' + left' = size /\ seg' # 0 /\ seg' - 1 = seg
    BY <1>1, <1>2, <1>4, <2>1
  <2> QED
    BY <2>2 DEF m
<1>6. TypeOK'
  BY <1>1, <1>5 DEF TypeOK
<1>7. OnLentBuffer'
  BY <1>1, <1>2, <1>5 DEF OnLentBuffer
<1>8. LookedAt' = LookedAt
  BY <1>1, <1>5 DEF LookedAt
<1> QED
  BY <1>1, <1>6, <1>7, <1>8, StillInRing, StillAhead, StillWalked

\* The lent buffer is used up and returned. (advance, pop_front)
LEMMA ReturnBufferHolds ==
  ASSUME Sound, ReturnBuffer
  PROVE  Sound'
<1> USE DEF Sound
<1>1. /\ pc = "take" /\ left = 0 /\ seg # 0 /\ seg' = 0
      /\ UNCHANGED <<runs, flags, run, cluster, left, pc, accepted, handed>>
  BY DEF ReturnBuffer
<1>2. /\ q' \in Queue(Chunk, Chunk) /\ InRing'
      /\ delivered' \in Seq([req : Chunk, buf : Chunk])
      /\ Len(delivered') = Len(delivered) + 1
  BY <1>1, PopRing DEF OnLentBuffer
<1>3. TypeOK'
  BY <1>1, <1>2, Sizes DEF TypeOK
<1>4. OnLentBuffer'
  BY <1>1 DEF OnLentBuffer
<1>5. LookedAt' = LookedAt
  <2>1. Base(Len(delivered) + 1) = Base(Len(delivered)) + seg
    <3>1. /\ Base(Len(delivered) + 1) = Base(Len(delivered)) + seg + left
          /\ Base(Len(delivered)) \in Nat /\ seg \in Nat
      BY <1>1, LentSegments DEF TypeOK
    <3> QED
      BY <1>1, <3>1
  <2>2. LookedAt = Base(Len(delivered)) + seg
    BY <1>1 DEF LookedAt, Base
  <2>3. LookedAt' = Base(Len(delivered) + 1) + 0
    BY <1>1, <1>2 DEF LookedAt, Base
  <2>4. Base(Len(delivered) + 1) \in Nat
    <3>1. Base(Len(delivered)) \in Nat /\ seg \in Nat
      BY <1>1, LentSegments DEF TypeOK
    <3> QED
      BY <2>1, <3>1
  <2> QED
    BY <2>1, <2>2, <2>3, <2>4
<1> QED
  BY <1>1, <1>2, <1>3, <1>4, <1>5, StillAhead, StillWalked

\* The oldest read is waited for, if there is one. (advance, finalize_front)
LEMMA TakeBufferHolds ==
  ASSUME Sound, TakeBuffer
  PROVE  Sound'
<1> USE DEF Sound
<1>1. /\ pc = "take" /\ left = 0 /\ seg = 0
      /\ UNCHANGED <<runs, flags, q, run, cluster, accepted, delivered, handed>>
  BY DEF TakeBuffer, history
<1>2. CASE IsEmpty(q)
  <2>1. pc' = "filter" /\ UNCHANGED <<seg, left>>
    BY <1>2 DEF TakeBuffer
  <2>2. TypeOK'
    BY <1>1, <2>1 DEF TypeOK
  <2>3. OnLentBuffer'
    BY <1>1, <1>2, <2>1 DEF OnLentBuffer
  <2>4. LookedAt' = LookedAt
    BY <1>1, <2>1 DEF LookedAt
  <2> QED
    BY <1>1, <2>2, <2>3, <2>4, StillInRing, StillAhead, StillWalked
<1>3. CASE ~IsEmpty(q)
  <2> DEFINE size == Front(q).req.len * SegmentsPerCluster
             m == BatchLen * SegmentsPerCluster
  <2>1. FrontIs(q, "ok") /\ seg' = 1 /\ left' = size - 1 /\ pc' = "fixup"
    BY <1>3 DEF TakeBuffer
  <2>2. Front(q).isPending /\ Front(q).req \in Chunk
    BY <1>3, FrontIsNext, RingFacts
  <2>3. size \in Nat \ {0} /\ m \in Nat \ {0} /\ size <= m
    BY <2>2, ChunkSize
  <2>4. seg' \in 0 .. m /\ left' \in 0 .. m - 1 /\ seg' + left' = size
    <3> HIDE DEF size, m
    <3> QED
      BY <2>1, <2>3
  <2>5. TypeOK'
    BY <1>1, <2>1, <2>4 DEF TypeOK
  <2>6. OnLentBuffer'
    BY <1>1, <2>1, <2>2, <2>4 DEF OnLentBuffer
  <2>7. LookedAt' = LookedAt
    BY <1>1, <2>1 DEF LookedAt
  <2> QED
    BY <1>1, <2>5, <2>6, <2>7, StillInRing, StillAhead, StillWalked
<1> QED
  BY <1>2, <1>3

\* The current segment is skipped or handed out. (readCurrent)
LEMMA ReadCurrentHolds ==
  ASSUME Sound, ReadCurrent
  PROVE  Sound'
<1> USE DEF Sound
<1>1. /\ pc = "filter" /\ pc' = IF Skipped THEN "push" ELSE "client"
      /\ handed' = IF Skipped \/ seg = 0 THEN handed ELSE Append(handed, Current)
      /\ UNCHANGED <<runs, flags, q, run, cluster, seg, left, accepted, delivered>>
  BY DEF ReadCurrent
<1>2. handed \in Seq(Segment) /\ handed' \in Seq(Segment)
  <2>1. seg # 0 => Current \in Segment
    BY LentSegments
  <2>2. handed \in Seq(Segment)
    BY DEF TypeOK
  <2>3. CASE Skipped \/ seg = 0
    BY <1>1, <2>2, <2>3
  <2>4. CASE ~ (Skipped \/ seg = 0)
    BY <1>1, <2>1, <2>2, <2>4, AppendProperties
  <2> QED
    BY <2>2, <2>3, <2>4
<1>3. TypeOK'
  BY <1>1, <1>2 DEF TypeOK
<1>4. OnLentBuffer'
  BY <1>1 DEF OnLentBuffer
<1>5. Walked'
  <2>1. CASE seg = 0
    <3>1. handed' = handed /\ LookedAt' = LookedAt
      BY <1>1, <2>1 DEF LookedAt
    <3> QED
      BY <1>1, <3>1, StillWalked
  <2>2. CASE seg # 0
    <3> DEFINE l == LookedAt
               all == AllSegments
               s == SubSeq(all, 1, l)
               t == SubSeq(all, 1, l + 1)
               e == all[l + 1]
    <3>1. l + 1 \in 1 .. Len(all) /\ l \in Nat /\ Current = e /\ e \in Segment
          /\ LookedAt' = l + 1
      <4> DEFINE b == Base(Len(delivered))
                 f == Base(Len(delivered) + 1)
      <4>1. /\ f = b + seg + left /\ b \in Nat /\ f <= Len(all)
            /\ Current = all[b + seg] /\ Current \in Segment
        BY <2>2, LentSegments
      <4>2. seg \in Nat \ {0} /\ left \in Nat /\ Len(all) \in Nat
        BY <2>2, Sizes, RunFacts DEF TypeOK
      <4>3. l = b + (seg - 1)
        BY <1>1, <2>2 DEF LookedAt, Base
      <4>4. LookedAt' = b + seg
        BY <1>1 DEF LookedAt, Base
      <4> HIDE DEF b, f, l, all
      <4>5. l + 1 = b + seg /\ l \in Nat /\ b + seg \in 1 .. Len(all)
        BY <4>1, <4>2, <4>3
      <4> QED
        BY <4>1, <4>4, <4>5
    <3>2. all \in Seq(Segment) /\ Len(all) \in Nat
          /\ \A n \in 1 .. Len(all) : all[n] \in Segment
      BY RunFacts, ElementOfSeq
    <3>3. Wanted(handed) = Wanted(s)
      BY DEF Walked
    <3> HIDE DEF l, all
    <3>4. /\ s \in Seq(Segment) /\ Len(s) = l /\ \A n \in 1 .. l : s[n] = all[n]
          /\ t \in Seq(Segment) /\ Len(t) = l + 1 /\ \A n \in 1 .. l + 1 : t[n] = all[n]
      BY <3>1, <3>2, SubSeqProperties
    <3>5. t = Append(s, e)
      <4> HIDE DEF s, t, e
      <4> DEFINE u == Append(s, e)
      <4>1. /\ u \in Seq(Segment) /\ Len(u) = l + 1
            /\ \A n \in 1 .. l : u[n] = s[n]
            /\ u[l + 1] = e
        BY <3>1, <3>4, AppendProperties
      <4> HIDE DEF u
      <4>2. ASSUME NEW n \in 1 .. l + 1
            PROVE  t[n] = u[n]
        <5>1. CASE n = l + 1
          BY <3>4, <4>1, <5>1 DEF e
        <5>2. CASE n # l + 1
          <6>1. n \in 1 .. l
            BY <3>1, <5>2
          <6> QED
            BY <3>4, <4>1, <6>1
        <5> QED
          BY <5>1, <5>2
      <4>3. t = u
        BY <3>4, <4>1, <4>2, SeqEqual
      <4> QED
        BY <4>3 DEF u
    <3> HIDE DEF s, t, e
    <3>6. Wanted(t) = Wanted(s) \o Kept(e)
      BY <3>1, <3>4, <3>5, WantedAppend
    <3>7. Wanted(handed') = Wanted(s) \o Kept(e)
      <4>1. CASE Skipped
        <5>1. Kept(e) = <<>> /\ handed' = handed
          BY <1>1, <2>2, <3>1, <4>1 DEF Skipped, Kept
        <5>2. Wanted(s) \o <<>> = Wanted(s)
          BY <3>1, <3>4, WantedAppend, ConcatEmptySeq
        <5> QED
          BY <3>3, <5>1, <5>2
      <4>2. CASE ~Skipped
        <5>1. handed' = Append(handed, e)
          BY <1>1, <2>2, <3>1, <4>2
        <5>2. Wanted(Append(handed, e)) = Wanted(handed) \o Kept(e)
          BY <1>2, <3>1, WantedAppend
        <5> QED
          BY <3>3, <5>1, <5>2
      <4> QED
        BY <4>1, <4>2
    <3>8. Wanted(handed') = Wanted(SubSeq(AllSegments, 1, l + 1))
      BY <3>6, <3>7 DEF t, all
    <3> QED
      BY <1>1, <3>1, <3>8 DEF Walked, Wanted, AllSegments
  <2> QED
    BY <2>1, <2>2
<1> QED
  BY <1>1, <1>3, <1>4, <1>5, StillInRing, StillAhead

\* The operating system finishes a read. (GetOverlappedResult)
LEMMA ReadDoneHolds ==
  ASSUME Sound, NEW i \in Index, ReadDone(i)
  PROVE  Sound'
<1> USE DEF Sound
<1>1. UNCHANGED <<runs, flags, run, cluster, seg, left, pc, accepted, delivered, handed>>
  BY DEF ReadDone, history
<1>2. /\ q' \in Queue(Chunk, Chunk) /\ InRing'
      /\ q'.pendingCount = q.pendingCount /\ q'.tail = q.tail
      /\ FrontIs(q, "ok") => Front(q)' = Front(q)
  BY ReadDoneRing
<1>3. TypeOK'
  BY <1>1, <1>2 DEF TypeOK
<1>4. OnLentBuffer'
  <2>1. ASSUME seg # 0
        PROVE  FrontIs(q, "ok")' /\ Front(q)' = Front(q)
    BY <1>2, <2>1 DEF OnLentBuffer, FrontIs, IsEmpty
  <2>2. IsEmpty(q) => IsEmpty(q)'
    BY <1>2 DEF IsEmpty
  <2> QED
    BY <1>1, <2>1, <2>2 DEF OnLentBuffer
<1>5. LookedAt' = LookedAt
  BY <1>1 DEF LookedAt
<1> QED
  BY <1>1, <1>2, <1>3, <1>4, <1>5, StillAhead, StillWalked

\* The steps that move only the place in the call of ++: to the client and back,
\* or out of it by a throw. (operator++, finalize_front, processSegments)
LEMMA TurnsHold ==
  ASSUME Sound, PushEnds \/ TakeThrows \/ Fixup \/ Increment
  PROVE  Sound'
<1> USE DEF Sound
<1>1. /\ UNCHANGED <<runs, flags, q, run, cluster, seg, left, accepted, delivered, handed>>
      /\ \/ pc = "push" /\ pc' = "take"
         \/ pc = "take" /\ pc' = "thrown"
         \/ pc = "fixup" /\ pc' \in {"filter", "rejected"}
         \/ pc = "client" /\ pc' = "push"
  BY DEF PushEnds, TakeThrows, Fixup, Increment, history
<1>2. TypeOK'
  BY <1>1 DEF TypeOK
<1>3. OnLentBuffer'
  BY <1>1 DEF OnLentBuffer
<1>4. LookedAt' = LookedAt
  BY <1>1 DEF LookedAt
<1> QED
  BY <1>1, <1>2, <1>3, <1>4, StillInRing, StillAhead, StillWalked

-----------------------------------------------------------------------------
(* The invariants.                                                         *)

\* The constructor leaves the iterator before the first segment, with nothing
\* asked for. (SegmentIteratorOverlapped)
LEMMA InitHolds == Init => Sound
<1> SUFFICES ASSUME Init
             PROVE  Sound
  OBVIOUS
<1>1. /\ runs \in RunLists /\ flags \in SUBSET Flags /\ q = EmptyQueue
      /\ run = IF runs = <<>> THEN None ELSE 1
      /\ cluster = 0 /\ seg = 0 /\ left = 0
      /\ pc = IF runs = <<>> THEN "client" ELSE "filter"
      /\ accepted = <<>> /\ delivered = <<>> /\ handed = <<>>
  BY DEF Init
<1>2. runs \in Seq(Run) /\ Len(runs) \in Nat /\ DOMAIN runs = 1 .. Len(runs)
  BY <1>1, IteratorAssumption, LenProperties
<1>3. run \in DOMAIN runs \cup {None} /\ (run # None <=> runs # <<>>)
      /\ (run # None => run = 1)
  <2>1. runs # <<>> => Len(runs) # 0
    BY <1>2, EmptySeq
  <2> QED
    BY <1>1, <1>2, <2>1, Sizes
<1>4. EmptyQueue \in Queue(Chunk, Chunk) /\ 0 % Depth = 0
  <2>1. 0 \in Index /\ 0 \in 0 .. Depth /\ 0 % Depth = 0
    <3>1. 0 = (0 * Depth) + 0
      OBVIOUS
    <3> QED
      BY <3>1, ModUnique DEF Index
  <2>2. FreeSlot \in Slot(Chunk, Chunk)
    BY DEF FreeSlot, Slot, IoStates
  <2> QED
    BY <2>1, <2>2 DEF EmptyQueue, Queue
<1>5. TypeOK
  <2>1. 0 \in 0 .. BatchLen * SegmentsPerCluster
        /\ 0 \in 0 .. BatchLen * SegmentsPerCluster - 1
    <3>1. /\ 1 * SegmentsPerCluster <= BatchLen * SegmentsPerCluster
          /\ BatchLen * SegmentsPerCluster \in Nat
      BY Sizes
    <3>2. 1 * SegmentsPerCluster = SegmentsPerCluster /\ SegmentsPerCluster \in Nat \ {0}
      BY Sizes
    <3> DEFINE m == BatchLen * SegmentsPerCluster
    <3>3. m \in Nat /\ m >= 1
      BY <3>1, <3>2
    <3> HIDE DEF m
    <3>4. 0 \in 0 .. m /\ 0 \in 0 .. m - 1
      BY <3>3
    <3> QED
      BY <3>4 DEF m
  <2> QED
    BY <1>1, <1>3, <1>4, <2>1, EmptySeq DEF TypeOK
<1>6. InRing
  BY <1>1, <1>4, EmptySeq DEF InRing, EmptyQueue
<1>7. OnLentBuffer
  BY <1>1 DEF OnLentBuffer, EmptyQueue, IsEmpty
<1>8. Passed = <<>>
  <2>1. CASE runs = <<>>
    BY <1>3, <2>1, SegmentsInNothing DEF Passed, AllSegments
  <2>2. CASE runs # <<>>
    <3>1. run = 1 /\ run # None /\ run - 1 = 0 /\ SubSeq(runs, 1, 0) = <<>>
      BY <1>2, <1>3, <2>2, AllOrNone
    <3>2. SegmentsIn(SubSeq(runs, 1, run - 1)) = <<>>
      BY <3>1, SegmentsInNothing
    <3>3. SegmentsOf([lcn |-> runs[run].lcn, len |-> 0]) = <<>>
      <4>1. [lcn |-> runs[run].lcn, len |-> 0] \in Run
        BY <1>5, <3>1, RunFacts DEF Run
      <4>2. /\ SegmentsOf([lcn |-> runs[run].lcn, len |-> 0]) \in Seq(Segment)
            /\ Len(SegmentsOf([lcn |-> runs[run].lcn, len |-> 0]))
                 = 0 * SegmentsPerCluster
        BY <4>1, RunSegments
      <4> QED
        BY <4>2, EmptySeq, Sizes
    <3>4. Passed = <<>> \o <<>>
      BY <1>1, <3>1, <3>2, <3>3 DEF Passed
    <3> QED
      BY <3>4, EmptySeq, ConcatEmptySeq
  <2> QED
    BY <2>1, <2>2
<1>9. ReadAhead
  <2>1. SegmentsIn(accepted) = Passed /\ Len(accepted) * SegmentsPerCluster <= Len(Passed)
    BY <1>1, <1>8, SegmentsInNothing, EmptySeq, Sizes
  <2>2. run # None => cluster <= runs[run].len
    BY <1>1, <1>5, RunFacts
  <2> QED
    BY <2>1, <2>2 DEF ReadAhead
<1>10. Walked
  <2>1. SubSeq(accepted, 1, Len(delivered)) = <<>> /\ SubSeq(AllSegments, 1, 0) = <<>>
    BY <1>1, <1>5, RunFacts, AllOrNone, EmptySeq
  <2>2. LookedAt = 0
    <3>1. LookedAt = Len(SegmentsIn(SubSeq(accepted, 1, Len(delivered)))) + 0
      BY <1>1 DEF LookedAt
    <3>2. Len(SegmentsIn(SubSeq(accepted, 1, Len(delivered)))) = 0
      BY <2>1, SegmentsInNothing, EmptySeq
    <3> QED
      BY <3>1, <3>2
  <2> QED
    BY <1>1, <2>1, <2>2 DEF Walked
<1> QED
  BY <1>5, <1>6, <1>7, <1>9, <1>10 DEF Sound

\* Every step of the iterator, and every completion, keeps it sound.
LEMMA StepHolds == Sound /\ [Next]_vars => Sound'
<1> SUFFICES ASSUME Sound, [Next]_vars
             PROVE  Sound'
  OBVIOUS
<1>1. CASE UNCHANGED vars
  <2>1. UNCHANGED <<runs, flags, q, run, cluster, seg, left, pc, accepted,
                    delivered, handed>>
    BY <1>1 DEF vars, history
  <2>2. TypeOK'
    BY <2>1 DEF Sound, TypeOK
  <2>3. OnLentBuffer'
    BY <2>1 DEF Sound, OnLentBuffer
  <2>4. LookedAt' = LookedAt
    BY <2>1 DEF LookedAt
  <2> QED
    BY <2>1, <2>2, <2>3, <2>4, StillInRing, StillAhead, StillWalked DEF Sound
<1>2. CASE Iterator
  BY <1>2, PushHolds, PushThrowsHolds, PassRunHolds, NextInBufferHolds,
     ReturnBufferHolds, TakeBufferHolds, ReadCurrentHolds, TurnsHold DEF Iterator
<1>3. CASE \E i \in Index : ReadDone(i)
  BY <1>3, ReadDoneHolds
<1> QED
  BY <1>1, <1>2, <1>3 DEF Next, Resting

\* The strengthened invariant is inductive.
LEMMA SoundHolds == Spec => []Sound
  BY InitHolds, StepHolds, PTL DEF Spec

\* The iterator hands out the segments of $MFT that its flags do not skip, each
\* read from its own place, in order and without a gap, out of a buffer that is
\* the reader's oldest and whose data has arrived; for every depth, every size
\* of a batch and of a cluster, and every fragmentation of $MFT.
\* (SegmentIteratorOverlapped)
THEOREM IteratorSound == Spec => []IteratorInv
<1>1. Sound => IteratorInv
  BY WalkedInStep DEF Sound, IteratorInv
<1> QED
  BY <1>1, SoundHolds, PTL

\* The loop over the iterator does not end before every segment that the flags
\* do not skip was handed out. (operator!=, end)
THEOREM IteratorComplete == Spec => []Complete
<1>1. Sound => Complete
  <2> SUFFICES ASSUME Sound, pc = "client", AtEnd
               PROVE  Wanted(handed) = Wanted(AllSegments)
    BY DEF Complete
  <2>1. run = None /\ seg = 0 /\ IsEmpty(q)
    BY DEF Sound, AtEnd, OnLentBuffer
  <2>2. Len(delivered) = Len(accepted) /\ Len(accepted) \in Nat
    BY <2>1, RingFacts DEF Sound, IsEmpty
  <2>3. SubSeq(accepted, 1, Len(delivered)) = accepted
    <3>1. accepted \in Seq(Run)
      BY ReadsAreRuns DEF Sound
    <3> QED
      BY <2>2, <3>1, AllOrNone
  <2>4. SegmentsIn(accepted) = AllSegments
    BY <2>1 DEF Sound, ReadAhead, Passed
  <2>5. AllSegments \in Seq(Segment) /\ Len(AllSegments) \in Nat
    BY RunFacts DEF Sound
  <2>6. LookedAt = Len(AllSegments)
    <3>1. LookedAt = Len(AllSegments) + 0
      BY <2>1, <2>3, <2>4 DEF LookedAt
    <3> QED
      BY <2>5, <3>1
  <2>7. SubSeq(AllSegments, 1, LookedAt) = AllSegments
    BY <2>5, <2>6, AllOrNone
  <2> QED
    BY <2>7 DEF Sound, Walked
<1> QED
  BY <1>1, SoundHolds, PTL

-----------------------------------------------------------------------------
(* The iterator as a client of the reader.                                 *)

\* The iterator makes the calls that AsyncFileReader asks for, in the order it
\* asks for: it pushes when there is room, waits for the oldest read, and
\* returns a buffer before it takes the next. (advance)
THEOREM IteratorUsesReader == Spec => UsesReader
<1> USE DEF Reader!Index, Reader!FreeSlot, Reader!EmptyQueue, Reader!IsFull,
            Reader!IsEmpty, Reader!Advance, Reader!PushBack, Reader!Front,
            Reader!FrontIs, Reader!PopFront, Reader!InFlight, Reader!CompleteIo
<1>1. Init => Reader!Init
  BY DEF Init, Reader!Init, EmptyQueue, Index, FreeSlot
<1>2. Sound /\ [Next]_vars => [Reader!Next]_(Reader!vars)
  <2> SUFFICES ASSUME Sound, [Next]_vars
               PROVE  [Reader!Next]_(Reader!vars)
    OBVIOUS
  <2> USE DEF Reader!vars, Reader!Next
  <2>1. CASE Push
    <3>1. NextChunk \in Chunk /\ Len(accepted) < MaxClusters
      BY <2>1, NextRead DEF Sound, Push
    <3>2. Reader!TryPushBack(NextChunk)
      BY <2>1, <3>1 DEF Push, Reader!TryPushBack, IsFull, PushBack, Advance
    <3> QED
      BY <3>1, <3>2
  <2>2. CASE PushThrows
    <3>1. Len(accepted) < MaxClusters
      BY <2>2, NextRead DEF Sound, PushThrows
    <3>2. Reader!PushThrows
      BY <2>2, <3>1 DEF PushThrows, history, Reader!PushThrows, IsFull
    <3> QED
      BY <3>2
  <2>3. CASE ReturnBuffer
    <3>1. Reader!PopLent
      BY <2>3 DEF ReturnBuffer, Reader!PopLent, PopFront, Front, Advance
    <3> QED
      BY <3>1
  <2>4. CASE TakeBuffer
    <3>1. CASE IsEmpty(q)
      BY <2>4, <3>1 DEF TakeBuffer, history
    <3>2. CASE ~IsEmpty(q)
      <4>1. Reader!FinalizeFront
        BY <2>4, <3>2 DEF TakeBuffer, history, Reader!FinalizeFront,
           FrontIs, Front, IsEmpty
      <4> QED
        BY <4>1
    <3> QED
      BY <3>1, <3>2
  <2>5. CASE TakeThrows
    <3>1. Reader!FinalizeThrows
      BY <2>5 DEF TakeThrows, history, Reader!FinalizeThrows,
         FrontIs, Front, IsEmpty
    <3> QED
      BY <3>1
  <2>6. CASE \E i \in Index : ReadDone(i)
    <3>1. PICK i \in Index : ReadDone(i)
      BY <2>6
    <3>2. i \in Reader!Index /\ Reader!ReadDone(i)
      BY <3>1 DEF ReadDone, history, Reader!ReadDone, Index, InFlight, CompleteIo
    <3> QED
      BY <3>2
  <2>7. CASE NextInBuffer
    <3>1. seg # 0 /\ seg' # 0
      <4>1. seg # 0 /\ seg \in Nat /\ seg' = seg + 1
        BY <2>7 DEF NextInBuffer, Sound, OnLentBuffer, TypeOK
      <4> QED
        BY <4>1
    <3> QED
      BY <2>7, <3>1 DEF NextInBuffer, history
  <2>8. CASE PassRun \/ PushEnds \/ Fixup \/ ReadCurrent \/ Increment
    BY <2>8 DEF PassRun, PushEnds, Fixup, ReadCurrent, Increment, history
  <2>9. CASE UNCHANGED vars
    BY <2>9 DEF vars, history
  <2> QED
    BY <2>1, <2>2, <2>3, <2>4, <2>5, <2>6, <2>7, <2>8, <2>9
       DEF Next, Iterator, Resting
<1> QED
  BY <1>1, <1>2, SoundHolds, PTL DEF Spec, UsesReader, Reader!Spec
=============================================================================
