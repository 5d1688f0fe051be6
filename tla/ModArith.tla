------------------------------ MODULE ModArith ------------------------------
(***************************************************************************)
(* Natural numbers, for the proofs: the arithmetic of indices in a ring,   *)
(* what x % D is for the numbers a counter of AsyncSlots runs through, and *)
(* the least number of a set.                                              *)
(***************************************************************************)
EXTENDS Integers, WellFoundedInduction, TLAPS

\* A multiple of D strictly between -D and D is zero. (head and tail of
\* AsyncSlotProcessor are compared by their distance)
LEMMA SmallMultiple ==
  ASSUME NEW D \in Nat \ {0}, NEW k \in Int, NEW x \in Int,
         x = k * D, -D < x, x < D
  PROVE  x = 0
<1>1. CASE k = 0
  BY <1>1
<1>2. CASE k >= 1
  <2>1. k * D >= D
    BY <1>2
  <2> QED
    BY <2>1
<1>3. CASE k <= -1
  <2>1. k * D <= -D
    BY <1>3
  <2> QED
    BY <2>1
<1> QED
  BY <1>1, <1>2, <1>3

\* Quotient and remainder. (head = (head + 1) % slots.size())
LEMMA DivMod ==
  ASSUME NEW D \in Nat \ {0}, NEW n \in Nat
  PROVE  /\ n = D * (n \div D) + (n % D)
         /\ n \div D \in Nat
         /\ n % D \in 0 .. D - 1
OBVIOUS

\* The remainder is the only one. (head = (head + 1) % slots.size())
LEMMA ModUnique ==
  ASSUME NEW D \in Nat \ {0}, NEW n \in Nat, NEW k \in Int,
         NEW r \in 0 .. D - 1, n = (k * D) + r
  PROVE  n % D = r
<1> DEFINE k2 == n \div D
           r2 == n % D
<1>1. /\ n = (k2 * D) + r2
      /\ k2 \in Int
      /\ r2 \in 0 .. D - 1
  BY DivMod
<1>2. r2 - r = (k - k2) * D
  <2> HIDE DEF k2, r2
  <2> QED
    BY <1>1
<1>3. r2 - r = 0
  <2> HIDE DEF k2, r2
  <2>1. /\ -D < r2 - r
        /\ r2 - r < D
        /\ r2 - r \in Int
        /\ k - k2 \in Int
    BY <1>1
  <2> QED
    BY <1>2, <2>1, SmallMultiple
<1> QED
  BY <1>1, <1>3

\* Whole multiples add to the quotient and leave the remainder. (a segment by
\* its place in a run, and by that in the part of the run that a read has)
LEMMA DivShift ==
  ASSUME NEW D \in Nat \ {0}, NEW k \in Nat, NEW n \in Nat
  PROVE  /\ ((k * D) + n) \div D = k + (n \div D)
         /\ ((k * D) + n) % D = n % D
<1> DEFINE m == (k * D) + n
           a == n \div D   r == n % D
           b == m \div D   s == m % D
<1>1. /\ n = (D * a) + r /\ a \in Nat /\ r \in 0 .. D - 1
      /\ k * D \in Nat
  <2>1. n = (D * a) + r /\ a \in Nat /\ r \in 0 .. D - 1
    BY DivMod
  <2>2. k * D \in Nat
    OBVIOUS
  <2> QED
    BY <2>1, <2>2
<1>2. m \in Nat
  BY <1>1
<1>3. m = (D * b) + s /\ b \in Nat /\ s \in 0 .. D - 1
  <2> HIDE DEF m
  <2> QED
    BY <1>2, DivMod
<1> HIDE DEF a, r, b, s
<1>4. m = ((k + a) * D) + r
  BY <1>1
<1> HIDE DEF m
<1>5. s = r
  BY <1>1, <1>2, <1>4, ModUnique DEF s
<1>6. (b - (k + a)) * D = 0
  BY <1>1, <1>3, <1>4, <1>5
<1>7. b = k + a
  <2> DEFINE x == b - (k + a)
  <2>1. x \in Int /\ x * D = 0
    BY <1>1, <1>3, <1>6
  <2> HIDE DEF x
  <2>2. x = 0
    BY <2>1
  <2> QED
    BY <1>1, <1>3, <2>2 DEF x
<1> QED
  BY <1>5, <1>7 DEF a, r, b, s, m

\* A counter and the ring index derived from it advance together.
\* (head = (head + 1) % slots.size())
LEMMA ModStep ==
  ASSUME NEW D \in Nat \ {0}, NEW n \in Nat
  PROVE  (n + 1) % D = ((n % D) + 1) % D
<1> DEFINE k == n \div D
           r == n % D
<1>1. /\ n = (k * D) + r
      /\ k \in Int
      /\ r \in 0 .. D - 1
  BY DivMod
<1>2. CASE r = D - 1
  <2> HIDE DEF k, r
  <2>1. n + 1 = ((k + 1) * D) + 0
    BY <1>1, <1>2
  <2>2. (n + 1) % D = 0
    BY <1>1, <2>1, ModUnique
  <2>3. r + 1 = (1 * D) + 0
    BY <1>1, <1>2
  <2>4. (r + 1) % D = 0
    BY <1>1, <2>3, ModUnique
  <2> QED
    BY <2>2, <2>4 DEF r
<1>3. CASE r < D - 1
  <2> HIDE DEF k, r
  <2>1. n + 1 = (k * D) + (r + 1)
    BY <1>1
  <2>2. (n + 1) % D = r + 1
    BY <1>1, <1>3, <2>1, ModUnique
  <2>3. r + 1 = (0 * D) + (r + 1)
    BY <1>1
  <2>4. (r + 1) % D = r + 1
    BY <1>1, <1>3, <2>3, ModUnique
  <2> QED
    BY <2>2, <2>4 DEF r
<1> QED
  BY <1>1, <1>2, <1>3

\* Two counters less than D apart have different slots.
\* (try_push_back refuses when pending_count reaches slots.size())
LEMMA ModDistinct ==
  ASSUME NEW D \in Nat \ {0}, NEW m \in Nat, NEW n \in Nat,
         m < n, n - m < D
  PROVE  m % D # n % D
<1> SUFFICES ASSUME m % D = n % D
             PROVE  FALSE
  OBVIOUS
<1> DEFINE k == m \div D
           l == n \div D
           r == m % D
<1>1. /\ m = (k * D) + r
      /\ n = (l * D) + r
      /\ k \in Int /\ l \in Int /\ r \in Int
  BY DivMod
<1> HIDE DEF k, l, r
<1>2. n - m = (l - k) * D
  BY <1>1
<1>3. n - m = 0
  BY <1>1, <1>2, SmallMultiple
<1> QED
  BY <1>3

\* The k-th slot from tail on is the slot of the k-th request waited for.
\* (slots[tail] after k calls of pop_front)
LEMMA ModShift ==
  ASSUME NEW D \in Nat \ {0}, NEW n \in Nat, NEW j \in Nat
  PROVE  (n + j) % D = ((n % D) + j) % D
<1> DEFINE a == n \div D
           r == n % D
<1>1. /\ n = (a * D) + r
      /\ a \in Int /\ r \in Nat
  BY DivMod
<1> HIDE DEF a, r
<1> DEFINE b == (r + j) \div D
           s == (r + j) % D
<1>2. r + j \in Nat
  BY <1>1
<1>3. /\ r + j = (b * D) + s
      /\ b \in Int /\ s \in 0 .. D - 1
  <2>1. /\ r + j = (D * b) + s
        /\ b \in Nat /\ s \in 0 .. D - 1
    BY <1>2, DivMod
  <2> HIDE DEF b, s
  <2> QED
    BY <2>1
<1> HIDE DEF b, s
<1>4. /\ n + j = ((a + b) * D) + s
      /\ n + j \in Nat /\ a + b \in Int
  BY <1>1, <1>3
<1>5. (n + j) % D = s
  BY <1>3, <1>4, ModUnique
<1> QED
  BY <1>5 DEF r, s

\* A set of natural numbers has a least one. (the first cluster of a span, the
\* run of $MFT that a segment is in)
LEMMA LeastNumber ==
  ASSUME NEW T, T \subseteq Nat, T # {}
  PROVE  \E n \in T : \A m \in T : n <= m
<1>1. IsWellFoundedOn(OpToRel(<, Nat), Nat)
  BY NatLessThanWellFounded
<1>2. PICK n \in T : \A m \in T : ~ (<<m, n>> \in OpToRel(<, Nat))
  BY <1>1, WFMin
<1>3. \A m, l \in Nat : m < l => <<m, l>> \in OpToRel(<, Nat)
  BY DEF OpToRel
<1>4. \A m \in T : ~ (m < n)
  BY <1>2, <1>3
<1> QED
  BY <1>4
=============================================================================
