------------------------ MODULE ClusterDiff_proofs ------------------------
(***************************************************************************)
(* Proofs about ClusterDiff, for volumes of any size, chunks of any length *)
(* and rings of any depth, in every mode, with or without failing I/O.     *)
(*                                                                         *)
(* The argument: the clusters that still wait to be compared are those     *)
(* above the slice iterator, those in the slots of the reader, and of the  *)
(* chunk at hand those from lcn on. They hold what they held before the    *)
(* run, and no write in flight touches them, as each is handed over at the *)
(* moment it stops to wait. So a read of the destination returns the old   *)
(* content whenever it is done, the comparison is that of the volumes      *)
(* before the run, and what is written is different, selected, and in      *)
(* flight once. A write that ended well left the source's content, and     *)
(* nothing changes a cluster away from it; what waits for nothing and is   *)
(* in no write is therefore equal, and at the end that is everything.      *)
(***************************************************************************)
EXTENDS ClusterDiff, ModArith, FiniteSetTheorems

USE DepthAssumption, VolumeAssumption

\* The window of a ring ends at its head, its slots have requests, and nothing
\* outside is in flight. (head, tail, pending_count)
Ring(q) ==
  /\ q \in Queue(Spans, SpanData)
  /\ q.head = (q.tail + q.pendingCount) % Depth
  /\ InFlight(q) \subseteq Window(q)
  /\ \A i \in Window(q) : q.slots[i].req \in Spans

\* What a cluster of the destination held before the run.
Original(c) == IF c \in stale THEN Old ELSE Source(c)

\* The clusters that slot i of the reader covers.
Slice(i) == In(srcQ.slots[i].req)

\* The clusters not yet compared: above the iterator, or in a chunk, and in
\* the one at hand from lcn on.
Waiting ==
  {c \in Clusters :
     \/ c >= next
     \/ \E i \in Window(srcQ) :
          c \in Slice(i) /\ (i = srcQ.tail /\ lcn # None => c >= lcn)}

\* The clusters whose chunk is not yet counted.
Unclosed == {c \in Clusters : c >= next \/ \E i \in Window(srcQ) : c \in Slice(i)}

\* The chunks of the reader are parts of the selection, apart from each other
\* and below the iterator, and bring the source's content.
Chunks ==
  pc # "thrown" =>
    /\ \A i \in Window(srcQ) :
         /\ Slice(i) \subseteq sel
         /\ srcQ.slots[i].req.hi < next
         /\ srcQ.slots[i].io = "ok" =>
              srcQ.slots[i].buf = [c \in Slice(i) |-> Source(c)]
    /\ \A i, j \in Window(srcQ) : i # j => Slice(i) \cap Slice(j) = {}

\* The chunk at hand has arrived, and lcn is in it or just behind.
AtHand ==
  pc # "thrown" /\ lcn # None =>
    /\ FrontIs(srcQ, "ok")
    /\ mode # "copy" => FrontIs(destQ, "ok")
    /\ lcn \in Nat /\ Front(srcQ).req.lo <= lcn

\* Both readers wait for the same chunks, and the destination's bring what
\* was there before the run.
InStep ==
  pc # "thrown" /\ mode # "copy" =>
    /\ destQ.tail = srcQ.tail /\ destQ.pendingCount = srcQ.pendingCount
    /\ \A i \in Window(srcQ) :
         /\ destQ.slots[i].req = srcQ.slots[i].req
         /\ destQ.slots[i].io = "ok" =>
              destQ.slots[i].buf = [c \in Slice(i) |-> Original(c)]

\* The queue of writes carries the source's content for selected clusters, and
\* what ended well is on the destination.
Writes ==
  \A i \in Window(wrQ) :
    LET slot == wrQ.slots[i]
    IN /\ In(slot.req) \subseteq sel
       /\ slot.buf = [c \in In(slot.req) |-> Source(c)]
       /\ slot.io = "ok" => \A c \in In(slot.req) : dest[c] = Source(c)

\* What waits to be compared is as it was and in no write in flight.
Untouched ==
  pc # "thrown" =>
    /\ \A c \in Waiting : dest[c] = Original(c)
    /\ Waiting \cap ClustersOf(wrQ, InFlight(wrQ)) = {}

\* The rings a mode does not use stay empty.
Unused ==
  /\ mode = "copy" => destQ = EmptyQueue
  /\ mode = "compare" => wrQ = EmptyQueue

\* When the loop is left, everything is processed; at the end, written.
Ended ==
  /\ pc \in {"flush", "done"} =>
       IsEmpty(srcQ) /\ lcn = None /\ \A c \in sel : c < next
  /\ pc = "done" => IsEmpty(wrQ)

\* Nothing is forgotten on the way, in any state but a thrown one.
Kept ==
  pc # "thrown" /\ Written =>
    \A c \in sel \ Waiting :
      dest[c] = Source(c) \/ c \in ClustersOf(wrQ, Window(wrQ))

\* The map and the counters agree with what was compared.
Counted ==
  pc # "thrown" /\ mode # "copy" =>
    /\ diffMap = (sel \cap stale) \ Waiting
    /\ stats.spans = Cardinality(diffMap)
    /\ stats.checked = Cardinality(sel \ Unclosed)
    /\ stats.differing = Cardinality((sel \cap stale) \ Unclosed)

\* The inductive invariant.
IInv ==
  /\ TypeOK
  /\ Ring(srcQ) /\ Ring(destQ) /\ Ring(wrQ)
  /\ Chunks /\ AtHand /\ InStep
  /\ Writes /\ Untouched /\ Unused /\ Ended /\ Kept
  /\ Counted
  /\ WritesInPlace

-----------------------------------------------------------------------------
(* The rings.                                                              *)

\* Ring p is k with request s, buffer b, in flight behind its last. (push_back)
Pushed(k, p, s, b) ==
  /\ k.head \in Index \ Window(k)
  /\ Window(p) = Window(k) \cup {k.head}
  /\ InFlight(p) = InFlight(k) \cup {k.head}
  /\ p.tail = k.tail /\ p.pendingCount = k.pendingCount + 1
  /\ \A i \in Index \ {k.head} : p.slots[i] = k.slots[i]
  /\ p.slots[k.head].req = s /\ p.slots[k.head].buf = b
  /\ p.slots[k.head].io = "inflight"

\* Ring p is k without its first. (pop_front)
Popped(k, p) ==
  /\ k.tail \in Window(k)
  /\ Window(p) = Window(k) \ {k.tail}
  /\ InFlight(p) = InFlight(k)
  /\ p.tail = Advance(k.tail) /\ p.pendingCount = k.pendingCount - 1
  /\ \A i \in Index : /\ p.slots[i].req = k.slots[i].req
                      /\ p.slots[i].buf = k.slots[i].buf
                      /\ p.slots[i].io = k.slots[i].io

\* Ring p is k after slot i ended with a result, b in its buffer.
Completed(k, p, i, result, b) ==
  /\ i \in Window(k)
  /\ Window(p) = Window(k)
  /\ InFlight(p) = InFlight(k) \ {i}
  /\ p.tail = k.tail /\ p.pendingCount = k.pendingCount
  /\ \A j \in Index \ {i} : p.slots[j] = k.slots[j]
  /\ p.slots[i].req = k.slots[i].req /\ p.slots[i].buf = b
  /\ p.slots[i].io = result

\* Counters and slots of a ring. (slots, pending_count)
LEMMA RingFacts ==
  ASSUME NEW k, Ring(k)
  PROVE  /\ k.head \in Index /\ k.tail \in Index
         /\ k.pendingCount \in 0 .. Depth
         /\ k.slots \in [Index -> Slot(Spans, SpanData)]
         /\ Window(k) \subseteq Index
         /\ InFlight(k) \subseteq Window(k)
         /\ ~IsEmpty(k) => k.tail \in Window(k)
<1>1. /\ k.head \in Index /\ k.tail \in Index
      /\ k.pendingCount \in 0 .. Depth
      /\ k.slots \in [Index -> Slot(Spans, SpanData)]
  BY DEF Ring, Queue
<1>2. \A j \in Nat : k.tail + j \in Nat
  BY <1>1 DEF Index
<1>3. \A j \in Nat : (k.tail + j) % Depth \in Index
  BY <1>2, DivMod DEF Index
<1>4. Window(k) \subseteq Index
  BY <1>1, <1>3 DEF Window
<1>5. k.tail = (k.tail + 0) % Depth
  <2>1. k.tail + 0 \in Nat /\ k.tail \in 0 .. Depth - 1 /\ k.tail + 0 = (0 * Depth) + k.tail
    BY <1>1 DEF Index
  <2> QED
    BY <2>1, ModUnique
<1>6. ~IsEmpty(k) => k.tail \in Window(k)
  BY <1>1, <1>5 DEF Window, IsEmpty
<1> QED
  BY <1>1, <1>4, <1>6 DEF Ring

\* A request taken: the slot at head was free, and joins the window.
\* (try_push_back, push_back)
LEMMA PushRing ==
  ASSUME NEW k, Ring(k), ~IsFull(k),
         NEW s \in Spans, NEW b \in SpanData \cup {None},
         NEW p, p = PushBack(k, s, b)
  PROVE  Ring(p) /\ Pushed(k, p, s, b)
<1> DEFINE slot == [req |-> s, buf |-> b, io |-> "inflight", isPending |-> TRUE]
           n == k.tail + k.pendingCount
<1>1. /\ k.head \in Index /\ k.tail \in Index
      /\ k.pendingCount \in 0 .. Depth /\ k.pendingCount < Depth
      /\ k.slots \in [Index -> Slot(Spans, SpanData)]
      /\ k.head = n % Depth
      /\ Window(k) \subseteq Index
  BY RingFacts DEF Ring, IsFull
<1>2. p = [slots |-> [k.slots EXCEPT ![k.head] = slot],
           head |-> Advance(k.head), tail |-> k.tail,
           pendingCount |-> k.pendingCount + 1]
  <2>1. k \in Queue(Spans, SpanData)
    BY DEF Ring
  <2> QED
    BY <2>1 DEF PushBack, Queue
<1>3. n \in Nat /\ Advance(k.head) = (n + 1) % Depth /\ (n + 1) % Depth \in Index
  <2>1. n \in Nat /\ n + 1 \in Nat
    BY <1>1 DEF Index
  <2>2. (n + 1) % Depth = ((n % Depth) + 1) % Depth
    BY <2>1, ModStep
  <2>3. (n + 1) % Depth \in Index
    BY <2>1, DivMod DEF Index
  <2> QED
    BY <2>1, <2>2, <2>3, <1>1 DEF Advance
<1>4. slot \in Slot(Spans, SpanData)
  BY DEF Slot, IoStates
<1>5. k.head \notin Window(k)
  <2>1. ASSUME NEW j \in 0 .. k.pendingCount - 1
        PROVE  (k.tail + j) % Depth # n % Depth
    <3>1. k.tail \in Nat /\ k.pendingCount \in Nat /\ k.pendingCount < Depth
      BY <1>1 DEF Index
    <3>2. /\ k.tail + j \in Nat /\ n \in Nat
          /\ k.tail + j < n /\ n - (k.tail + j) < Depth
      BY <3>1
    <3> HIDE DEF n
    <3> QED
      BY <3>2, ModDistinct
  <2> QED
    BY <2>1, <1>1 DEF Window
<1>6. Window(p) = Window(k) \cup {k.head}
  <2>1. p.tail = k.tail /\ p.pendingCount = k.pendingCount + 1
    BY <1>2
  <2>2. \A j : j \in 0 .. (k.pendingCount + 1) - 1
                <=> j \in 0 .. k.pendingCount - 1 \/ j = k.pendingCount
    BY <1>1
  <2> QED
    BY <2>1, <2>2, <1>1 DEF Window
<1>7. /\ p.slots \in [Index -> Slot(Spans, SpanData)]
      /\ p.slots[k.head] = slot
      /\ \A i \in Index \ {k.head} : p.slots[i] = k.slots[i]
  BY <1>1, <1>2, <1>4
<1>8. p \in Queue(Spans, SpanData)
  <2>1. k.pendingCount + 1 \in 0 .. Depth
    BY <1>1
  <2> QED
    BY <1>1, <1>2, <1>3, <1>7, <2>1 DEF Queue
<1>9. InFlight(p) = InFlight(k) \cup {k.head}
  BY <1>1, <1>7 DEF InFlight
<1>10. p.head = (p.tail + p.pendingCount) % Depth
  <2>0. p.tail = k.tail /\ p.pendingCount = k.pendingCount + 1
    BY <1>2
  <2>1. n + 1 = p.tail + p.pendingCount
    BY <1>1, <2>0 DEF Index
  <2> QED
    BY <1>2, <1>3, <2>1
<1>11. Ring(p)
  BY <1>1, <1>5, <1>6, <1>7, <1>8, <1>9, <1>10 DEF Ring
<1>12. Pushed(k, p, s, b)
  BY <1>1, <1>2, <1>5, <1>6, <1>7, <1>9 DEF Pushed
<1> QED
  BY <1>11, <1>12

\* A request released: the slot at tail leaves the window. (pop_front)
LEMMA PopRing ==
  ASSUME NEW k, Ring(k), ~IsEmpty(k), Front(k).io # "inflight",
         NEW p, p = PopFront(k)
  PROVE  Ring(p) /\ Popped(k, p)
<1>1. /\ k.head \in Index /\ k.tail \in Index
      /\ k.pendingCount \in 0 .. Depth /\ k.pendingCount > 0
      /\ k.slots \in [Index -> Slot(Spans, SpanData)]
      /\ k.head = (k.tail + k.pendingCount) % Depth
      /\ Window(k) \subseteq Index
  BY RingFacts DEF Ring, IsEmpty
<1>2. p = [slots |-> [k.slots EXCEPT ![k.tail].isPending = FALSE],
           head |-> k.head, tail |-> Advance(k.tail),
           pendingCount |-> k.pendingCount - 1]
  <2>1. k \in Queue(Spans, SpanData)
    BY DEF Ring
  <2> QED
    BY <2>1 DEF PopFront, Queue
<1>3. /\ k.tail \in Nat /\ k.tail + 1 \in Nat
      /\ Advance(k.tail) = (k.tail + 1) % Depth
      /\ Advance(k.tail) \in Index
  <2>1. k.tail \in Nat /\ k.tail + 1 \in Nat
    BY <1>1 DEF Index
  <2> QED
    BY <2>1, DivMod DEF Index, Advance
<1>4. ASSUME NEW j \in Nat
      PROVE  (Advance(k.tail) + j) % Depth = (k.tail + (j + 1)) % Depth
  <2>1. ((k.tail + 1) + j) % Depth = (((k.tail + 1) % Depth) + j) % Depth
    BY <1>3, ModShift
  <2>2. (k.tail + 1) + j = k.tail + (j + 1)
    BY <1>3
  <2> QED
    BY <2>1, <2>2, <1>3
<1>5. k.tail = (k.tail + 0) % Depth
  <2>1. k.tail + 0 \in Nat /\ k.tail \in 0 .. Depth - 1 /\ k.tail + 0 = (0 * Depth) + k.tail
    BY <1>1 DEF Index
  <2> QED
    BY <2>1, ModUnique
<1>6. k.tail \in Window(k)
  BY RingFacts
<1>7. Window(p) = Window(k) \ {k.tail}
  <2>1. p.tail = Advance(k.tail) /\ p.pendingCount = k.pendingCount - 1
    BY <1>2
  <2>2. ASSUME NEW j \in 1 .. k.pendingCount - 1
        PROVE  (k.tail + j) % Depth # k.tail
    <3>1. /\ k.tail + 0 \in Nat /\ k.tail + j \in Nat
          /\ k.tail + 0 < k.tail + j /\ (k.tail + j) - (k.tail + 0) < Depth
      BY <1>1, <1>3
    <3>2. (k.tail + 0) % Depth # (k.tail + j) % Depth
      BY <3>1, ModDistinct
    <3> QED
      BY <3>2, <1>5
  <2>3. ASSUME NEW i \in Window(p)
        PROVE  i \in Window(k) \ {k.tail}
    <3>1. PICK j \in 0 .. (k.pendingCount - 1) - 1 : i = (Advance(k.tail) + j) % Depth
      BY <2>1 DEF Window
    <3>2. j + 1 \in 1 .. k.pendingCount - 1 /\ j \in Nat /\ j + 1 \in 0 .. k.pendingCount - 1
      BY <1>1
    <3>3. i = (k.tail + (j + 1)) % Depth
      BY <3>1, <3>2, <1>4
    <3> QED
      BY <3>2, <3>3, <2>2 DEF Window
  <2>4. ASSUME NEW i \in Window(k) \ {k.tail}
        PROVE  i \in Window(p)
    <3>1. PICK l \in 0 .. k.pendingCount - 1 : i = (k.tail + l) % Depth
      BY DEF Window
    <3>2. l # 0
      BY <3>1, <1>5
    <3>3. l - 1 \in 0 .. (k.pendingCount - 1) - 1 /\ l - 1 \in Nat /\ (l - 1) + 1 = l
      BY <3>2, <1>1
    <3>4. i = (Advance(k.tail) + (l - 1)) % Depth
      BY <3>1, <3>3, <1>4
    <3> QED
      BY <3>3, <3>4, <2>1 DEF Window
  <2> QED
    BY <2>3, <2>4
<1>8. /\ p.slots \in [Index -> Slot(Spans, SpanData)]
      /\ \A i \in Index : /\ p.slots[i].req = k.slots[i].req
                          /\ p.slots[i].buf = k.slots[i].buf
                          /\ p.slots[i].io = k.slots[i].io
  <2>1. k.slots[k.tail] \in Slot(Spans, SpanData)
    BY <1>1
  <2>2. [k.slots[k.tail] EXCEPT !.isPending = FALSE] \in Slot(Spans, SpanData)
    BY <2>1 DEF Slot
  <2> QED
    BY <1>1, <1>2, <2>1, <2>2 DEF Slot
<1>9. p \in Queue(Spans, SpanData)
  <2>1. k.pendingCount - 1 \in 0 .. Depth
    BY <1>1
  <2> QED
    BY <1>1, <1>2, <1>3, <1>8, <2>1 DEF Queue
<1>10. InFlight(p) = InFlight(k)
  BY <1>8 DEF InFlight
<1>11. p.head = (p.tail + p.pendingCount) % Depth
  <2>1. k.pendingCount - 1 \in Nat /\ (k.pendingCount - 1) + 1 = k.pendingCount
    BY <1>1
  <2> QED
    BY <1>1, <1>2, <2>1, <1>4
<1>12. k.tail \notin InFlight(k)
  BY DEF InFlight, Front
<1>13. Ring(p)
  BY <1>1, <1>7, <1>8, <1>9, <1>10, <1>11, <1>12 DEF Ring
<1>14. Popped(k, p)
  <2>1. p.tail = Advance(k.tail) /\ p.pendingCount = k.pendingCount - 1
    BY <1>2
  <2> QED
    BY <2>1, <1>6, <1>7, <1>8, <1>10 DEF Popped
<1> QED
  BY <1>13, <1>14

\* An operation ended: its slot stays in the window. (ReadFile, WriteFile)
LEMMA DoneRing ==
  ASSUME NEW k, Ring(k), NEW i \in InFlight(k),
         NEW result \in {"ok", "failed"}, NEW b \in SpanData,
         NEW p, p = CompleteIo(k, i, result, b)
  PROVE  Ring(p) /\ Completed(k, p, i, result, b)
<1>1. /\ k.head \in Index /\ k.tail \in Index
      /\ k.pendingCount \in 0 .. Depth
      /\ k.slots \in [Index -> Slot(Spans, SpanData)]
      /\ Window(k) \subseteq Index
      /\ i \in Window(k)
      /\ i \in Index
  BY RingFacts DEF Ring, InFlight
<1>2. p = [slots |-> [k.slots EXCEPT ![i].io = result, ![i].buf = b],
           head |-> k.head, tail |-> k.tail, pendingCount |-> k.pendingCount]
  <2>1. k \in Queue(Spans, SpanData)
    BY DEF Ring
  <2> QED
    BY <2>1 DEF CompleteIo, Queue
<1>3. /\ p.slots \in [Index -> Slot(Spans, SpanData)]
      /\ p.slots[i].req = k.slots[i].req /\ p.slots[i].buf = b
      /\ p.slots[i].io = result
      /\ \A j \in Index \ {i} : p.slots[j] = k.slots[j]
  BY <1>1, <1>2 DEF Slot, IoStates, Results
<1>4. p \in Queue(Spans, SpanData)
  BY <1>1, <1>2, <1>3 DEF Queue
<1>5. Window(p) = Window(k)
  BY <1>2 DEF Window
<1>6. InFlight(p) = InFlight(k) \ {i}
  BY <1>1, <1>3 DEF InFlight
<1>7. Ring(p)
  <2>1. p.head = (p.tail + p.pendingCount) % Depth
    BY <1>2 DEF Ring
  <2> QED
    BY <1>1, <1>3, <1>4, <1>5, <1>6, <2>1 DEF Ring
<1>8. Completed(k, p, i, result, b)
  BY <1>1, <1>2, <1>3, <1>5, <1>6 DEF Completed
<1> QED
  BY <1>7, <1>8

-----------------------------------------------------------------------------
(* Runs of clusters.                                                       *)

LEMMA MinFacts ==
  ASSUME NEW T, T \subseteq Nat, T # {}
  PROVE  Min(T) \in T /\ \A m \in T : Min(T) <= m
BY LeastNumber DEF Min

\* Run r is in S, at or after n, and nothing of S lies between n and r.
RunAfter(S, n, r) ==
  /\ r \in Spans
  /\ r.lo >= n
  /\ In(r) \subseteq S
  /\ \A c \in S : c >= n => c >= r.lo

\* What the iterator of slices and the search for a dirty span yield.
\* (SlicedRunIterator, the loop over the chunk)
LEMMA FirstRunFacts ==
  ASSUME NEW S \in SUBSET Clusters, NEW n \in Nat, \E c \in S : c >= n,
         NEW r, r = FirstRun(S, n, BatchLen)
  PROVE  RunAfter(S, n, r)
<1> DEFINE above == {c \in S : c >= n}
           lo == Min(above)
           stops == {c \in lo .. lo + BatchLen : c \notin S \/ c = lo + BatchLen}
           end == Min(stops)
<1>1. r = [lo |-> lo, hi |-> end - 1]
  BY DEF FirstRun
<1>2. Clusters \subseteq Nat /\ \A c \in Clusters : c <= ClusterCount - 1
  BY DEF Clusters
<1>3. lo \in S /\ lo >= n /\ \A c \in S : c >= n => lo <= c
  <2>1. above \subseteq Nat /\ above # {}
    BY <1>2
  <2>2. Min(above) \in above /\ \A m \in above : Min(above) <= m
    <3> HIDE DEF above
    <3> QED
      BY <2>1, MinFacts
  <2> QED
    BY <2>2
<1>4. lo \in Nat /\ lo \in Clusters
  BY <1>2, <1>3
<1> HIDE DEF lo
<1>5. end \in stops /\ \A m \in stops : end <= m
  <2>1. stops \subseteq Nat /\ lo + BatchLen \in stops
    BY <1>4
  <2> HIDE DEF stops
  <2> QED
    BY <2>1, MinFacts
<1> HIDE DEF end
<1>6. end \in Nat /\ end > lo /\ end <= lo + BatchLen
  BY <1>3, <1>4, <1>5
<1>7. \A c \in lo .. end - 1 : c \in S
  BY <1>4, <1>5, <1>6
<1>8. end - 1 \in lo .. end - 1
  BY <1>4, <1>6
<1>9. end - 1 \in Clusters
  BY <1>7, <1>8
<1>10. r \in Spans /\ r.lo = lo /\ r.hi = end - 1
  BY <1>1, <1>4, <1>6, <1>9 DEF Spans, Span
<1>11. In(r) \subseteq S
  BY <1>7, <1>10 DEF In
<1>12. \A c \in S : c >= n => c >= r.lo
  BY <1>2, <1>3, <1>4, <1>10
<1> QED
  BY <1>3, <1>4, <1>10, <1>11, <1>12 DEF RunAfter

\* A span is clusters, from the first to the last.
LEMMA SpanFacts ==
  ASSUME NEW s \in Spans
  PROVE  /\ s.lo \in Nat /\ s.hi \in Nat /\ s.lo <= s.hi
         /\ s.lo < ClusterCount /\ s.hi < ClusterCount
         /\ In(s) \subseteq Clusters
         /\ IsFiniteSet(In(s)) /\ Cardinality(In(s)) = Length(s)
<1>1. /\ s.lo \in Nat /\ s.hi \in Nat /\ s.lo <= s.hi
      /\ s.lo < ClusterCount /\ s.hi < ClusterCount
      /\ s.lo \in Int /\ s.hi \in Int
  BY DEF Spans, Span, Clusters
<1>2. In(s) \subseteq Clusters
  BY <1>1 DEF In, Clusters
<1>3. IsFiniteSet(s.lo .. s.hi) /\ Cardinality(s.lo .. s.hi) = s.hi - s.lo + 1
  <2>1. /\ IsFiniteSet(s.lo .. s.hi)
        /\ Cardinality(s.lo .. s.hi) = IF s.lo > s.hi THEN 0 ELSE s.hi - s.lo + 1
    BY <1>1, FS_Interval
  <2>2. ~ (s.lo > s.hi)
    BY <1>1
  <2> QED
    BY <2>1, <2>2
<1> QED
  BY <1>1, <1>2, <1>3 DEF In, Length

\* Data for a span.
LEMMA SpanDataOf ==
  ASSUME NEW s \in Spans, NEW f \in [In(s) -> Content]
  PROVE  f \in SpanData
BY DEF SpanData, In

\* Sets of clusters are finite, and disjoint ones add up.
LEMMA Counting ==
  ASSUME NEW S \in SUBSET Clusters, NEW T \in SUBSET Clusters, S \cap T = {}
  PROVE  /\ Cardinality(S) \in Nat /\ Cardinality(T) \in Nat
         /\ Cardinality(S \cup T) = Cardinality(S) + Cardinality(T)
<1>1. IsFiniteSet(Clusters)
  BY FS_Interval DEF Clusters
<1>2. IsFiniteSet(S) /\ IsFiniteSet(T)
  BY <1>1, FS_Subset
<1>3. Cardinality(S \cap T) = 0
  BY FS_EmptySet
<1>4. Cardinality(S \cup T) = Cardinality(S) + Cardinality(T) - Cardinality(S \cap T)
  BY <1>2, FS_Union
<1>5. Cardinality(S) \in Nat /\ Cardinality(T) \in Nat
  BY <1>2, FS_CardinalityType
<1> QED
  BY <1>3, <1>4, <1>5

-----------------------------------------------------------------------------
(* The initial states.                                                     *)

LEMMA EmptyRing == Ring(EmptyQueue) /\ Window(EmptyQueue) = {}
                   /\ InFlight(EmptyQueue) = {} /\ IsEmpty(EmptyQueue)
<1>1. /\ EmptyQueue.slots = [i \in Index |-> FreeSlot]
      /\ EmptyQueue.head = 0 /\ EmptyQueue.tail = 0
      /\ EmptyQueue.pendingCount = 0
  BY DEF EmptyQueue
<1>2. Window(EmptyQueue) = {}
  BY <1>1 DEF Window
<1>3. InFlight(EmptyQueue) = {}
  BY <1>1 DEF InFlight, FreeSlot
<1>4. 0 \in Index /\ 0 \in 0 .. Depth
  BY DEF Index
<1>5. EmptyQueue \in Queue(Spans, SpanData)
  <2>1. FreeSlot \in Slot(Spans, SpanData)
    BY DEF FreeSlot, Slot, IoStates
  <2> QED
    BY <2>1, <1>4 DEF EmptyQueue, Queue
<1>6. 0 % Depth = 0
  <2>1. 0 \in 0 .. Depth - 1 /\ 0 = (0 * Depth) + 0 /\ 0 \in Nat /\ 0 \in Int
    OBVIOUS
  <2> QED
    BY <2>1, ModUnique
<1>7. EmptyQueue.head = (EmptyQueue.tail + EmptyQueue.pendingCount) % Depth
  BY <1>1, <1>6
<1> QED
  BY <1>1, <1>2, <1>3, <1>5, <1>7 DEF Ring, IsEmpty

LEMMA InitHolds == Init => IInv
<1> SUFFICES ASSUME Init
             PROVE  IInv
  OBVIOUS
<1> USE EmptyRing
<1>1. /\ srcQ = EmptyQueue /\ destQ = EmptyQueue /\ wrQ = EmptyQueue
      /\ next = 0 /\ lcn = None /\ diffMap = {} /\ pc = "open"
      /\ mode \in Modes /\ sel \subseteq Clusters /\ stale \subseteq Clusters
      /\ stats = [checked |-> 0, differing |-> 0, spans |-> 0]
  BY DEF Init
<1>2. dest \in [Clusters -> Content] /\ \A c \in Clusters : dest[c] = Original(c)
  BY DEF Init, Content, Original, Source
<1>3. TypeOK
  BY <1>1, <1>2 DEF TypeOK, Ring
<1>4. Ring(srcQ) /\ Ring(destQ) /\ Ring(wrQ)
  BY <1>1
<1>5. Waiting = Clusters /\ Unclosed = Clusters
  BY <1>1 DEF Waiting, Unclosed, Clusters
<1>6. Chunks /\ AtHand /\ InStep
  BY <1>1 DEF Chunks, AtHand, InStep
<1>7. Writes /\ Unused /\ Ended
  BY <1>1 DEF Writes, Unused, Ended
<1>8. Untouched
  BY <1>1, <1>2 DEF Untouched, ClustersOf, Waiting
<1>9. Kept
  BY <1>1, <1>5 DEF Kept
<1>10. Counted
  <2>1. sel \ Clusters = {} /\ (sel \cap stale) \ Clusters = {}
    BY <1>1
  <2> QED
    BY <1>1, <1>5, <2>1, FS_EmptySet DEF Counted
<1>11. WritesInPlace
  BY <1>1 DEF WritesInPlace, NoOverlap, OnlyNecessaryWrites, ClustersOf
<1> QED
  BY <1>3, <1>4, <1>6, <1>7, <1>8, <1>9, <1>10, <1>11 DEF IInv

-----------------------------------------------------------------------------
(* What the invariant says about a state in the loop.                      *)

\* The types of the variables, and the chunks as sets of clusters.
LEMMA StateFacts ==
  ASSUME IInv
  PROVE  /\ Clusters \subseteq Nat /\ None \notin Nat /\ Old \notin Nat
         /\ sel \subseteq Clusters /\ stale \subseteq Clusters
         /\ dest \in [Clusters -> Content] /\ next \in 0 .. ClusterCount
         /\ mode \in {"compare", "rcw", "copy"}
         /\ diffMap \subseteq Clusters
         /\ \A i \in Window(srcQ) : srcQ.slots[i].req \in Spans /\ Slice(i) \subseteq Clusters
         /\ \A i \in Window(wrQ) : wrQ.slots[i].req \in Spans /\ In(wrQ.slots[i].req) \subseteq Clusters
         /\ Waiting \subseteq Clusters /\ Unclosed \subseteq Clusters
<1>1. Clusters \subseteq Nat
  BY DEF Clusters
<1>2. \A i \in Window(srcQ) : srcQ.slots[i].req \in Spans /\ Slice(i) \subseteq Clusters
  BY SpanFacts DEF IInv, Ring, Slice
<1>3. \A i \in Window(wrQ) : wrQ.slots[i].req \in Spans /\ In(wrQ.slots[i].req) \subseteq Clusters
  BY SpanFacts DEF IInv, Ring
<1> QED
  BY <1>1, <1>2, <1>3 DEF IInv, TypeOK, Waiting, Unclosed

\* A cluster shows whether it differs.
LEMMA Differs ==
  ASSUME NEW c \in Clusters
  PROVE  Original(c) # Source(c) <=> c \in stale
BY DEF Original, Source, Clusters

\* The chunk at hand: what the buffers hold, and what is dirty. (memcmp)
LEMMA ChunkFacts ==
  ASSUME IInv, pc = "open", lcn # None
  PROVE  /\ srcQ.tail \in Window(srcQ) /\ Chunk = Slice(srcQ.tail)
         /\ Chunk \subseteq sel /\ Chunk \subseteq Clusters
         /\ lcn \in Nat
         /\ \A c \in Chunk : Front(srcQ).buf[c] = Source(c)
         /\ Dirty = IF mode = "copy" THEN Chunk ELSE Chunk \cap stale
         /\ \A c \in Chunk : c < next /\ (c \in Waiting <=> c >= lcn) /\ c \in Unclosed
         /\ \A i \in Window(srcQ) \ {srcQ.tail} : Slice(i) \cap Chunk = {}
         /\ mode # "copy" => srcQ.tail \notin InFlight(destQ)
<1>1. /\ FrontIs(srcQ, "ok") /\ lcn \in Nat
      /\ mode # "copy" => FrontIs(destQ, "ok")
      /\ Ring(srcQ)
  BY DEF IInv, AtHand
<1>2. /\ srcQ.tail \in Window(srcQ) /\ srcQ.slots[srcQ.tail].io = "ok"
      /\ Window(srcQ) \subseteq Index
  BY <1>1, RingFacts DEF FrontIs, Front
<1>3. Chunk = Slice(srcQ.tail)
  BY DEF Chunk, Slice, Front
<1>4. /\ Chunk \subseteq sel /\ srcQ.slots[srcQ.tail].req.hi < next
      /\ srcQ.slots[srcQ.tail].buf = [c \in Chunk |-> Source(c)]
      /\ \A i \in Window(srcQ) \ {srcQ.tail} : Slice(i) \cap Chunk = {}
  BY <1>2, <1>3 DEF IInv, Chunks
<1>5. /\ Clusters \subseteq Nat /\ Chunk \subseteq Clusters
      /\ srcQ.slots[srcQ.tail].req \in Spans /\ next \in Nat
  BY <1>2, <1>3, StateFacts
<1>6. \A c \in Chunk : c < next
  <2>1. \A c \in Chunk : c \in Nat /\ c <= srcQ.slots[srcQ.tail].req.hi
    BY <1>3, <1>5 DEF Slice, In
  <2>2. srcQ.slots[srcQ.tail].req.hi \in Nat
    BY <1>5, SpanFacts
  <2> QED
    BY <1>4, <1>5, <2>1, <2>2
<1>7. \A c \in Chunk : Front(srcQ).buf[c] = Source(c)
  BY <1>4 DEF Front
<1>8. ASSUME mode # "copy"
      PROVE  /\ destQ.tail = srcQ.tail
             /\ destQ.slots[srcQ.tail].io = "ok"
             /\ destQ.slots[srcQ.tail].buf = [c \in Chunk |-> Original(c)]
  BY <1>1, <1>2, <1>3, <1>8 DEF IInv, InStep, FrontIs, Front
<1>9. Dirty = IF mode = "copy" THEN Chunk ELSE Chunk \cap stale
  <2>1. CASE mode = "copy"
    BY <2>1 DEF Dirty
  <2>2. CASE mode # "copy"
    <3>1. \A c \in Chunk : Front(destQ).buf[c] = Original(c)
      BY <1>8, <2>2 DEF Front
    <3>2. \A c \in Chunk : Front(srcQ).buf[c] # Front(destQ).buf[c] <=> c \in stale
      BY <1>5, <1>7, <3>1, Differs
    <3> QED
      BY <2>2, <3>2 DEF Dirty
  <2> QED
    BY <2>1, <2>2
<1>10. ASSUME NEW c \in Chunk
       PROVE  (c \in Waiting <=> c >= lcn) /\ c \in Unclosed
  <2>1. c \in Clusters /\ c \in Nat /\ ~ (c >= next)
    BY <1>5, <1>6
  <2>2. \A i \in Window(srcQ) : c \in Slice(i) <=> i = srcQ.tail
    BY <1>2, <1>3, <1>4
  <2> QED
    BY <1>2, <2>1, <2>2 DEF Waiting, Unclosed
<1>11. mode # "copy" => srcQ.tail \notin InFlight(destQ)
  BY <1>8 DEF InFlight
<1> QED
  BY <1>1, <1>2, <1>3, <1>4, <1>5, <1>6, <1>7, <1>9, <1>10, <1>11

-----------------------------------------------------------------------------
(* The exceptions.                                                         *)

\* Ring p holds the writes of k, but for some that were waited for.
SameWrites(k, p) ==
  /\ Window(p) \subseteq Window(k)
  /\ InFlight(p) = InFlight(k)
  /\ \A i \in Index : /\ p.slots[i].req = k.slots[i].req
                      /\ p.slots[i].buf = k.slots[i].buf
                      /\ p.slots[i].io = k.slots[i].io

\* What is left to hold after an exception is about the destination.
LEMMA ThrownStep ==
  ASSUME IInv, pc' = "thrown", UNCHANGED <<frozen, dest, next, destQ, lcn>>,
         Ring(srcQ'), Ring(wrQ'), SameWrites(wrQ, wrQ'), Unused',
         diffMap' \subseteq Clusters,
         stats' \in [checked : Nat, differing : Nat, spans : Nat]
  PROVE  IInv'
<1>1. /\ UNCHANGED <<mode, sel, stale>>
      /\ UNCHANGED <<dest, next, destQ, lcn>>
  BY DEF frozen
<1>2. Window(wrQ') \subseteq Index /\ InFlight(wrQ') \subseteq Index
  BY RingFacts DEF InFlight
<1>3. TypeOK'
  BY <1>1 DEF IInv, TypeOK, Ring
<1>4. Writes'
  BY <1>1, <1>2 DEF IInv, Writes, SameWrites
<1>5. ClustersOf(wrQ', InFlight(wrQ')) = ClustersOf(wrQ, InFlight(wrQ))
  BY <1>2 DEF SameWrites, ClustersOf
<1>6. WritesInPlace'
  <2>1. NoOverlap'
    BY <1>1, <1>2, <1>5 DEF IInv, WritesInPlace, NoOverlap, SameWrites
  <2>2. OnlyNecessaryWrites'
    BY <1>1, <1>5 DEF IInv, WritesInPlace, OnlyNecessaryWrites
  <2> QED
    BY <2>1, <2>2 DEF WritesInPlace
<1>7. Ring(destQ')
  BY <1>1 DEF IInv
<1> QED
  BY <1>3, <1>4, <1>6, <1>7
  DEF IInv, Chunks, AtHand, InStep, Untouched, Ended, Kept, Counted

\* The slice that is pushed next.
LEMMA SliceFacts ==
  ASSUME IInv, MoreSlices, NEW s, s = NextSlice
  PROVE  s \in Spans /\ RunAfter(sel, next, s)
<1>1. sel \in SUBSET Clusters /\ next \in Nat
  BY StateFacts
<1>2. RunAfter(sel, next, s)
  BY <1>1, FirstRunFacts DEF MoreSlices, NextSlice
<1> QED
  BY <1>2 DEF RunAfter

\* The dirty span that is reported next.
LEMMA DirtyFacts ==
  ASSUME IInv, pc = "open", MoreDirty, NEW s, s = DirtySpan
  PROVE  s \in Spans /\ RunAfter(Dirty, lcn, s)
<1>1. Dirty \in SUBSET Clusters /\ lcn \in Nat
  BY ChunkFacts DEF MoreDirty
<1>2. RunAfter(Dirty, lcn, s)
  BY <1>1, FirstRunFacts DEF MoreDirty, DirtySpan
<1> QED
  BY <1>2 DEF RunAfter

\* Counters after a span was noted.
LEMMA NoteTypes ==
  ASSUME IInv, NEW s \in Spans, Note(s)
  PROVE  /\ diffMap' \subseteq Clusters
         /\ stats' \in [checked : Nat, differing : Nat, spans : Nat]
<1>1. Length(s) \in Nat /\ In(s) \subseteq Clusters
  BY SpanFacts DEF Length
<1>2. diffMap \subseteq Clusters /\ stats \in [checked : Nat, differing : Nat, spans : Nat]
  BY DEF IInv, TypeOK
<1>3. CASE mode = "copy"
  BY <1>2, <1>3 DEF Note
<1>4. CASE mode # "copy"
  BY <1>1, <1>2, <1>4 DEF Note
<1> QED
  BY <1>3, <1>4

\* A ring keeps its writes when nothing or a finished one is waited for.
LEMMA RoomFacts ==
  ASSUME IInv, IsFull(wrQ) => FrontIs(wrQ, "ok"),
         NEW room, room = IF IsFull(wrQ) THEN PopFront(wrQ) ELSE wrQ
  PROVE  /\ Ring(room) /\ ~IsFull(room) /\ SameWrites(wrQ, room)
         /\ \A i \in Window(wrQ) : i \in Window(room) \/ wrQ.slots[i].io = "ok"
<1>1. Ring(wrQ)
  BY DEF IInv
<1>2. CASE IsFull(wrQ)
  <2>1. ~IsEmpty(wrQ) /\ Front(wrQ).io = "ok" /\ room = PopFront(wrQ)
    BY <1>2 DEF FrontIs
  <2>2. Ring(room) /\ Popped(wrQ, room)
    BY <1>1, <2>1, PopRing
  <2>3. ~IsFull(room)
    BY <1>1, <2>2, RingFacts DEF Popped, IsFull
  <2> QED
    BY <2>1, <2>2, <2>3 DEF Popped, SameWrites, Front
<1>3. CASE ~IsFull(wrQ)
  BY <1>1, <1>3 DEF SameWrites
<1> QED
  BY <1>2, <1>3

LEMMA ThrowSteps ==
  ASSUME IInv, ReadNotIssued \/ ReadWaitFails \/ WriteNotIssued \/ WriteWaitFails
  PROVE  IInv'
<1>0. /\ Ring(srcQ) /\ Ring(wrQ) /\ Unused /\ SameWrites(wrQ, wrQ)
      /\ diffMap \subseteq Clusters
      /\ stats \in [checked : Nat, differing : Nat, spans : Nat]
  BY DEF IInv, TypeOK, SameWrites
<1>1. CASE ReadNotIssued
  <2>1. /\ pc' = "thrown"
        /\ UNCHANGED <<frozen, dest, next, destQ, wrQ, lcn, diffMap, stats>>
        /\ MoreSlices /\ ~IsFull(srcQ)
        /\ srcQ' = srcQ \/ srcQ' = PushBack(srcQ, NextSlice, None)
    BY <1>1 DEF ReadNotIssued, CanPush
  <2>2. NextSlice \in Spans
    BY <2>1, SliceFacts
  <2>3. Ring(srcQ')
    BY <1>0, <2>1, <2>2, PushRing
  <2>4. Unused'
    BY <1>0, <2>1 DEF Unused, frozen
  <2>5. SameWrites(wrQ, wrQ') /\ Ring(wrQ')
    BY <1>0, <2>1
  <2> QED
    BY <1>0, <2>1, <2>3, <2>4, <2>5, ThrownStep
<1>2. CASE ReadWaitFails
  <2>1. /\ pc' = "thrown"
        /\ UNCHANGED <<frozen, dest, next, srcQ, destQ, wrQ, lcn, diffMap, stats>>
    BY <1>2 DEF ReadWaitFails
  <2>2. Unused'
    BY <1>0, <2>1 DEF Unused, frozen
  <2>3. SameWrites(wrQ, wrQ') /\ Ring(wrQ') /\ Ring(srcQ')
    BY <1>0, <2>1
  <2> QED
    BY <1>0, <2>1, <2>2, <2>3, ThrownStep
<1>3. CASE WriteNotIssued
  <2>1. /\ pc' = "thrown" /\ pc = "open" /\ MoreDirty /\ mode # "compare"
        /\ UNCHANGED <<frozen, dest, next, srcQ, destQ, lcn>>
        /\ Note(DirtySpan)
        /\ IsFull(wrQ) => FrontIs(wrQ, "ok")
        /\ wrQ' = IF IsFull(wrQ) THEN PopFront(wrQ) ELSE wrQ
    BY <1>3 DEF WriteNotIssued
  <2>2. Ring(wrQ') /\ SameWrites(wrQ, wrQ')
    BY <2>1, RoomFacts
  <2>3. DirtySpan \in Spans
    BY <2>1, DirtyFacts
  <2>4. /\ diffMap' \subseteq Clusters
        /\ stats' \in [checked : Nat, differing : Nat, spans : Nat]
    BY <2>1, <2>3, NoteTypes
  <2>5. Unused' /\ Ring(srcQ')
    BY <1>0, <2>1 DEF Unused, frozen
  <2> QED
    BY <2>1, <2>2, <2>4, <2>5, ThrownStep
<1>4. CASE WriteWaitFails
  <2>1. /\ pc' = "thrown"
        /\ UNCHANGED <<frozen, dest, next, srcQ, destQ, wrQ, lcn>>
        /\ \/ UNCHANGED <<diffMap, stats>>
           \/ pc = "open" /\ MoreDirty /\ Note(DirtySpan)
    BY <1>4 DEF WriteWaitFails
  <2>2. /\ diffMap' \subseteq Clusters
        /\ stats' \in [checked : Nat, differing : Nat, spans : Nat]
    <3>1. CASE UNCHANGED <<diffMap, stats>>
      BY <1>0, <3>1
    <3>2. CASE pc = "open" /\ MoreDirty /\ Note(DirtySpan)
      <4>1. DirtySpan \in Spans
        BY <3>2, DirtyFacts
      <4> QED
        BY <3>2, <4>1, NoteTypes
    <3> QED
      BY <2>1, <3>1, <3>2
  <2>3. Unused'
    BY <1>0, <2>1 DEF Unused, frozen
  <2>4. SameWrites(wrQ, wrQ') /\ Ring(wrQ') /\ Ring(srcQ')
    BY <1>0, <2>1
  <2> QED
    BY <2>1, <2>2, <2>3, <2>4, ThrownStep
<1> QED
  BY <1>1, <1>2, <1>3, <1>4

-----------------------------------------------------------------------------
(* The loop.                                                               *)

\* One slice goes to the readers. (try_push_back)
LEMMA PushSliceStep ==
  ASSUME IInv, PushSlice
  PROVE  IInv'
<1> DEFINE s == NextSlice
<1>1. /\ pc = "open" /\ lcn = None /\ MoreSlices /\ ~IsFull(srcQ)
      /\ srcQ' = PushBack(srcQ, s, None)
      /\ destQ' = IF mode = "copy" THEN destQ ELSE PushBack(destQ, s, None)
      /\ next' = s.hi + 1
      /\ UNCHANGED <<mode, sel, stale, dest, wrQ, lcn, diffMap, stats, pc>>
  BY DEF PushSlice, CanPush, frozen
<1>2. s \in Spans /\ RunAfter(sel, next, s)
  BY <1>1, SliceFacts
<1> HIDE DEF s
<1>3. /\ s.lo \in Nat /\ s.hi \in Nat /\ s.lo <= s.hi /\ s.hi < ClusterCount
      /\ next <= s.lo /\ In(s) \subseteq sel /\ In(s) \subseteq Clusters
      /\ \A c \in sel : c >= next => c >= s.lo
      /\ Clusters \subseteq Nat /\ sel \subseteq Clusters
      /\ next \in Nat
  BY <1>2, SpanFacts, StateFacts DEF RunAfter
<1>4. next' \in 0 .. ClusterCount /\ next < next'
  BY <1>1, <1>3
<1>5. Ring(srcQ) /\ Ring(destQ) /\ Ring(wrQ)
  BY DEF IInv
<1>6. Ring(srcQ') /\ Pushed(srcQ, srcQ', s, None)
  BY <1>1, <1>2, <1>5, PushRing
<1>7. mode # "copy" => Ring(destQ') /\ Pushed(destQ, destQ', s, None)
  <2>1. mode # "copy" => ~IsFull(destQ)
    BY <1>1 DEF IInv, InStep, IsFull
  <2> QED
    BY <1>1, <1>2, <1>5, <2>1, PushRing
<1>8. Ring(destQ')
  BY <1>1, <1>5, <1>7
<1>9. TypeOK'
  BY <1>1, <1>4, <1>6, <1>8 DEF IInv, TypeOK, Ring
<1>. PICK h : h = srcQ.head
  OBVIOUS
<1>10. /\ Window(srcQ) \subseteq Index /\ h \in Index \ Window(srcQ)
       /\ Window(srcQ') = Window(srcQ) \cup {h}
       /\ \A i \in Window(srcQ) : srcQ'.slots[i] = srcQ.slots[i]
       /\ srcQ'.slots[h].req = s /\ srcQ'.slots[h].io = "inflight"
       /\ srcQ'.tail = srcQ.tail /\ srcQ'.pendingCount = srcQ.pendingCount + 1
  BY <1>5, <1>6, RingFacts DEF Pushed
<1>11. /\ \A i \in Window(srcQ) : Slice(i)' = Slice(i)
       /\ Slice(h)' = In(s)
  BY <1>10 DEF Slice
<1>12. \A i \in Window(srcQ) : /\ Slice(i) \subseteq sel
                              /\ srcQ.slots[i].req.hi < next
                              /\ srcQ.slots[i].req.hi \in Nat
                              /\ \A c \in Slice(i) : c < next /\ c \in Nat
  <2>1. ASSUME NEW i \in Window(srcQ)
        PROVE  /\ Slice(i) \subseteq sel
               /\ srcQ.slots[i].req.hi < next
               /\ srcQ.slots[i].req.hi \in Nat /\ srcQ.slots[i].req.lo \in Nat
    BY <1>1, StateFacts, SpanFacts DEF IInv, Chunks
  <2>2. ASSUME NEW i \in Window(srcQ), NEW c \in Slice(i)
        PROVE  c < next /\ c \in Nat
    BY <2>1, <1>3 DEF Slice, In
  <2> QED
    BY <2>1, <2>2
<1>13. \A c \in In(s) : c >= next /\ c < next' /\ c \in Nat
  BY <1>1, <1>3 DEF In
<1>14. Chunks'
  <2>1. ASSUME NEW i \in Window(srcQ)'
        PROVE  /\ Slice(i)' \subseteq sel
               /\ srcQ'.slots[i].req.hi < next'
               /\ srcQ'.slots[i].io = "ok" =>
                    srcQ'.slots[i].buf = [c \in Slice(i)' |-> Source(c)]
    <3>1. CASE i \in Window(srcQ)
      <4>1. srcQ.slots[i].req.hi < next'
        BY <1>3, <1>4, <1>12, <3>1
      <4> QED
        BY <1>1, <1>10, <1>11, <1>12, <3>1, <4>1 DEF IInv, Chunks
    <3>2. CASE i = h
      <4>1. s.hi < next'
        BY <1>1, <1>3
      <4> QED
        BY <1>3, <1>10, <1>11, <3>2, <4>1
    <3> QED
      BY <1>10, <3>1, <3>2
  <2>2. ASSUME NEW i \in Window(srcQ)', NEW j \in Window(srcQ)', i # j
        PROVE  Slice(i)' \cap Slice(j)' = {}
    <3>1. CASE i \in Window(srcQ) /\ j \in Window(srcQ)
      BY <1>1, <1>11, <2>2, <3>1 DEF IInv, Chunks
    <3>2. \A l \in Window(srcQ) : Slice(l) \cap In(s) = {}
      BY <1>3, <1>12, <1>13
    <3>3. CASE i = h /\ j \in Window(srcQ)
      BY <1>11, <3>2, <3>3
    <3>4. CASE j = h /\ i \in Window(srcQ)
      BY <1>11, <3>2, <3>4
    <3> QED
      BY <1>10, <2>2, <3>1, <3>3, <3>4
  <2> QED
    BY <1>1, <2>1, <2>2 DEF Chunks
<1>15. AtHand'
  BY <1>1 DEF AtHand
<1>16. InStep'
  <2> SUFFICES ASSUME mode # "copy"
               PROVE  /\ destQ'.tail = srcQ'.tail /\ destQ'.pendingCount = srcQ'.pendingCount
                      /\ \A i \in Window(srcQ)' :
                           /\ destQ'.slots[i].req = srcQ'.slots[i].req
                           /\ destQ'.slots[i].io = "ok" =>
                                destQ'.slots[i].buf = [c \in Slice(i)' |-> Original(c)']
    BY <1>1 DEF InStep
  <2>1. /\ destQ.tail = srcQ.tail /\ destQ.pendingCount = srcQ.pendingCount
        /\ destQ.head = h /\ Window(destQ) = Window(srcQ)
    BY <1>1, <1>5 DEF IInv, InStep, Ring, Window
  <2>2. /\ destQ'.tail = srcQ'.tail /\ destQ'.pendingCount = srcQ'.pendingCount
        /\ \A i \in Window(srcQ) : destQ'.slots[i] = destQ.slots[i]
        /\ destQ'.slots[h].req = s /\ destQ'.slots[h].io = "inflight"
    BY <1>7, <1>10, <2>1 DEF Pushed
  <2>3. \A c : Original(c)' = Original(c)
    BY <1>1 DEF Original, Source
  <2>4. ASSUME NEW i \in Window(srcQ)
        PROVE  /\ destQ.slots[i].req = srcQ.slots[i].req
               /\ destQ.slots[i].io = "ok" =>
                     destQ.slots[i].buf = [c \in Slice(i) |-> Original(c)]
    BY <1>1 DEF IInv, InStep
  <2> QED
    BY <1>10, <1>11, <2>2, <2>3, <2>4
<1>17. Writes' /\ Ended'
  BY <1>1 DEF IInv, Writes, Ended
<1>18. \A c \in Clusters :
         c \in Waiting' <=> c \in Waiting /\ (c < next \/ c >= next' \/ c \in In(s))
  <2>1. ASSUME NEW c \in Clusters
        PROVE  c \in Waiting' <=> c >= next' \/ c \in In(s) \/ \E i \in Window(srcQ) : c \in Slice(i)
    BY <1>1, <1>10, <1>11 DEF Waiting, Clusters
  <2>2. ASSUME NEW c \in Clusters
        PROVE  c \in Waiting <=> c >= next \/ \E i \in Window(srcQ) : c \in Slice(i)
    BY <1>1 DEF Waiting
  <2>3. \A c \in Clusters : c >= next' => c >= next
    BY <1>3, <1>4
  <2>4. \A c \in Clusters : ~ (c >= next /\ c < next)
    BY <1>3
  <2> QED
    BY <1>3, <1>12, <1>13, <2>1, <2>2, <2>3, <2>4
<1>19. Waiting' \subseteq Waiting /\ Waiting' \subseteq Clusters
  <2>1. Waiting' \subseteq Clusters
    BY DEF Waiting, Clusters
  <2> QED
    BY <1>18, <2>1
<1>20. sel \ Waiting' = sel \ Waiting
  <2>1. \A c \in sel : c < next \/ c >= next' \/ c \in In(s)
    BY <1>1, <1>3, <1>4 DEF In
  <2>2. \A c \in sel : c \in Waiting' <=> c \in Waiting
    BY <1>3, <1>18, <2>1
  <2> QED
    BY <2>2, <1>1
<1>21. Unclosed' = Waiting' /\ Unclosed = Waiting
  BY <1>1 DEF Unclosed, Waiting
<1>22. Untouched'
  <2>1. \A c : Original(c)' = Original(c)
    BY <1>1 DEF Original, Source
  <2> QED
    BY <1>1, <1>19, <2>1 DEF IInv, Untouched, ClustersOf
<1>23. Kept'
  BY <1>1, <1>20 DEF IInv, Kept, Written, Source, ClustersOf
<1>24. Counted'
  <2>1. (sel \cap stale) \ Waiting' = (sel \cap stale) \ Waiting
    BY <1>20
  <2> QED
    BY <1>1, <1>20, <1>21, <2>1 DEF IInv, Counted
<1>25. Unused'
  BY <1>1 DEF IInv, Unused
<1>26. WritesInPlace'
  <2>1. NoOverlap'
    <3>1. CASE mode = "copy"
      <4>1. destQ' = destQ /\ wrQ' = wrQ
        BY <1>1, <3>1
      <4> QED
        BY <4>1 DEF IInv, WritesInPlace, NoOverlap, ClustersOf
    <3>2. CASE mode # "copy"
      <4>1. ClustersOf(destQ', InFlight(destQ')) = ClustersOf(destQ, InFlight(destQ)) \cup In(s)
        BY <1>7, <3>2, <1>5, RingFacts DEF Pushed, ClustersOf
      <4>2. In(s) \subseteq Waiting
        BY <1>3, <1>13 DEF Waiting
      <4>3. In(s) \cap ClustersOf(wrQ, InFlight(wrQ)) = {}
        BY <1>1, <4>2 DEF IInv, Untouched
      <4> QED
        BY <1>1, <4>1, <4>3 DEF IInv, WritesInPlace, NoOverlap
    <3> QED
      BY <3>1, <3>2
  <2>2. OnlyNecessaryWrites'
    BY <1>1 DEF IInv, WritesInPlace, OnlyNecessaryWrites, ClustersOf
  <2> QED
    BY <2>1, <2>2 DEF WritesInPlace
<1> QED
  BY <1>1, <1>5, <1>6, <1>8, <1>9, <1>14, <1>15, <1>16, <1>17, <1>22, <1>23, <1>24, <1>25, <1>26
  DEF IInv

\* A step that moves nothing but the position of the program.
LEMMA StillStep ==
  ASSUME IInv, UNCHANGED <<frozen, dest, next, srcQ, destQ, wrQ, diffMap, stats>>,
         pc # "thrown", pc' \in {"open", "flush", "done"},
         lcn' \in 0 .. ClusterCount \cup {None},
         Waiting' = Waiting, AtHand', Ended'
  PROVE  IInv'
<1>1. /\ UNCHANGED <<mode, sel, stale>>
      /\ UNCHANGED <<dest, next, srcQ, destQ, wrQ, diffMap, stats>>
  BY DEF frozen
<1>2. TypeOK' /\ Ring(srcQ') /\ Ring(destQ') /\ Ring(wrQ') /\ Unused'
  BY <1>1 DEF IInv, TypeOK, Unused
<1>3. Chunks'
  BY <1>1 DEF IInv, Chunks, Slice
<1>4. InStep'
  BY <1>1 DEF IInv, InStep, Slice, Original
<1>5. Writes'
  BY <1>1 DEF IInv, Writes
<1>6. Untouched'
  <2>1. \A c : Original(c)' = Original(c)
    BY <1>1 DEF Original
  <2>2. ClustersOf(wrQ', InFlight(wrQ')) = ClustersOf(wrQ, InFlight(wrQ))
    BY <1>1
  <2> QED
    BY <1>1, <2>1, <2>2 DEF IInv, Untouched
<1>7. Kept'
  <2>1. ClustersOf(wrQ', Window(wrQ')) = ClustersOf(wrQ, Window(wrQ))
    BY <1>1
  <2> QED
    BY <1>1, <2>1 DEF IInv, Kept, Written
<1>8. Counted'
  <2>1. Unclosed' = Unclosed
    BY <1>1 DEF Unclosed, Slice
  <2> QED
    BY <1>1, <2>1 DEF IInv, Counted
<1>9. WritesInPlace'
  BY <1>1 DEF IInv, WritesInPlace, NoOverlap, OnlyNecessaryWrites
<1> QED
  BY <1>2, <1>3, <1>4, <1>5, <1>6, <1>7, <1>8, <1>9 DEF IInv

\* The oldest chunk has arrived. (finalize_front)
LEMMA OpenChunkStep ==
  ASSUME IInv, OpenChunk
  PROVE  IInv'
<1>1. /\ pc = "open" /\ pc' = "open" /\ lcn = None
      /\ FrontIs(srcQ, "ok")
      /\ mode # "copy" => FrontIs(destQ, "ok")
      /\ lcn' = Front(srcQ).req.lo
      /\ UNCHANGED <<frozen, dest, next, srcQ, destQ, wrQ, diffMap, stats>>
      /\ UNCHANGED <<mode, sel, stale>>
  BY DEF OpenChunk, frozen
<1>2. srcQ.tail \in Window(srcQ)
  BY <1>1, RingFacts DEF IInv, FrontIs
<1>3. Front(srcQ).req \in Spans
  BY <1>2, StateFacts DEF Front
<1>4. lcn' \in Nat /\ lcn' \in 0 .. ClusterCount /\ lcn' # None
  BY <1>1, <1>3, SpanFacts, StateFacts
<1>5. \A c \in Slice(srcQ.tail) : c >= lcn'
  BY <1>1, <1>3, SpanFacts DEF Slice, In, Front
<1>6. Waiting' = Waiting
  BY <1>1, <1>5 DEF Waiting, Slice
<1>7. AtHand'
  <2>1. FrontIs(srcQ', "ok") /\ (mode' # "copy" => FrontIs(destQ', "ok"))
    BY <1>1
  <2>2. Front(srcQ').req.lo <= lcn'
    BY <1>1, <1>3, SpanFacts
  <2> QED
    BY <1>4, <2>1, <2>2 DEF AtHand
<1>8. Ended'
  BY <1>1 DEF Ended
<1> QED
  BY <1>1, <1>4, <1>6, <1>7, <1>8, StillStep

\* The loop ends, and so does the flush.
LEMMA LeaveSteps ==
  ASSUME IInv, Drained \/ FlushEnd
  PROVE  IInv'
<1>1. /\ pc # "thrown" /\ pc' \in {"open", "flush", "done"}
      /\ UNCHANGED <<frozen, dest, next, srcQ, destQ, wrQ, diffMap, stats>>
      /\ UNCHANGED <<mode, lcn>>
  BY DEF Drained, FlushEnd, frozen
<1>2. lcn' \in 0 .. ClusterCount \cup {None}
  BY <1>1 DEF IInv, TypeOK
<1>3. Waiting' = Waiting
  BY <1>1 DEF Waiting, Slice
<1>4. AtHand'
  BY <1>1 DEF IInv, AtHand
<1>5. Ended'
  <2>1. CASE Drained
    <3>1. lcn' = None /\ IsEmpty(srcQ) /\ ~CanPush /\ sel' = sel /\ next' = next /\ srcQ' = srcQ
      BY <2>1 DEF Drained, frozen
    <3>2. \A c \in sel : c < next
      <4>1. ~IsFull(srcQ)
        BY <3>1 DEF IsEmpty, IsFull
      <4>2. \A c \in sel : ~ (c >= next) /\ c \in Nat /\ next \in Nat
        BY <3>1, <4>1, StateFacts DEF CanPush, MoreSlices
      <4> QED
        BY <4>2
    <3>3. pc' = "done" => IsEmpty(wrQ') 
      <4>1. pc' = "done" => mode = "compare" /\ wrQ' = wrQ
        BY <2>1 DEF Drained
      <4> QED
        BY <4>1, EmptyRing DEF IInv, Unused
    <3> QED
      BY <3>1, <3>2, <3>3 DEF Ended
  <2>2. CASE FlushEnd
    BY <2>2 DEF FlushEnd, IInv, Ended, frozen
  <2> QED
    BY <2>1, <2>2
<1> QED
  BY <1>1, <1>2, <1>3, <1>4, <1>5, StillStep

\* A dirty span is counted and handed to the writer. (onDirtySpan)
LEMMA ReportSpanStep ==
  ASSUME IInv, ReportSpan
  PROVE  IInv'
<1> DEFINE s == DirtySpan
<1>1. /\ pc = "open" /\ pc' = "open" /\ MoreDirty /\ lcn # None
      /\ Note(s)
      /\ mode = "compare" => wrQ' = wrQ
      /\ mode # "compare" => WriterAccepts(s)
      /\ lcn' = s.hi + 1
      /\ UNCHANGED <<mode, sel, stale, dest, next, srcQ, destQ>>
  BY DEF ReportSpan, MoreDirty, frozen
<1>2. s \in Spans /\ RunAfter(Dirty, lcn, s)
  BY <1>1, DirtyFacts
<1> HIDE DEF s
<1>3. /\ s.lo \in Nat /\ s.hi \in Nat /\ s.lo <= s.hi /\ s.hi < ClusterCount
      /\ In(s) \subseteq Clusters /\ IsFiniteSet(In(s))
      /\ Cardinality(In(s)) = Length(s)
  BY <1>2, SpanFacts
<1>4. /\ lcn \in Nat /\ lcn <= s.lo /\ In(s) \subseteq Dirty
      /\ \A c \in Dirty : c >= lcn => c >= s.lo
  BY <1>1, <1>2, ChunkFacts DEF RunAfter
<1>5. /\ srcQ.tail \in Window(srcQ) /\ Chunk = Slice(srcQ.tail)
      /\ Chunk \subseteq sel /\ Chunk \subseteq Clusters /\ Clusters \subseteq Nat
      /\ \A c \in Chunk : Front(srcQ).buf[c] = Source(c)
      /\ Dirty = IF mode = "copy" THEN Chunk ELSE Chunk \cap stale
      /\ \A c \in Chunk : c < next /\ (c \in Waiting <=> c >= lcn)
      /\ \A i \in Window(srcQ) \ {srcQ.tail} : Slice(i) \cap Chunk = {}
      /\ mode # "copy" => srcQ.tail \notin InFlight(destQ)
      /\ next \in Nat /\ None \notin Nat
  BY <1>1, ChunkFacts, StateFacts
<1>6. /\ lcn' \in Nat /\ lcn' # None /\ lcn <= lcn' /\ lcn' \in 0 .. ClusterCount
  BY <1>1, <1>3, <1>4, <1>5
<1>7. \A c \in In(s) : /\ c \in Chunk /\ c >= lcn /\ c < lcn' /\ c \in Waiting
  <2>1. \A c \in In(s) : c \in Chunk /\ c >= lcn /\ c < lcn'
    BY <1>1, <1>3, <1>4, <1>5 DEF In
  <2> QED
    BY <1>5, <2>1
<1>8. \A c \in Clusters : c \in Waiting' <=> c \in Waiting /\ ~ (c \in Chunk /\ c < lcn')
  <2>1. ASSUME NEW c \in Clusters
        PROVE  c \in Waiting' <=> \/ c >= next
                                  \/ \E i \in Window(srcQ) :
                                       c \in Slice(i) /\ (i = srcQ.tail => c >= lcn')
    BY <1>1, <1>6 DEF Waiting, Slice, Clusters
  <2>2. ASSUME NEW c \in Clusters
        PROVE  c \in Waiting <=> \/ c >= next
                                 \/ \E i \in Window(srcQ) :
                                       c \in Slice(i) /\ (i = srcQ.tail => c >= lcn)
    BY <1>1 DEF Waiting
  <2>3. ASSUME NEW c \in Clusters, c \in Chunk
        PROVE  c \in Waiting' <=> c >= lcn'
    <3>1. ~ (c >= next)
      BY <1>5, <2>3
    <3>2. \A i \in Window(srcQ) : c \in Slice(i) <=> i = srcQ.tail
      BY <1>5, <2>3
    <3> QED
      BY <1>5, <2>1, <3>1, <3>2
  <2>4. ASSUME NEW c \in Clusters, c \notin Chunk
        PROVE  c \in Waiting' <=> c \in Waiting
    BY <1>5, <2>1, <2>2, <2>4
  <2>5. ASSUME NEW c \in Clusters, c \in Chunk
        PROVE  c >= lcn' <=> c >= lcn /\ ~ (c < lcn')
    BY <1>4, <1>5, <1>6
  <2> QED
    BY <1>5, <2>3, <2>4, <2>5
<1>9. Waiting' \subseteq Waiting /\ In(s) \cap Waiting' = {}
  <2>1. Waiting' \subseteq Clusters
    BY DEF Waiting, Clusters
  <2> QED
    BY <1>3, <1>7, <1>8, <2>1
<1>10. \A c \in sel : c \in Waiting /\ c \notin Waiting' =>
                       c \in In(s) \/ (c \notin Dirty /\ c \in Chunk)
  <2>1. ASSUME NEW c \in sel, c \in Waiting, c \notin Waiting', c \in Dirty
        PROVE  c \in In(s)
    <3>1. c \in Clusters /\ c \in Chunk /\ c < lcn' /\ c \in Nat
      BY <1>5, <1>8, <2>1, StateFacts
    <3>2. c >= lcn
      BY <1>5, <2>1, <3>1
    <3>3. c >= s.lo /\ c <= s.hi
      BY <1>1, <1>3, <1>4, <2>1, <3>1, <3>2
    <3> QED
      BY <1>3, <3>1, <3>3 DEF In
  <2>2. \A c \in sel : c \in Waiting /\ c \notin Waiting' => c \in Chunk
    BY <1>8, StateFacts
  <2> QED
    BY <2>1, <2>2
<1>11. Unclosed' = Unclosed
  BY <1>1 DEF Unclosed, Slice
<1>12. PICK room : room = IF IsFull(wrQ) THEN PopFront(wrQ) ELSE wrQ
  OBVIOUS
<1>13. ASSUME mode # "compare"
       PROVE  /\ wrQ' = PushBack(room, s, [c \in In(s) |-> Front(srcQ).buf[c]])
              /\ IsFull(wrQ) => FrontIs(wrQ, "ok")
  BY <1>1, <1>12, <1>13 DEF WriterAccepts
<1>14. ASSUME mode # "compare"
       PROVE  /\ Ring(room) /\ ~IsFull(room) /\ SameWrites(wrQ, room)
              /\ \A i \in Window(wrQ) : i \in Window(room) \/ wrQ.slots[i].io = "ok"
  BY <1>12, <1>13, <1>14, RoomFacts
<1>15. ASSUME mode # "compare"
       PROVE  /\ Ring(wrQ') /\ Pushed(room, wrQ', s, [c \in In(s) |-> Source(c)])
  <2>1. [c \in In(s) |-> Front(srcQ).buf[c]] = [c \in In(s) |-> Source(c)]
    BY <1>5, <1>7
  <2>2. [c \in In(s) |-> Source(c)] \in SpanData
    <3>1. [c \in In(s) |-> Source(c)] \in [In(s) -> Content]
      BY <1>3 DEF Source, Content
    <3> QED
      BY <1>2, <3>1, SpanDataOf
  <2> QED
    BY <1>2, <1>13, <1>14, <1>15, <2>1, <2>2, PushRing
<1>16. PICK h : h = room.head
  OBVIOUS
<1>17. ASSUME mode # "compare"
       PROVE  /\ h \in Index \ Window(room) /\ Window(wrQ') = Window(room) \cup {h}
              /\ InFlight(wrQ') = InFlight(wrQ) \cup {h}
              /\ InFlight(wrQ) \subseteq Window(room)
              /\ Window(room) \subseteq Window(wrQ)
              /\ \A i \in Window(room) : /\ i \in Index
                                        /\ wrQ'.slots[i].req = wrQ.slots[i].req
                                        /\ wrQ'.slots[i].buf = wrQ.slots[i].buf
                                        /\ wrQ'.slots[i].io = wrQ.slots[i].io
              /\ wrQ'.slots[h].req = s /\ wrQ'.slots[h].io = "inflight"
              /\ wrQ'.slots[h].buf = [c \in In(s) |-> Source(c)]
  BY <1>14, <1>15, <1>16, <1>17, RingFacts DEF Pushed, SameWrites
<1>18. ASSUME mode # "compare"
       PROVE  /\ ClustersOf(wrQ', InFlight(wrQ')) = ClustersOf(wrQ, InFlight(wrQ)) \cup In(s)
              /\ ClustersOf(wrQ', Window(wrQ')) = ClustersOf(wrQ, Window(room)) \cup In(s)
  BY <1>17, <1>18 DEF ClustersOf
<1>19. Ring(wrQ') /\ Unused'
  BY <1>1, <1>15 DEF IInv, Unused
<1>20. TypeOK'
  <2>1. /\ diffMap' \subseteq Clusters
        /\ stats' \in [checked : Nat, differing : Nat, spans : Nat]
    BY <1>1, <1>2, NoteTypes
  <2> QED
    BY <1>1, <1>6, <1>19, <2>1 DEF IInv, TypeOK, Ring
<1>21. Chunks'
  BY <1>1 DEF IInv, Chunks, Slice
<1>22. AtHand'
  <2>1. /\ FrontIs(srcQ, "ok") /\ (mode # "copy" => FrontIs(destQ, "ok"))
        /\ Front(srcQ).req.lo <= lcn
    BY <1>1 DEF IInv, AtHand
  <2>2. Front(srcQ).req.lo \in Nat
    BY <1>5, StateFacts, SpanFacts DEF Front
  <2>3. Front(srcQ).req.lo <= lcn'
    BY <1>4, <1>6, <2>1, <2>2
  <2> QED
    BY <1>1, <1>6, <2>1, <2>3 DEF AtHand
<1>23. InStep'
  BY <1>1 DEF IInv, InStep, Slice, Original
<1>24. Writes'
  <2>1. CASE mode = "compare"
    BY <1>1, <2>1 DEF IInv, Writes
  <2>2. CASE mode # "compare"
    <3>1. ASSUME NEW i \in Window(wrQ')
          PROVE  /\ In(wrQ'.slots[i].req) \subseteq sel
                 /\ wrQ'.slots[i].buf = [c \in In(wrQ'.slots[i].req) |-> Source(c)]
                 /\ wrQ'.slots[i].io = "ok" => \A c \in In(wrQ'.slots[i].req) : dest[c] = Source(c)
      <4>1. CASE i = h
        BY <1>5, <1>7, <1>17, <2>2, <4>1
      <4>2. CASE i \in Window(room)
        BY <1>17, <2>2, <4>2 DEF IInv, Writes
      <4> QED
        BY <1>17, <2>2, <4>1, <4>2
    <3> QED
      BY <1>1, <3>1 DEF Writes
  <2> QED
    BY <2>1, <2>2
<1>25. Untouched'
  <2>1. \A c : Original(c)' = Original(c)
    BY <1>1 DEF Original, Source
  <2>2. Waiting' \cap ClustersOf(wrQ', InFlight(wrQ')) = {}
    <3>1. Waiting \cap ClustersOf(wrQ, InFlight(wrQ)) = {}
      BY <1>1 DEF IInv, Untouched
    <3>2. CASE mode = "compare"
      BY <1>1, <1>9, <3>1, <3>2
    <3>3. CASE mode # "compare"
      BY <1>9, <1>18, <3>1, <3>3
    <3> QED
      BY <3>2, <3>3
  <2> QED
    BY <1>1, <1>9, <2>1, <2>2 DEF IInv, Untouched
<1>26. Ended'
  BY <1>1 DEF Ended
<1>27. Kept'
  <2> SUFFICES ASSUME mode # "compare", NEW c \in sel, c \notin Waiting'
               PROVE  dest[c] = Source(c) \/ c \in ClustersOf(wrQ', Window(wrQ'))
    BY <1>1 DEF Kept, Written
  <2>1. CASE c \in Waiting
    <3>1. CASE c \in In(s)
      BY <1>18, <3>1
    <3>2. CASE c \notin Dirty /\ c \in Chunk
      <4>1. mode # "copy" /\ c \notin stale /\ c \in Clusters
        BY <1>5, <3>2
      <4>2. dest[c] = Original(c)
        BY <1>1, <2>1 DEF IInv, Untouched
      <4> QED
        BY <4>1, <4>2, Differs
    <3> QED
      BY <1>10, <2>1, <3>1, <3>2
  <2>2. CASE c \notin Waiting
    <3>1. dest[c] = Source(c) \/ c \in ClustersOf(wrQ, Window(wrQ))
      BY <1>1, <2>2 DEF IInv, Kept, Written
    <3>2. ASSUME c \in ClustersOf(wrQ, Window(wrQ))
          PROVE  dest[c] = Source(c) \/ c \in ClustersOf(wrQ, Window(room))
      <4>1. PICK i \in Window(wrQ) : c \in In(wrQ.slots[i].req)
        BY <3>2 DEF ClustersOf
      <4>2. CASE wrQ.slots[i].io = "ok"
        BY <4>1, <4>2 DEF IInv, Writes
      <4>3. CASE i \in Window(room)
        BY <4>1, <4>3 DEF ClustersOf
      <4> QED
        BY <1>14, <4>2, <4>3
    <3> QED
      BY <1>18, <3>1, <3>2
  <2> QED
    BY <2>1, <2>2
<1>28. Counted'
  <2> SUFFICES ASSUME mode # "copy"
               PROVE  /\ diffMap' = (sel \cap stale) \ Waiting'
                      /\ stats'.spans = Cardinality(diffMap')
                      /\ stats'.checked = Cardinality(sel \ Unclosed)
                      /\ stats'.differing = Cardinality((sel \cap stale) \ Unclosed)
    BY <1>1, <1>11 DEF Counted
  <2>1. /\ diffMap = (sel \cap stale) \ Waiting
        /\ stats.spans = Cardinality(diffMap)
        /\ stats.checked = Cardinality(sel \ Unclosed)
        /\ stats.differing = Cardinality((sel \cap stale) \ Unclosed)
        /\ stats \in [checked : Nat, differing : Nat, spans : Nat]
    BY <1>1 DEF IInv, Counted, TypeOK
  <2>2. /\ diffMap' = diffMap \cup In(s)
        /\ stats' = [stats EXCEPT !.spans = @ + Length(s)]
    BY <1>1 DEF Note
  <2>3. /\ stats'.spans = stats.spans + Length(s)
        /\ stats'.checked = stats.checked /\ stats'.differing = stats.differing
    BY <2>1, <2>2
  <2>4. Dirty = Chunk \cap stale
    BY <1>5
  <2>5. diffMap' = (sel \cap stale) \ Waiting'
    <3>1. \A c \in In(s) : c \in sel /\ c \in stale /\ c \notin Waiting'
      BY <1>4, <1>5, <1>9, <2>4
    <3>2. \A c \in sel \cap stale : c \in Waiting /\ c \notin Waiting' => c \in In(s)
      BY <1>10, <2>4
    <3> QED
      BY <1>9, <2>1, <2>2, <3>1, <3>2
  <2>6. Cardinality(diffMap \cup In(s)) = Cardinality(diffMap) + Cardinality(In(s))
    <3>1. diffMap \in SUBSET Clusters /\ In(s) \in SUBSET Clusters
      BY <1>3, StateFacts
    <3>2. diffMap \cap In(s) = {}
      BY <1>7, <2>1
    <3> QED
      BY <3>1, <3>2, Counting
  <2> QED
    BY <1>3, <2>1, <2>2, <2>3, <2>5, <2>6
<1>29. WritesInPlace'
  <2>1. CASE mode = "compare"
    <3>1. wrQ' = wrQ /\ destQ' = destQ /\ UNCHANGED <<mode, sel, stale, dest>>
      BY <1>1, <2>1
    <3> QED
      BY <3>1 DEF IInv, WritesInPlace, NoOverlap, OnlyNecessaryWrites, ClustersOf
  <2>2. CASE mode # "compare"
    <3>1. ClustersOf(destQ, InFlight(destQ)) \cap In(s) = {}
      <4>1. CASE mode = "copy"
        BY <4>1, EmptyRing DEF IInv, Unused, ClustersOf
      <4>2. CASE mode # "copy"
        <5>1. ASSUME NEW i \in InFlight(destQ)
              PROVE  In(destQ.slots[i].req) \cap In(s) = {}
          <6>1. i \in Window(destQ) /\ Window(destQ) = Window(srcQ)
            BY <1>1, <4>2, RingFacts DEF IInv, InStep, Window
          <6>2. destQ.slots[i].req = srcQ.slots[i].req /\ i # srcQ.tail
            BY <1>1, <1>5, <4>2, <6>1 DEF IInv, InStep
          <6>3. In(destQ.slots[i].req) = Slice(i)
            BY <6>2 DEF Slice
          <6>4. Slice(i) \cap Chunk = {}
            BY <1>5, <6>1, <6>2
          <6> QED
            BY <1>7, <6>3, <6>4
        <5> QED
          BY <5>1 DEF ClustersOf
      <4> QED
        BY <4>1, <4>2
    <3>2. In(s) \cap ClustersOf(wrQ, InFlight(wrQ)) = {}
      BY <1>1, <1>7 DEF IInv, Untouched
    <3>3. NoOverlap'
      <4>1. ClustersOf(destQ, InFlight(destQ)) \cap ClustersOf(wrQ', InFlight(wrQ')) = {}
        BY <1>18, <2>2, <3>1 DEF IInv, WritesInPlace, NoOverlap
      <4>2. ASSUME NEW i \in InFlight(wrQ'), NEW j \in InFlight(wrQ'), i # j
            PROVE  In(wrQ'.slots[i].req) \cap In(wrQ'.slots[j].req) = {}
        <5>1. \A l \in InFlight(wrQ) : /\ wrQ'.slots[l].req = wrQ.slots[l].req
                                       /\ In(wrQ.slots[l].req) \cap In(s) = {}
          BY <1>17, <2>2, <3>2 DEF ClustersOf
        <5>2. CASE i = h
          BY <1>17, <2>2, <4>2, <5>1, <5>2
        <5>3. CASE j = h
          BY <1>17, <2>2, <4>2, <5>1, <5>3
        <5>4. CASE i \in InFlight(wrQ) /\ j \in InFlight(wrQ)
          BY <4>2, <5>1, <5>4 DEF IInv, WritesInPlace, NoOverlap
        <5> QED
          BY <1>17, <2>2, <5>2, <5>3, <5>4
      <4> QED
        BY <1>1, <4>1, <4>2 DEF NoOverlap
    <3>4. OnlyNecessaryWrites'
      <4> SUFFICES ASSUME mode = "rcw", NEW c \in ClustersOf(wrQ', InFlight(wrQ'))
                   PROVE  c \in sel \cap stale /\ dest[c] = Old
        BY <1>1 DEF OnlyNecessaryWrites, ClustersOf
      <4>1. CASE c \in In(s)
        <5>1. c \in sel /\ c \in stale /\ c \in Waiting
          BY <1>4, <1>5, <1>7, <4>1
        <5>2. dest[c] = Original(c)
          BY <1>1, <5>1 DEF IInv, Untouched
        <5> QED
          BY <5>1, <5>2 DEF Original
      <4>2. CASE c \in ClustersOf(wrQ, InFlight(wrQ))
        BY <4>2 DEF IInv, WritesInPlace, OnlyNecessaryWrites
      <4> QED
        BY <1>18, <2>2, <4>1, <4>2
    <3> QED
      BY <3>3, <3>4 DEF WritesInPlace
  <2> QED
    BY <2>1, <2>2
<1>30. Ring(srcQ') /\ Ring(destQ')
  BY <1>1 DEF IInv
<1> QED
  BY <1>19, <1>20, <1>21, <1>22, <1>23, <1>24, <1>25, <1>26, <1>27, <1>28, <1>29, <1>30
  DEF IInv

\* Whole clusters in bytes are as many clusters again. (bytesRead)
LEMMA WholeClusters ==
  ASSUME NEW n \in Nat
  PROVE  /\ (n * BytesPerCluster) \div BytesPerCluster = n
         /\ (n * BytesPerCluster) % BytesPerCluster \in Nat
<1> DEFINE B == BytesPerCluster
           m == n * B
           d == m \div B
<1>1. B \in Nat \ {0} /\ m \in Nat
  OBVIOUS
<1>2. m % B = 0
  <2>1. 0 \in 0 .. B - 1 /\ n \in Int /\ m = (n * B) + 0
    BY <1>1
  <2> HIDE DEF m, B
  <2> QED
    BY <1>1, <2>1, ModUnique
<1>3. m = (B * d) + (m % B) /\ d \in Nat
  <2> HIDE DEF m, B
  <2> QED
    BY <1>1, DivMod
<1>4. n * B = d * B
  <2> HIDE DEF d
  <2> QED
    BY <1>1, <1>2, <1>3
<1>5. d = n
  <2> HIDE DEF d, m
  <2>1. (d - n) * B = 0
    BY <1>1, <1>3, <1>4
  <2>2. CASE d > n
    <3>1. (d - n) * B >= B
      BY <1>1, <1>3, <2>2
    <3> QED
      BY <1>1, <2>1, <3>1
  <2>3. CASE d < n
    <3>1. (d - n) * B <= -B
      BY <1>1, <1>3, <2>3
    <3> QED
      BY <1>1, <2>1, <3>1
  <2> QED
    BY <1>3, <2>2, <2>3
<1> QED
  BY <1>2, <1>5

\* The chunk is released and counted. (pop_front)
LEMMA CloseChunkStep ==
  ASSUME IInv, CloseChunk
  PROVE  IInv'
<1> DEFINE bytes == Cardinality(Chunk) * BytesPerCluster
<1>1. /\ pc = "open" /\ pc' = "open" /\ lcn # None /\ ~MoreDirty
      /\ srcQ' = PopFront(srcQ)
      /\ destQ' = IF mode = "copy" THEN destQ ELSE PopFront(destQ)
      /\ stats' = IF mode = "copy"
                  THEN [stats EXCEPT !.checked = @ + (bytes % BytesPerCluster)]
                  ELSE [stats EXCEPT !.checked = @ + (bytes \div BytesPerCluster),
                                     !.differing = @ + Cardinality(Dirty)]
      /\ lcn' = None
      /\ UNCHANGED <<mode, sel, stale, dest, next, wrQ, diffMap>>
  BY DEF CloseChunk, frozen
<1>2. /\ srcQ.tail \in Window(srcQ) /\ Chunk = Slice(srcQ.tail)
      /\ Chunk \subseteq sel /\ Chunk \subseteq Clusters /\ Clusters \subseteq Nat
      /\ sel \subseteq Clusters
      /\ Dirty = IF mode = "copy" THEN Chunk ELSE Chunk \cap stale
      /\ \A c \in Chunk : c < next /\ (c \in Waiting <=> c >= lcn) /\ c \in Unclosed
      /\ \A i \in Window(srcQ) \ {srcQ.tail} : Slice(i) \cap Chunk = {}
      /\ mode # "copy" => srcQ.tail \notin InFlight(destQ)
      /\ next \in Nat /\ None \notin Nat
  BY <1>1, ChunkFacts, StateFacts
<1>3. /\ FrontIs(srcQ, "ok")
      /\ mode # "copy" => FrontIs(destQ, "ok")
      /\ Ring(srcQ) /\ Ring(destQ) /\ Ring(wrQ)
  BY <1>1 DEF IInv, AtHand
<1>4. Ring(srcQ') /\ Popped(srcQ, srcQ')
  BY <1>1, <1>3, PopRing DEF FrontIs
<1>5. mode # "copy" => Ring(destQ') /\ Popped(destQ, destQ')
  BY <1>1, <1>3, PopRing DEF FrontIs
<1>6. Ring(destQ') /\ (mode = "copy" => destQ' = destQ)
  BY <1>1, <1>3, <1>5
<1>7. PICK t : t = srcQ.tail
  OBVIOUS
<1>8. /\ Window(srcQ') = Window(srcQ) \ {t} /\ Window(srcQ) \subseteq Index
      /\ \A i \in Index : /\ srcQ'.slots[i].req = srcQ.slots[i].req
                          /\ srcQ'.slots[i].buf = srcQ.slots[i].buf
                          /\ srcQ'.slots[i].io = srcQ.slots[i].io
      /\ \A i \in Index : Slice(i)' = Slice(i)
      /\ srcQ'.tail = Advance(srcQ.tail) /\ srcQ'.pendingCount = srcQ.pendingCount - 1
  BY <1>3, <1>4, <1>7, RingFacts DEF Popped, Slice
<1>9. Cardinality(Chunk) \in Nat /\ Cardinality(Dirty) \in Nat
  <2>1. Chunk \in SUBSET Clusters /\ Dirty \in SUBSET Clusters /\ {} \in SUBSET Clusters
    BY <1>2
  <2> QED
    BY <2>1, Counting
<1>10. stats \in [checked : Nat, differing : Nat, spans : Nat]
  BY DEF IInv, TypeOK
<1>11. /\ stats' \in [checked : Nat, differing : Nat, spans : Nat]
       /\ mode # "copy" => /\ stats'.checked = stats.checked + Cardinality(Chunk)
                           /\ stats'.differing = stats.differing + Cardinality(Dirty)
                           /\ stats'.spans = stats.spans
  <2>1. bytes % BytesPerCluster \in Nat /\ bytes \div BytesPerCluster = Cardinality(Chunk)
    BY <1>9, WholeClusters
  <2> HIDE DEF bytes
  <2>2. CASE mode = "copy"
    <3>1. stats' = [stats EXCEPT !.checked = @ + (bytes % BytesPerCluster)]
      BY <1>1, <2>2
    <3>2. stats.checked + (bytes % BytesPerCluster) \in Nat
      BY <1>10, <2>1
    <3> QED
      BY <1>10, <2>2, <3>1, <3>2
  <2>3. CASE mode # "copy"
    <3> DEFINE a == stats.checked + Cardinality(Chunk)
               b == stats.differing + Cardinality(Dirty)
    <3>1. stats' = [stats EXCEPT !.checked = a, !.differing = b]
      BY <1>1, <2>1, <2>3
    <3>2. a \in Nat /\ b \in Nat
      BY <1>9, <1>10
    <3> HIDE DEF a, b
    <3>3. /\ stats' \in [checked : Nat, differing : Nat, spans : Nat]
          /\ stats'.checked = a /\ stats'.differing = b /\ stats'.spans = stats.spans
      BY <1>10, <3>1, <3>2
    <3> QED
      BY <3>3 DEF a, b
  <2> QED
    BY <2>2, <2>3
<1>12. TypeOK' /\ Unused'
  BY <1>1, <1>4, <1>6, <1>11 DEF IInv, TypeOK, Ring, Unused
<1>13. Chunks'
  <2>1. ASSUME NEW i \in Window(srcQ)'
        PROVE  /\ Slice(i)' \subseteq sel
               /\ srcQ'.slots[i].req.hi < next
               /\ srcQ'.slots[i].io = "ok" =>
                    srcQ'.slots[i].buf = [c \in Slice(i)' |-> Source(c)]
    BY <1>1, <1>8 DEF IInv, Chunks
  <2>2. ASSUME NEW i \in Window(srcQ)', NEW j \in Window(srcQ)', i # j
        PROVE  Slice(i)' \cap Slice(j)' = {}
    <3>1. i \in Window(srcQ) /\ j \in Window(srcQ) /\ Slice(i)' = Slice(i) /\ Slice(j)' = Slice(j)
      BY <1>8
    <3> QED
      BY <1>1, <2>2, <3>1 DEF IInv, Chunks
  <2> QED
    BY <1>1, <2>1, <2>2 DEF Chunks, Source
<1>14. AtHand' /\ Ended'
  BY <1>1 DEF AtHand, Ended
<1>15. \A c : Original(c)' = Original(c)
  BY <1>1 DEF Original, Source
<1>16. InStep'
  <2> SUFFICES ASSUME mode # "copy"
               PROVE  /\ destQ'.tail = srcQ'.tail /\ destQ'.pendingCount = srcQ'.pendingCount
                      /\ \A i \in Window(srcQ') :
                           /\ destQ'.slots[i].req = srcQ'.slots[i].req
                           /\ destQ'.slots[i].io = "ok" =>
                                destQ'.slots[i].buf = [c \in Slice(i)' |-> Original(c)']
    BY <1>1 DEF InStep
  <2>1. /\ destQ.tail = srcQ.tail /\ destQ.pendingCount = srcQ.pendingCount
        /\ \A i \in Window(srcQ) :
             /\ destQ.slots[i].req = srcQ.slots[i].req
             /\ destQ.slots[i].io = "ok" =>
                  destQ.slots[i].buf = [c \in Slice(i) |-> Original(c)]
    BY <1>1 DEF IInv, InStep
  <2>2. /\ destQ'.tail = Advance(destQ.tail) /\ destQ'.pendingCount = destQ.pendingCount - 1
        /\ \A i \in Index : /\ destQ'.slots[i].req = destQ.slots[i].req
                            /\ destQ'.slots[i].buf = destQ.slots[i].buf
                            /\ destQ'.slots[i].io = destQ.slots[i].io
    BY <1>5 DEF Popped
  <2> QED
    BY <1>8, <1>15, <2>1, <2>2
<1>17. Writes'
  BY <1>1 DEF IInv, Writes
<1>18. \A c \in Clusters : c \in Waiting' <=> c \in Waiting /\ c \notin Chunk
  <2>1. ASSUME NEW c \in Clusters
        PROVE  c \in Waiting' <=> c >= next \/ \E i \in Window(srcQ) \ {t} : c \in Slice(i)
    BY <1>1, <1>8 DEF Waiting, Clusters
  <2>2. ASSUME NEW c \in Clusters
        PROVE  c \in Waiting <=> \/ c >= next
                                 \/ \E i \in Window(srcQ) :
                                      c \in Slice(i) /\ (i = srcQ.tail => c >= lcn)
    BY <1>1 DEF Waiting
  <2>3. ASSUME NEW c \in Clusters, c \in Chunk
        PROVE  c \notin Waiting'
    <3>1. ~ (c >= next)
      BY <1>2, <2>3
    <3> QED
      BY <1>2, <1>7, <2>1, <2>3, <3>1
  <2>4. ASSUME NEW c \in Clusters, c \notin Chunk
        PROVE  c \in Waiting' <=> c \in Waiting
    BY <1>2, <1>7, <2>1, <2>2, <2>4
  <2> QED
    BY <2>3, <2>4
<1>19. \A c \in Clusters : c \in Unclosed' <=> c \in Unclosed /\ c \notin Chunk
  <2>1. ASSUME NEW c \in Clusters
        PROVE  c \in Unclosed' <=> c >= next \/ \E i \in Window(srcQ) \ {t} : c \in Slice(i)
    BY <1>1, <1>8 DEF Unclosed, Clusters
  <2>2. ASSUME NEW c \in Clusters
        PROVE  c \in Unclosed <=> c >= next \/ \E i \in Window(srcQ) : c \in Slice(i)
    BY DEF Unclosed
  <2>3. ASSUME NEW c \in Clusters, c \in Chunk
        PROVE  c \notin Unclosed'
    <3>1. ~ (c >= next)
      BY <1>2, <2>3
    <3> QED
      BY <1>2, <1>7, <2>1, <2>3, <3>1
  <2>4. ASSUME NEW c \in Clusters, c \notin Chunk
        PROVE  c \in Unclosed' <=> c \in Unclosed
    BY <1>2, <1>7, <2>1, <2>2, <2>4
  <2> QED
    BY <2>3, <2>4
<1>20. Waiting' \subseteq Waiting
  <2>1. Waiting' \subseteq Clusters
    BY DEF Waiting, Clusters
  <2> QED
    BY <1>18, <2>1
<1>21. \A c \in Chunk : c \in Waiting => c \notin Dirty
  BY <1>1, <1>2 DEF MoreDirty
<1>22. Untouched'
  BY <1>1, <1>15, <1>20 DEF IInv, Untouched, ClustersOf
<1>23. Kept'
  <2> SUFFICES ASSUME mode # "compare", NEW c \in sel, c \notin Waiting'
               PROVE  dest[c] = Source(c) \/ c \in ClustersOf(wrQ, Window(wrQ))
    BY <1>1 DEF Kept, Written, ClustersOf
  <2>1. CASE c \in Waiting
    <3>1. c \in Chunk /\ c \in Clusters /\ c \notin Dirty
      BY <1>2, <1>18, <1>21, <2>1
    <3>2. c \notin stale
      BY <1>2, <3>1
    <3>3. dest[c] = Original(c)
      BY <1>1, <2>1 DEF IInv, Untouched
    <3> QED
      BY <3>1, <3>2, <3>3, Differs
  <2>2. CASE c \notin Waiting
    BY <1>1, <2>2 DEF IInv, Kept, Written
  <2> QED
    BY <2>1, <2>2
<1>24. Counted'
  <2> SUFFICES ASSUME mode # "copy"
               PROVE  /\ diffMap = (sel \cap stale) \ Waiting'
                      /\ stats'.spans = Cardinality(diffMap)
                      /\ stats'.checked = Cardinality(sel \ Unclosed')
                      /\ stats'.differing = Cardinality((sel \cap stale) \ Unclosed')
    BY <1>1 DEF Counted
  <2>1. /\ diffMap = (sel \cap stale) \ Waiting
        /\ stats.spans = Cardinality(diffMap)
        /\ stats.checked = Cardinality(sel \ Unclosed)
        /\ stats.differing = Cardinality((sel \cap stale) \ Unclosed)
    BY <1>1 DEF IInv, Counted
  <2>2. Dirty = Chunk \cap stale
    BY <1>2
  <2>3. diffMap = (sel \cap stale) \ Waiting'
    <3>1. \A c \in sel \cap stale : c \in Waiting' <=> c \in Waiting
      BY <1>2, <1>18, <1>21, <2>2
    <3> QED
      BY <2>1, <3>1
  <2>4. /\ sel \ Unclosed' = (sel \ Unclosed) \cup Chunk
        /\ (sel \ Unclosed) \cap Chunk = {}
    <3>1. \A c \in sel : c \in Unclosed' <=> c \in Unclosed /\ c \notin Chunk
      BY <1>2, <1>19
    <3> QED
      BY <1>2, <3>1
  <2>5. /\ (sel \cap stale) \ Unclosed' = ((sel \cap stale) \ Unclosed) \cup Dirty
        /\ ((sel \cap stale) \ Unclosed) \cap Dirty = {}
    BY <1>2, <2>2, <2>4
  <2>6. /\ sel \ Unclosed \in SUBSET Clusters /\ Chunk \in SUBSET Clusters
        /\ (sel \cap stale) \ Unclosed \in SUBSET Clusters /\ Dirty \in SUBSET Clusters
    BY <1>2
  <2>7. Cardinality(sel \ Unclosed') = Cardinality(sel \ Unclosed) + Cardinality(Chunk)
    BY <2>4, <2>6, Counting
  <2>8. Cardinality((sel \cap stale) \ Unclosed')
          = Cardinality((sel \cap stale) \ Unclosed) + Cardinality(Dirty)
    BY <2>5, <2>6, Counting
  <2> QED
    BY <1>11, <2>1, <2>3, <2>7, <2>8
<1>25. WritesInPlace'
  <2>1. ClustersOf(destQ', InFlight(destQ')) = ClustersOf(destQ, InFlight(destQ))
    <3>1. CASE mode = "copy"
      BY <1>6, <3>1
    <3>2. CASE mode # "copy"
      <4>1. /\ InFlight(destQ') = InFlight(destQ) /\ InFlight(destQ) \subseteq Index
            /\ \A i \in Index : destQ'.slots[i].req = destQ.slots[i].req
        BY <1>5, <3>2 DEF Popped, InFlight
      <4> QED
        BY <4>1 DEF ClustersOf
    <3> QED
      BY <3>1, <3>2
  <2> QED
    BY <1>1, <2>1 DEF IInv, WritesInPlace, NoOverlap, OnlyNecessaryWrites
<1>26. Ring(wrQ')
  BY <1>1, <1>3
<1> QED
  BY <1>4, <1>6, <1>12, <1>13, <1>14, <1>16, <1>17, <1>22, <1>23, <1>24, <1>25, <1>26
  DEF IInv

-----------------------------------------------------------------------------
(* The flush, and the operating system.                                    *)

\* A write that was waited for leaves the queue. (try_pop_front)
LEMMA FlushOneStep ==
  ASSUME IInv, FlushOne
  PROVE  IInv'
<1>1. /\ pc = "flush" /\ pc' = "flush"
      /\ FrontIs(wrQ, "ok") /\ wrQ' = PopFront(wrQ)
      /\ UNCHANGED <<mode, sel, stale, dest, next, srcQ, destQ, lcn, diffMap, stats>>
  BY DEF FlushOne, frozen
<1>2. Ring(wrQ) /\ ~IsEmpty(wrQ) /\ Front(wrQ).io = "ok"
  BY <1>1 DEF IInv, FrontIs
<1>3. Ring(wrQ') /\ Popped(wrQ, wrQ')
  BY <1>1, <1>2, PopRing
<1>4. /\ wrQ.tail \in Window(wrQ) /\ Window(wrQ) \subseteq Index
      /\ Window(wrQ') = Window(wrQ) \ {wrQ.tail}
      /\ InFlight(wrQ') = InFlight(wrQ) /\ InFlight(wrQ) \subseteq Index
      /\ \A i \in Index : /\ wrQ'.slots[i].req = wrQ.slots[i].req
                          /\ wrQ'.slots[i].buf = wrQ.slots[i].buf
                          /\ wrQ'.slots[i].io = wrQ.slots[i].io
  BY <1>2, <1>3, RingFacts DEF Popped, InFlight
<1>5. mode # "compare"
  BY <1>2, EmptyRing DEF IInv, Unused
<1>6. ClustersOf(wrQ', InFlight(wrQ')) = ClustersOf(wrQ, InFlight(wrQ))
  BY <1>4 DEF ClustersOf
<1>7. TypeOK' /\ Unused'
  BY <1>1, <1>3, <1>5 DEF IInv, TypeOK, Ring, Unused
<1>8. Chunks' /\ AtHand'
  BY <1>1 DEF IInv, Chunks, AtHand, Slice
<1>9. InStep'
  BY <1>1 DEF IInv, InStep, Slice, Original
<1>10. Writes'
  BY <1>1, <1>4 DEF IInv, Writes
<1>11. Waiting' = Waiting /\ Unclosed' = Unclosed
  BY <1>1 DEF Waiting, Unclosed, Slice
<1>12. Untouched'
  <2>1. \A c : Original(c)' = Original(c)
    BY <1>1 DEF Original
  <2> QED
    BY <1>1, <1>6, <1>11, <2>1 DEF IInv, Untouched
<1>13. Ended'
  BY <1>1 DEF IInv, Ended
<1>14. Kept'
  <2> SUFFICES ASSUME NEW c \in sel \ Waiting
               PROVE  dest[c] = Source(c) \/ c \in ClustersOf(wrQ', Window(wrQ'))
    BY <1>1, <1>11 DEF Kept
  <2>1. dest[c] = Source(c) \/ c \in ClustersOf(wrQ, Window(wrQ))
    BY <1>1, <1>5 DEF IInv, Kept, Written
  <2>2. ASSUME NEW i \in Window(wrQ), c \in In(wrQ.slots[i].req)
        PROVE  dest[c] = Source(c) \/ c \in ClustersOf(wrQ', Window(wrQ'))
    <3>1. CASE i = wrQ.tail
      BY <1>2, <2>2, <3>1 DEF IInv, Writes, Front
    <3>2. CASE i # wrQ.tail
      BY <1>4, <2>2, <3>2 DEF ClustersOf
    <3> QED
      BY <3>1, <3>2
  <2> QED
    BY <2>1, <2>2 DEF ClustersOf
<1>15. Counted'
  BY <1>1, <1>11 DEF IInv, Counted
<1>16. WritesInPlace'
  <2>1. NoOverlap'
    BY <1>1, <1>4, <1>6 DEF IInv, WritesInPlace, NoOverlap
  <2>2. OnlyNecessaryWrites'
    BY <1>1, <1>6 DEF IInv, WritesInPlace, OnlyNecessaryWrites
  <2> QED
    BY <2>1, <2>2 DEF WritesInPlace
<1>17. Ring(srcQ') /\ Ring(destQ')
  BY <1>1 DEF IInv
<1> QED
  BY <1>3, <1>7, <1>8, <1>9, <1>10, <1>12, <1>13, <1>14, <1>15, <1>16, <1>17 DEF IInv

\* A read of the source ends.
LEMMA SrcReadDoneStep ==
  ASSUME IInv, NEW i \in Index, SrcReadDone(i)
  PROVE  IInv'
<1>1. /\ i \in InFlight(srcQ)
      /\ UNCHANGED <<mode, sel, stale, dest, next, destQ, wrQ, lcn, diffMap, stats, pc>>
  BY DEF SrcReadDone, frozen
<1>2. PICK result \in {"ok", "failed"} :
        srcQ' = CompleteIo(srcQ, i, result, [c \in Slice(i) |-> Source(c)])
  BY DEF SrcReadDone, IoResults, Slice
<1>3. Ring(srcQ) /\ i \in Window(srcQ) /\ srcQ.slots[i].io = "inflight"
  BY <1>1, RingFacts DEF IInv, InFlight
<1>4. Ring(srcQ') /\ Completed(srcQ, srcQ', i, result, [c \in Slice(i) |-> Source(c)])
  <2>1. srcQ.slots[i].req \in Spans /\ Slice(i) \subseteq Clusters
    BY <1>3, StateFacts
  <2>2. [c \in Slice(i) |-> Source(c)] \in [Slice(i) -> Content]
    BY <2>1 DEF Source, Content
  <2>3. [c \in Slice(i) |-> Source(c)] \in SpanData
    BY <2>1, <2>2, SpanDataOf DEF Slice
  <2> QED
    BY <1>1, <1>2, <1>3, <2>3, DoneRing
<1>5. /\ Window(srcQ') = Window(srcQ) /\ Window(srcQ) \subseteq Index
      /\ srcQ'.tail = srcQ.tail /\ srcQ'.pendingCount = srcQ.pendingCount
      /\ \A j \in Index : srcQ'.slots[j].req = srcQ.slots[j].req
      /\ \A j \in Index \ {i} : srcQ'.slots[j] = srcQ.slots[j]
      /\ srcQ'.slots[i].buf = [c \in Slice(i) |-> Source(c)]
  BY <1>3, <1>4, RingFacts DEF Completed
<1>6. \A j \in Index : Slice(j)' = Slice(j)
  BY <1>5 DEF Slice
<1>7. TypeOK' /\ Unused'
  BY <1>1, <1>4 DEF IInv, TypeOK, Ring, Unused
<1>8. Chunks'
  <2>1. ASSUME pc # "thrown", NEW j \in Window(srcQ)
        PROVE  /\ Slice(j)' \subseteq sel
               /\ srcQ'.slots[j].req.hi < next
               /\ srcQ'.slots[j].io = "ok" =>
                    srcQ'.slots[j].buf = [c \in Slice(j)' |-> Source(c)]
    <3>1. /\ Slice(j) \subseteq sel /\ srcQ.slots[j].req.hi < next
          /\ srcQ.slots[j].io = "ok" => srcQ.slots[j].buf = [c \in Slice(j) |-> Source(c)]
      BY <2>1 DEF IInv, Chunks
    <3>2. CASE j = i
      BY <1>5, <1>6, <3>1, <3>2
    <3>3. CASE j # i
      BY <1>5, <1>6, <3>1, <3>3
    <3> QED
      BY <3>2, <3>3
  <2>2. pc # "thrown" => \A j, l \in Window(srcQ) : j # l => Slice(j)' \cap Slice(l)' = {}
    BY <1>5, <1>6 DEF IInv, Chunks
  <2> QED
    BY <1>1, <1>5, <2>1, <2>2 DEF Chunks, Source
<1>9. AtHand'
  <2> SUFFICES ASSUME pc # "thrown", lcn # None
               PROVE  /\ FrontIs(srcQ', "ok")
                      /\ mode # "copy" => FrontIs(destQ, "ok")
                      /\ lcn \in Nat /\ Front(srcQ').req.lo <= lcn
    BY <1>1 DEF AtHand
  <2>1. /\ FrontIs(srcQ, "ok")
        /\ mode # "copy" => FrontIs(destQ, "ok")
        /\ lcn \in Nat /\ Front(srcQ).req.lo <= lcn
    BY DEF IInv, AtHand
  <2>2. srcQ.tail # i /\ srcQ.tail \in Index
    BY <1>3, <2>1, RingFacts DEF FrontIs, Front
  <2> QED
    BY <1>5, <2>1, <2>2 DEF FrontIs, Front, IsEmpty
<1>10. \A c : Original(c)' = Original(c)
  BY <1>1 DEF Original, Source
<1>11. InStep'
  <2> SUFFICES ASSUME pc # "thrown", mode # "copy"
               PROVE  /\ destQ.tail = srcQ'.tail /\ destQ.pendingCount = srcQ'.pendingCount
                      /\ \A j \in Window(srcQ') :
                           /\ destQ.slots[j].req = srcQ'.slots[j].req
                           /\ destQ.slots[j].io = "ok" =>
                                destQ.slots[j].buf = [c \in Slice(j)' |-> Original(c)']
    BY <1>1 DEF InStep
  <2>1. /\ destQ.tail = srcQ.tail /\ destQ.pendingCount = srcQ.pendingCount
        /\ \A j \in Window(srcQ) :
             /\ destQ.slots[j].req = srcQ.slots[j].req
             /\ destQ.slots[j].io = "ok" =>
                  destQ.slots[j].buf = [c \in Slice(j) |-> Original(c)]
    BY DEF IInv, InStep
  <2> QED
    BY <1>5, <1>6, <1>10, <2>1
<1>12. Writes'
  BY <1>1 DEF IInv, Writes
<1>13. Waiting' = Waiting /\ Unclosed' = Unclosed
  BY <1>1, <1>5, <1>6 DEF Waiting, Unclosed
<1>14. Untouched'
  BY <1>1, <1>10, <1>13 DEF IInv, Untouched, ClustersOf
<1>15. Ended'
  BY <1>1, <1>5 DEF IInv, Ended, IsEmpty
<1>16. Kept'
  BY <1>1, <1>13 DEF IInv, Kept, Written, ClustersOf, Source
<1>17. Counted'
  BY <1>1, <1>13 DEF IInv, Counted
<1>18. WritesInPlace'
  BY <1>1 DEF IInv, WritesInPlace, NoOverlap, OnlyNecessaryWrites, ClustersOf
<1>19. Ring(destQ') /\ Ring(wrQ')
  BY <1>1 DEF IInv
<1> QED
  BY <1>4, <1>7, <1>8, <1>9, <1>11, <1>12, <1>14, <1>15, <1>16, <1>17, <1>18, <1>19
  DEF IInv

\* A read of the destination ends, with what is there at this moment: what
\* was there before the run.
LEMMA DestReadDoneStep ==
  ASSUME IInv, NEW i \in Index, DestReadDone(i)
  PROVE  IInv'
<1>1. /\ i \in InFlight(destQ)
      /\ UNCHANGED <<mode, sel, stale, dest, next, srcQ, wrQ, lcn, diffMap, stats, pc>>
  BY DEF DestReadDone, frozen
<1> DEFINE read == [c \in In(destQ.slots[i].req) |-> dest[c]]
<1>2. PICK result \in {"ok", "failed"} : destQ' = CompleteIo(destQ, i, result, read)
  BY DEF DestReadDone, IoResults
<1>3. Ring(destQ) /\ i \in Window(destQ) /\ destQ.slots[i].io = "inflight"
  BY <1>1, RingFacts DEF IInv, InFlight
<1>4. Ring(destQ') /\ Completed(destQ, destQ', i, result, read)
  <2>1. destQ.slots[i].req \in Spans /\ In(destQ.slots[i].req) \subseteq Clusters
    BY <1>3, SpanFacts DEF Ring
  <2>2. read \in [In(destQ.slots[i].req) -> Content]
    BY <2>1, StateFacts
  <2>3. read \in SpanData
    BY <2>1, <2>2, SpanDataOf
  <2> HIDE DEF read
  <2> QED
    BY <1>1, <1>2, <1>3, <2>3, DoneRing
<1>5. /\ Window(destQ') = Window(destQ) /\ Window(destQ) \subseteq Index
      /\ destQ'.tail = destQ.tail /\ destQ'.pendingCount = destQ.pendingCount
      /\ InFlight(destQ') = InFlight(destQ) \ {i} /\ InFlight(destQ) \subseteq Index
      /\ \A j \in Index : destQ'.slots[j].req = destQ.slots[j].req
      /\ \A j \in Index \ {i} : destQ'.slots[j] = destQ.slots[j]
      /\ destQ'.slots[i].buf = read
  BY <1>3, <1>4, RingFacts DEF Completed, InFlight
<1>6. mode # "copy"
  BY <1>1, EmptyRing DEF IInv, Unused
<1>7. TypeOK' /\ Unused'
  BY <1>1, <1>4, <1>6 DEF IInv, TypeOK, Ring, Unused
<1>8. Chunks'
  BY <1>1 DEF IInv, Chunks, Slice
<1>9. AtHand'
  <2> SUFFICES ASSUME pc # "thrown", lcn # None
               PROVE  /\ FrontIs(srcQ, "ok")
                      /\ FrontIs(destQ', "ok")
                      /\ lcn \in Nat /\ Front(srcQ).req.lo <= lcn
    BY <1>1 DEF AtHand
  <2>1. /\ FrontIs(srcQ, "ok") /\ FrontIs(destQ, "ok")
        /\ lcn \in Nat /\ Front(srcQ).req.lo <= lcn
    BY <1>6 DEF IInv, AtHand
  <2>2. destQ.tail # i /\ destQ.tail \in Index
    BY <1>3, <2>1, RingFacts DEF FrontIs, Front
  <2> QED
    BY <1>5, <2>1, <2>2 DEF FrontIs, Front, IsEmpty
<1>10. InStep'
  <2> SUFFICES ASSUME pc # "thrown"
               PROVE  /\ destQ'.tail = srcQ.tail /\ destQ'.pendingCount = srcQ.pendingCount
                      /\ \A j \in Window(srcQ) :
                           /\ destQ'.slots[j].req = srcQ.slots[j].req
                           /\ destQ'.slots[j].io = "ok" =>
                                destQ'.slots[j].buf = [c \in Slice(j) |-> Original(c)]
    BY <1>1 DEF InStep, Slice, Original, Source
  <2>1. /\ destQ.tail = srcQ.tail /\ destQ.pendingCount = srcQ.pendingCount
        /\ Window(destQ) = Window(srcQ)
        /\ \A j \in Window(srcQ) :
             /\ destQ.slots[j].req = srcQ.slots[j].req
             /\ destQ.slots[j].io = "ok" =>
                  destQ.slots[j].buf = [c \in Slice(j) |-> Original(c)]
    BY <1>6 DEF IInv, InStep, Window
  <2>2. In(destQ.slots[i].req) = Slice(i)
    BY <1>3, <2>1 DEF Slice
  <2>3. \A c \in Slice(i) : dest[c] = Original(c)
    <3>1. Slice(i) \subseteq Clusters
      BY <1>3, <2>1, StateFacts
    <3>2. i = srcQ.tail => lcn = None
      BY <1>3, <1>6, <2>1 DEF IInv, AtHand, FrontIs, Front
    <3>3. Slice(i) \subseteq Waiting
      BY <1>3, <2>1, <3>1, <3>2 DEF Waiting
    <3> QED
      BY <3>3 DEF IInv, Untouched
  <2>4. read = [c \in Slice(i) |-> Original(c)]
    BY <2>2, <2>3
  <2> HIDE DEF read
  <2>5. ASSUME NEW j \in Window(srcQ)
        PROVE  /\ destQ'.slots[j].req = srcQ.slots[j].req
               /\ destQ'.slots[j].io = "ok" =>
                     destQ'.slots[j].buf = [c \in Slice(j) |-> Original(c)]
    <3>1. CASE j = i
      BY <1>5, <2>1, <2>4, <3>1
    <3>2. CASE j # i
      BY <1>5, <2>1, <3>2
    <3> QED
      BY <3>1, <3>2
  <2> QED
    BY <1>5, <2>1, <2>5
<1>11. Writes'
  BY <1>1 DEF IInv, Writes
<1>12. Waiting' = Waiting /\ Unclosed' = Unclosed
  BY <1>1 DEF Waiting, Unclosed, Slice
<1>13. Untouched'
  BY <1>1, <1>12 DEF IInv, Untouched, ClustersOf, Original, Source
<1>14. Ended'
  BY <1>1 DEF IInv, Ended
<1>15. Kept'
  BY <1>1, <1>12 DEF IInv, Kept, Written, ClustersOf, Source
<1>16. Counted'
  BY <1>1, <1>12 DEF IInv, Counted
<1>17. WritesInPlace'
  <2>1. ClustersOf(destQ', InFlight(destQ')) \subseteq ClustersOf(destQ, InFlight(destQ))
    BY <1>5 DEF ClustersOf
  <2>2. ClustersOf(wrQ', InFlight(wrQ')) = ClustersOf(wrQ, InFlight(wrQ))
    BY <1>1
  <2> QED
    BY <1>1, <2>1, <2>2 DEF IInv, WritesInPlace, NoOverlap, OnlyNecessaryWrites
<1>18. Ring(srcQ') /\ Ring(wrQ')
  BY <1>1 DEF IInv
<1> QED
  BY <1>4, <1>7, <1>8, <1>9, <1>10, <1>11, <1>13, <1>14, <1>15, <1>16, <1>17, <1>18
  DEF IInv

\* What a write in flight brings.
LEMMA WriteFacts ==
  ASSUME IInv, NEW i \in InFlight(wrQ)
  PROVE  /\ i \in Window(wrQ) /\ i \in Index
         /\ wrQ.slots[i].req \in Spans
         /\ In(wrQ.slots[i].req) \subseteq sel /\ In(wrQ.slots[i].req) \subseteq Clusters
         /\ wrQ.slots[i].buf = [c \in In(wrQ.slots[i].req) |-> Source(c)]
         /\ wrQ.slots[i].buf \in SpanData
         /\ mode # "compare"
<1>1. Ring(wrQ) /\ i \in Window(wrQ) /\ i \in Index
  BY RingFacts DEF IInv, InFlight
<1>2. wrQ.slots[i].req \in Spans /\ In(wrQ.slots[i].req) \subseteq Clusters
  BY <1>1, StateFacts
<1>3. /\ In(wrQ.slots[i].req) \subseteq sel
      /\ wrQ.slots[i].buf = [c \in In(wrQ.slots[i].req) |-> Source(c)]
  BY <1>1 DEF IInv, Writes
<1>4. wrQ.slots[i].buf \in [In(wrQ.slots[i].req) -> Content]
  BY <1>2, <1>3 DEF Source, Content
<1>5. wrQ.slots[i].buf \in SpanData
  BY <1>2, <1>4, SpanDataOf
<1>6. mode # "compare"
  BY EmptyRing DEF IInv, Unused
<1> QED
  BY <1>1, <1>2, <1>3, <1>5, <1>6

\* A write ends.
LEMMA WriteDoneStep ==
  ASSUME IInv, NEW i \in Index, WriteDone(i)
  PROVE  IInv'
<1> DEFINE span == In(wrQ.slots[i].req)
           data == wrQ.slots[i].buf
<1>1. /\ i \in InFlight(wrQ)
      /\ UNCHANGED <<mode, sel, stale, next, srcQ, destQ, lcn, diffMap, stats, pc>>
  BY DEF WriteDone, frozen
<1>2. PICK result \in {"ok", "failed"} :
        /\ wrQ' = CompleteIo(wrQ, i, result, data)
        /\ dest' = [c \in Clusters |->
                      IF result = "ok" /\ c \in span THEN data[c] ELSE dest[c]]
  BY DEF WriteDone, IoResults
<1>3. /\ i \in Window(wrQ) /\ span \subseteq sel /\ span \subseteq Clusters
      /\ data = [c \in span |-> Source(c)] /\ data \in SpanData
      /\ mode # "compare"
  BY <1>1, WriteFacts
<1>4. Ring(wrQ) /\ Ring(wrQ') /\ Completed(wrQ, wrQ', i, result, data)
  <2>1. Ring(wrQ)
    BY DEF IInv
  <2> HIDE DEF data
  <2> QED
    BY <1>1, <1>2, <1>3, <2>1, DoneRing
<1>5. /\ Window(wrQ') = Window(wrQ) /\ Window(wrQ) \subseteq Index
      /\ wrQ'.pendingCount = wrQ.pendingCount
      /\ InFlight(wrQ') = InFlight(wrQ) \ {i} /\ InFlight(wrQ) \subseteq Index
      /\ \A j \in Index : wrQ'.slots[j].req = wrQ.slots[j].req
      /\ \A j \in Index \ {i} : wrQ'.slots[j] = wrQ.slots[j]
      /\ wrQ'.slots[i].buf = data /\ wrQ'.slots[i].io = result
  BY <1>4, RingFacts DEF Completed, InFlight
<1>6. \A c \in Clusters : dest'[c] = IF result = "ok" /\ c \in span THEN Source(c) ELSE dest[c]
  <2>1. \A c \in span : data[c] = Source(c)
    BY <1>3
  <2> HIDE DEF data, span
  <2> QED
    BY <1>2, <2>1
<1>7. dest' \in [Clusters -> Content]
  <2>1. \A c \in Clusters : dest'[c] \in Content
    BY <1>6, StateFacts DEF Content, Source
  <2>2. dest' = [c \in Clusters |-> dest'[c]]
    BY <1>2
  <2> QED
    BY <2>1, <2>2
<1> HIDE DEF data, span
<1>8. \A c \in Clusters : dest[c] = Source(c) => dest'[c] = Source(c)
  BY <1>6
<1>9. \A j \in InFlight(wrQ) \ {i} : In(wrQ.slots[j].req) \cap span = {}
  BY <1>1 DEF IInv, WritesInPlace, NoOverlap, span
<1>10. TypeOK' /\ Unused'
  BY <1>1, <1>3, <1>4, <1>7 DEF IInv, TypeOK, Ring, Unused
<1>11. Chunks' /\ AtHand'
  BY <1>1 DEF IInv, Chunks, AtHand, Slice
<1>12. InStep'
  BY <1>1 DEF IInv, InStep, Slice, Original
<1>13. Writes'
  <2>1. ASSUME NEW j \in Window(wrQ)
        PROVE  /\ In(wrQ.slots[j].req) \subseteq sel
               /\ wrQ'.slots[j].buf = [c \in In(wrQ.slots[j].req) |-> Source(c)]
               /\ wrQ'.slots[j].io = "ok" =>
                    \A c \in In(wrQ.slots[j].req) : dest'[c] = Source(c)
    <3>1. In(wrQ.slots[j].req) \subseteq Clusters
      BY StateFacts
    <3>2. CASE j = i
      BY <1>3, <1>5, <1>6, <3>1, <3>2 DEF span
    <3>3. CASE j # i
      <4>1. /\ wrQ'.slots[j] = wrQ.slots[j]
            /\ In(wrQ.slots[j].req) \subseteq sel
            /\ wrQ.slots[j].buf = [c \in In(wrQ.slots[j].req) |-> Source(c)]
            /\ wrQ.slots[j].io = "ok" =>
                 \A c \in In(wrQ.slots[j].req) : dest[c] = Source(c)
        BY <1>5, <3>3 DEF IInv, Writes
      <4> QED
        BY <1>8, <3>1, <4>1
    <3> QED
      BY <3>2, <3>3
  <2> QED
    BY <1>1, <1>5, <2>1 DEF Writes, Source
<1>14. Waiting' = Waiting /\ Unclosed' = Unclosed
  BY <1>1 DEF Waiting, Unclosed, Slice
<1>15. Untouched'
  <2> SUFFICES ASSUME pc # "thrown"
               PROVE  /\ \A c \in Waiting : dest'[c] = Original(c)
                      /\ Waiting \cap ClustersOf(wrQ', InFlight(wrQ')) = {}
    BY <1>1, <1>14 DEF Untouched, Original, Source
  <2>1. /\ \A c \in Waiting : dest[c] = Original(c)
        /\ Waiting \cap ClustersOf(wrQ, InFlight(wrQ)) = {}
    BY DEF IInv, Untouched
  <2>2. Waiting \cap span = {}
    BY <1>1, <2>1 DEF ClustersOf, span
  <2>3. \A c \in Waiting : dest'[c] = Original(c)
    BY <1>6, <2>1, <2>2, StateFacts
  <2>4. ClustersOf(wrQ', InFlight(wrQ')) \subseteq ClustersOf(wrQ, InFlight(wrQ))
    BY <1>5 DEF ClustersOf
  <2> QED
    BY <2>1, <2>3, <2>4
<1>16. Ended'
  BY <1>1, <1>5 DEF IInv, Ended, IsEmpty
<1>17. Kept'
  <2>1. ClustersOf(wrQ', Window(wrQ')) = ClustersOf(wrQ, Window(wrQ))
    BY <1>5 DEF ClustersOf
  <2> SUFFICES ASSUME pc # "thrown", NEW c \in sel \ Waiting
               PROVE  dest'[c] = Source(c) \/ c \in ClustersOf(wrQ, Window(wrQ))
    BY <1>1, <1>14, <2>1 DEF Kept, Source
  <2>2. dest[c] = Source(c) \/ c \in ClustersOf(wrQ, Window(wrQ))
    BY <1>3 DEF IInv, Kept, Written
  <2>3. c \in Clusters
    BY StateFacts
  <2> QED
    BY <1>8, <2>2, <2>3
<1>18. Counted'
  BY <1>1, <1>14 DEF IInv, Counted
<1>19. WritesInPlace'
  <2>1. ClustersOf(wrQ', InFlight(wrQ')) \subseteq ClustersOf(wrQ, InFlight(wrQ))
    BY <1>5 DEF ClustersOf
  <2>2. NoOverlap'
    BY <1>1, <1>5, <2>1 DEF IInv, WritesInPlace, NoOverlap
  <2>3. OnlyNecessaryWrites'
    <3> SUFFICES ASSUME mode = "rcw", NEW c \in ClustersOf(wrQ', InFlight(wrQ'))
                 PROVE  c \in sel \cap stale /\ dest'[c] = Old
      BY <1>1 DEF OnlyNecessaryWrites
    <3>1. c \in sel \cap stale /\ dest[c] = Old
      BY <2>1 DEF IInv, WritesInPlace, OnlyNecessaryWrites
    <3>2. c \notin span
      BY <1>5, <1>9 DEF ClustersOf
    <3> QED
      BY <1>6, <3>1, <3>2, StateFacts
  <2> QED
    BY <2>2, <2>3 DEF WritesInPlace
<1>20. Ring(srcQ') /\ Ring(destQ')
  BY <1>1 DEF IInv
<1> QED
  BY <1>4, <1>10, <1>11, <1>12, <1>13, <1>15, <1>16, <1>17, <1>18, <1>19, <1>20 DEF IInv

-----------------------------------------------------------------------------
(* The theorems.                                                           *)

LEMMA StutterStep ==
  ASSUME IInv, UNCHANGED vars
  PROVE  IInv'
<1>1. /\ UNCHANGED <<mode, sel, stale>>
      /\ UNCHANGED <<frozen, dest, next, srcQ, destQ, wrQ, lcn, diffMap, stats, pc>>
  BY DEF vars, frozen
<1>2. TypeOK' /\ Ring(srcQ') /\ Ring(destQ') /\ Ring(wrQ') /\ Unused'
  BY <1>1 DEF IInv, TypeOK, Unused
<1>3. Waiting' = Waiting /\ Unclosed' = Unclosed
  BY <1>1 DEF Waiting, Unclosed, Slice
<1>4. Chunks' /\ AtHand' /\ Ended'
  BY <1>1 DEF IInv, Chunks, AtHand, Ended, Slice
<1>5. InStep' /\ Writes'
  BY <1>1 DEF IInv, InStep, Writes, Slice, Original
<1>6. Untouched' /\ Kept'
  BY <1>1, <1>3 DEF IInv, Untouched, Kept, Written, Original, ClustersOf
<1>7. Counted'
  BY <1>1, <1>3 DEF IInv, Counted
<1>8. WritesInPlace'
  BY <1>1 DEF IInv, WritesInPlace, NoOverlap, OnlyNecessaryWrites
<1> QED
  BY <1>2, <1>4, <1>5, <1>6, <1>7, <1>8 DEF IInv

\* Every step of the program and of the operating system keeps the invariant.
LEMMA StepHolds == IInv /\ [Next]_vars => IInv'
<1> SUFFICES ASSUME IInv, [Next]_vars
             PROVE  IInv'
  OBVIOUS
<1>1. CASE Program
  <2>1. CASE PushSlice
    BY <2>1, PushSliceStep
  <2>2. CASE OpenChunk
    BY <2>2, OpenChunkStep
  <2>3. CASE ReportSpan
    BY <2>3, ReportSpanStep
  <2>4. CASE CloseChunk
    BY <2>4, CloseChunkStep
  <2>5. CASE Drained \/ FlushEnd
    BY <2>5, LeaveSteps
  <2>6. CASE FlushOne
    BY <2>6, FlushOneStep
  <2>7. CASE ReadNotIssued \/ ReadWaitFails \/ WriteNotIssued \/ WriteWaitFails
    BY <2>7, ThrowSteps
  <2> QED
    BY <1>1, <2>1, <2>2, <2>3, <2>4, <2>5, <2>6, <2>7 DEF Program
<1>2. CASE \E i \in Index : SrcReadDone(i) \/ DestReadDone(i) \/ WriteDone(i)
  BY <1>2, SrcReadDoneStep, DestReadDoneStep, WriteDoneStep
<1>3. CASE UNCHANGED vars
  BY <1>3, StutterStep
<1> QED
  BY <1>1, <1>2, <1>3 DEF Next, Finished

LEMMA InvariantHolds == Spec => []IInv
BY InitHolds, StepHolds, PTL DEF Spec

\* When the loop is left, nothing waits.
LEMMA NothingWaits ==
  ASSUME IInv, pc \in {"flush", "done"}
  PROVE  sel \cap Waiting = {} /\ sel \cap Unclosed = {}
<1>1. IsEmpty(srcQ) /\ \A c \in sel : c < next /\ c \in Nat /\ next \in Nat
  BY StateFacts DEF IInv, Ended
<1>2. Window(srcQ) = {}
  BY <1>1 DEF IsEmpty, Window
<1> QED
  BY <1>1, <1>2 DEF Waiting, Unclosed

\* The rings and the volume account for every cluster that still differs, and
\* a normal end leaves no I/O behind. (process, try_pop_front)
THEOREM TransfersAccounted == Spec => []TransferInv
<1>1. IInv => TransferInv
  <2> SUFFICES ASSUME IInv
               PROVE  TransferInv
    OBVIOUS
  <2>1. NothingLost
    <3> SUFFICES ASSUME pc \in {"open", "flush"}, Written, NEW c \in sel, dest[c] # Source(c)
                 PROVE  \/ c >= next
                        \/ \E i \in Window(srcQ) :
                             /\ c \in In(srcQ.slots[i].req)
                             /\ (i = srcQ.tail /\ lcn # None => c >= lcn)
                        \/ c \in ClustersOf(wrQ, Window(wrQ))
      BY DEF NothingLost
    <3>1. c \in Waiting \/ c \in ClustersOf(wrQ, Window(wrQ))
      BY DEF IInv, Kept
    <3> QED
      BY <3>1 DEF Waiting, Slice
  <2>2. QuietEnd
    <3> SUFFICES ASSUME pc = "done"
                 PROVE  InFlight(srcQ) \cup InFlight(destQ) \cup InFlight(wrQ) = {}
      BY DEF QuietEnd
    <3>1. IsEmpty(srcQ) /\ IsEmpty(wrQ)
      BY DEF IInv, Ended
    <3>2. IsEmpty(destQ)
      BY <3>1, EmptyRing DEF IInv, Unused, InStep, IsEmpty
    <3>3. Window(srcQ) = {} /\ Window(destQ) = {} /\ Window(wrQ) = {}
      BY <3>1, <3>2 DEF Window, IsEmpty
    <3> QED
      BY <3>3 DEF IInv, Ring
  <2> QED
    BY <2>1, <2>2 DEF IInv, TransferInv
<1> QED
  BY <1>1, InvariantHolds, PTL

\* Nothing of the destination is read and written, or written twice, at the
\* same time, and with "rcw" only what differs is written. (onDirtySpan)
THEOREM WritesStayInPlace == Spec => []WritesInPlace
<1>1. IInv => WritesInPlace
  BY DEF IInv
<1> QED
  BY <1>1, InvariantHolds, PTL

\* The comparison is exact, in the order of completions, the size of chunks and
\* the depth of the rings. (clustersDiffCount, diffMap)
THEOREM ComparisonExact == Spec => []DiffExact
<1>1. IInv => DiffExact
  <2> SUFFICES ASSUME IInv, pc = "done", mode # "copy"
               PROVE  /\ diffMap = sel \cap stale
                      /\ stats = [checked |-> Cardinality(sel),
                                  differing |-> Cardinality(diffMap),
                                  spans |-> Cardinality(diffMap)]
    BY DEF DiffExact
  <2>1. /\ sel \ Waiting = sel /\ sel \ Unclosed = sel
        /\ (sel \cap stale) \ Waiting = sel \cap stale
        /\ (sel \cap stale) \ Unclosed = sel \cap stale
    BY NothingWaits
  <2>2. /\ diffMap = sel \cap stale
        /\ stats.spans = Cardinality(diffMap) /\ stats.checked = Cardinality(sel)
        /\ stats.differing = Cardinality(diffMap)
    BY <2>1 DEF IInv, Counted
  <2>3. stats \in [checked : Nat, differing : Nat, spans : Nat]
    BY DEF IInv, TypeOK
  <2> QED
    BY <2>2, <2>3
<1> QED
  BY <1>1, InvariantHolds, PTL

\* The processors implement the update: behind rings, chunks and completions in
\* any order there are only selected clusters that take the source's content,
\* and an end that is reported when it is the end. (process)
THEOREM ProcessorsImplementUpdate == Spec => ImplementsUpdate
<1> DEFINE verdict == IF pc = "flush" THEN "open" ELSE pc
<1>1. Init => Abstract!UpdateInit
  BY DEF Init, Abstract!UpdateInit, Written
<1>2. IInv /\ [Next]_vars => [Abstract!UpdateNext]_(Abstract!uvars)
  <2> SUFFICES ASSUME IInv, [Next]_vars
               PROVE  Abstract!UpdateNext \/ UNCHANGED <<Written, sel, dest, verdict>>
    BY DEF Abstract!uvars
  <2>1. ASSUME UNCHANGED <<frozen, dest>>, pc' = pc
        PROVE  UNCHANGED <<Written, sel, dest, verdict>>
    BY <2>1 DEF frozen, Written
  <2>2. ASSUME UNCHANGED <<frozen, dest>>, pc \in {"open", "flush"}, pc' = "thrown"
        PROVE  Abstract!UpdateNext
    BY <2>2 DEF Abstract!UpdateNext, Abstract!Fail, frozen, Written
  <2>3. CASE PushSlice \/ OpenChunk \/ ReportSpan \/ CloseChunk \/ FlushOne
    BY <2>1, <2>3 DEF PushSlice, OpenChunk, ReportSpan, CloseChunk, FlushOne
  <2>4. CASE ReadNotIssued \/ WriteNotIssued \/ ReadWaitFails \/ WriteWaitFails
    BY <2>2, <2>4 DEF ReadNotIssued, WriteNotIssued, ReadWaitFails, WriteWaitFails
  <2>5. CASE Drained
    <3>1. CASE mode = "compare"
      BY <2>5, <3>1 DEF Drained, Abstract!UpdateNext, Abstract!Finish, frozen, Written
    <3>2. CASE mode # "compare"
      BY <2>5, <3>2 DEF Drained, frozen, Written
    <3> QED
      BY <3>1, <3>2
  <2>6. CASE FlushEnd
    <3>1. /\ pc = "flush" /\ pc' = "done" /\ IsEmpty(wrQ)
          /\ UNCHANGED <<mode, sel, dest>>
      BY <2>6 DEF FlushEnd, frozen
    <3>2. Written => \A c \in sel : dest[c] = Source(c)
      <4>1. Window(wrQ) = {}
        BY <3>1 DEF Window, IsEmpty
      <4>2. sel \cap Waiting = {}
        BY <3>1, NothingWaits
      <4> QED
        BY <3>1, <4>1, <4>2 DEF IInv, Kept, ClustersOf
    <3> QED
      BY <3>1, <3>2 DEF Abstract!UpdateNext, Abstract!Finish, Written
  <2>7. CASE \E i \in Index : SrcReadDone(i) \/ DestReadDone(i)
    BY <2>1, <2>7 DEF SrcReadDone, DestReadDone
  <2>8. CASE \E i \in Index : WriteDone(i)
    <3>1. PICK i \in Index : WriteDone(i)
      BY <2>8
    <3> DEFINE span == In(wrQ.slots[i].req)
    <3>2. i \in InFlight(wrQ) /\ UNCHANGED <<mode, sel, pc>>
      BY <3>1 DEF WriteDone, frozen
    <3>3. /\ i \in Window(wrQ) /\ span \subseteq sel
          /\ \A c \in span : wrQ.slots[i].buf[c] = Source(c)
          /\ Written
      BY <3>2, WriteFacts DEF Written
    <3>4. pc # "done"
      <4>1. ~IsEmpty(wrQ)
        BY <3>3 DEF Window, IsEmpty
      <4> QED
        BY <4>1 DEF IInv, Ended
    <3>5. \/ dest' = [c \in Clusters |-> IF c \in span THEN wrQ.slots[i].buf[c] ELSE dest[c]]
          \/ dest' = [c \in Clusters |-> dest[c]]
      BY <3>1 DEF WriteDone, IoResults
    <3> HIDE DEF span
    <3>6. CASE dest' = [c \in Clusters |-> IF c \in span THEN wrQ.slots[i].buf[c] ELSE dest[c]]
      <4>1. dest' = [c \in Clusters |-> IF c \in span THEN Source(c) ELSE dest[c]]
        BY <3>3, <3>6
      <4>2. Abstract!Update(span)
        BY <3>2, <3>3, <3>4, <4>1 DEF Abstract!Update, Written
      <4> QED
        BY <3>3, <4>2 DEF Abstract!UpdateNext
    <3>7. CASE dest' = [c \in Clusters |-> dest[c]]
      <4>1. dest' = dest
        BY <3>7, StateFacts
      <4> QED
        BY <3>2, <4>1 DEF Written
    <3> QED
      BY <3>5, <3>6, <3>7
  <2>9. CASE UNCHANGED vars
    BY <2>1, <2>9 DEF vars
  <2> QED
    BY <2>3, <2>4, <2>5, <2>6, <2>7, <2>8, <2>9 DEF Next, Program, Finished
<1> QED
  BY <1>1, <1>2, InvariantHolds, PTL DEF Spec, ImplementsUpdate, Abstract!UpdateSpec

=============================================================================
