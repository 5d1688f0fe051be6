------------------------ MODULE AsyncWriter_proofs ------------------------
(***************************************************************************)
(* Proofs about AsyncWriter, for every depth, every set of requests and    *)
(* every number of them.                                                   *)
(*                                                                         *)
(* The argument: the ring is a window of the history of accepted writes,   *)
(* from the first one that was not waited for to the last one accepted. A  *)
(* write has landed when it was waited for or its slot says that it went   *)
(* well, and until an exception the medium counts exactly the writes that  *)
(* landed. Waiting for a write and taking its slot for the next one (which *)
(* push_back does in one call) changes nothing about what landed; only the *)
(* operating system does. When the flush loop ends the window is empty, so *)
(* every accepted write has landed.                                        *)
(***************************************************************************)
EXTENDS AsyncWriter, ModArith, FiniteSetTheorems

USE DepthAssumption, NoneAssumption

\* The writes a ring with this history still waits for. (slots from tail on)
Waiting(acc, ret) == ret + 1 .. Len(acc)

\* Write n waits in its own slot of ring k, with its own data.
InItsSlot(k, acc, n) ==
  /\ k.slots[SlotOf(n)].isPending
  /\ k.slots[SlotOf(n)].req = acc[n]
  /\ k.slots[SlotOf(n)].buf = acc[n]

\* Ring k is the window of the history acc that begins after ret writes.
Ring(k, acc, ret) ==
  /\ k \in Queue(Requests, Requests)
  /\ acc \in Seq(Requests)
  /\ ret \in Nat
  /\ Len(acc) = ret + k.pendingCount
  /\ k.head = Len(acc) % Depth
  /\ k.tail = ret % Depth
  /\ \A n \in Waiting(acc, ret) : InItsSlot(k, acc, n)
  /\ \A i \in InFlight(k) : \E n \in Waiting(acc, ret) : SlotOf(n) = i

\* Write n is known to be on the medium.
Landed(k, ret, n) == n <= ret \/ k.slots[SlotOf(n)].io = "ok"

\* The writes of r that have landed.
LandedOf(k, acc, ret, r) == {n \in 1 .. Len(acc) : acc[n] = r /\ Landed(k, ret, n)}

\* The same writes have landed by the one ring and history and the other.
SameLanded(k, acc, ret, k2, acc2, ret2) ==
  \A r : LandedOf(k, acc, ret, r) = LandedOf(k2, acc2, ret2, r)

\* Until an exception, the medium holds each write as often as it landed.
MediumExact ==
  phase # "thrown" =>
    \A r \in Requests : medium[r] = Cardinality(LandedOf(q, accepted, retired, r))

\* The inductive invariant.
IInv ==
  /\ Ring(q, accepted, retired)
  /\ phase \in {"pushing", "flushing", "done", "thrown"}
  /\ medium \in [Requests -> Nat]
  /\ phase = "done" => IsEmpty(q)
  /\ MediumExact

-----------------------------------------------------------------------------
(* The ring as a window of the history.                                    *)

\* Lengths, counters and slots of a ring. (pending_count, head, tail)
LEMMA RingFacts ==
  ASSUME NEW k, NEW acc, NEW ret, Ring(k, acc, ret)
  PROVE  /\ Len(acc) \in Nat /\ ret \in Nat
         /\ k.pendingCount \in 0 .. Depth
         /\ Len(acc) - ret = k.pendingCount
         /\ k.head \in Index /\ k.tail \in Index
         /\ k.head = SlotOf(Len(acc) + 1) /\ k.tail = SlotOf(ret + 1)
         /\ \A n \in Waiting(acc, ret) : n \in Nat \ {0} /\ SlotOf(n) \in Index
         /\ k.slots \in [Index -> Slot(Requests, Requests)]
<1>1. /\ Len(acc) \in Nat /\ ret \in Nat
      /\ k.pendingCount \in 0 .. Depth
      /\ k.head \in Index /\ k.tail \in Index
      /\ k.slots \in [Index -> Slot(Requests, Requests)]
      /\ Len(acc) = ret + k.pendingCount
  BY DEF Ring, Queue
<1>2. Len(acc) - ret = k.pendingCount
  BY <1>1
<1>3. \A n \in Waiting(acc, ret) : n \in Nat \ {0}
  BY <1>1 DEF Waiting
<1>4. \A n \in Waiting(acc, ret) : SlotOf(n) \in Index
  BY <1>3, DivMod DEF SlotOf, Index
<1>5. k.head = SlotOf(Len(acc) + 1) /\ k.tail = SlotOf(ret + 1)
  BY <1>1 DEF Ring, SlotOf
<1> QED
  BY <1>1, <1>2, <1>3, <1>4, <1>5

\* Writes waiting at the same time wait in different slots, and none of them
\* in the slot that is taken next, unless the ring is full. (push_back)
LEMMA SlotsApart ==
  ASSUME NEW k, NEW acc, NEW ret, Ring(k, acc, ret),
         NEW m \in Waiting(acc, ret), NEW n \in ret + 1 .. Len(acc) + 1,
         m < n, n = Len(acc) + 1 => ~IsFull(k)
  PROVE  SlotOf(m) # SlotOf(n)
<1>1. /\ m - 1 \in Nat /\ n - 1 \in Nat
      /\ m - 1 < n - 1 /\ (n - 1) - (m - 1) < Depth
  BY RingFacts DEF Waiting, IsFull
<1> QED
  BY <1>1, ModDistinct DEF SlotOf

\* The fields of a ring after its front was popped. (try_pop_front)
LEMMA PopFields ==
  ASSUME NEW k, NEW acc, NEW ret, Ring(k, acc, ret), ~IsEmpty(k),
         NEW p, p = PopFront(k)
  PROVE  /\ p \in Queue(Requests, Requests)
         /\ p.head = k.head
         /\ p.tail = (ret + 1) % Depth
         /\ p.pendingCount = k.pendingCount - 1
         /\ \A i \in Index : p.slots[i].io = k.slots[i].io
         /\ \A i \in Index \ {k.tail} : p.slots[i] = k.slots[i]
<1>0. /\ k \in Queue(Requests, Requests) /\ k.tail \in Index
      /\ k.slots \in [Index -> Slot(Requests, Requests)]
  BY DEF Ring, Queue
<1>1. p = [slots |-> [k.slots EXCEPT ![k.tail].isPending = FALSE],
           head |-> k.head, tail |-> Advance(k.tail),
           pendingCount |-> k.pendingCount - 1]
  BY <1>0 DEF PopFront, Queue
<1>2. k.pendingCount - 1 \in 0 .. Depth
  BY RingFacts DEF IsEmpty
<1>3. Advance(k.tail) = (ret + 1) % Depth /\ Advance(k.tail) \in Index
  <2>1. k.tail \in Nat /\ k.tail + 1 \in Nat /\ ret \in Nat
    BY RingFacts DEF Index
  <2> QED
    BY <2>1, ModStep, DivMod DEF Advance, Index, Ring
<1>4. [k.slots EXCEPT ![k.tail].isPending = FALSE]
        \in [Index -> Slot(Requests, Requests)]
  BY <1>0 DEF Slot
<1>5. \A i \in Index : [k.slots EXCEPT ![k.tail].isPending = FALSE][i].io = k.slots[i].io
  BY RingFacts DEF Slot
<1>6. p \in Queue(Requests, Requests)
  BY <1>1, <1>2, <1>3, <1>4, RingFacts DEF Queue
<1> QED
  BY <1>1, <1>3, <1>5, <1>6, RingFacts

\* Releasing the oldest write leaves a ring with one write less, and if that
\* write went well the same writes have landed. (try_pop_front)
LEMMA PopRing ==
  ASSUME NEW k, NEW acc, NEW ret, Ring(k, acc, ret), ~IsEmpty(k),
         Front(k).io # "inflight", NEW p, p = PopFront(k)
  PROVE  /\ Ring(p, acc, ret + 1)
         /\ ~IsFull(p)
         /\ Front(k).io = "ok" => SameLanded(p, acc, ret + 1, k, acc, ret)
<1>1. /\ p \in Queue(Requests, Requests)
      /\ p.head = k.head
      /\ p.tail = (ret + 1) % Depth
      /\ p.pendingCount = k.pendingCount - 1
      /\ \A i \in Index : p.slots[i].io = k.slots[i].io
      /\ \A i \in Index \ {k.tail} : p.slots[i] = k.slots[i]
  BY PopFields
<1>2. ret + 1 \in Waiting(acc, ret) /\ ret + 1 \in Nat
  BY RingFacts DEF Waiting, IsEmpty
<1>3. ASSUME NEW n \in Waiting(acc, ret + 1)
      PROVE  n \in Waiting(acc, ret) /\ SlotOf(n) \in Index \ {k.tail}
  <2>1. n \in Waiting(acc, ret) /\ n > ret + 1 /\ n \in ret + 1 .. Len(acc) + 1
        /\ n # Len(acc) + 1
    BY RingFacts DEF Waiting
  <2>2. SlotOf(ret + 1) # SlotOf(n)
    BY <1>2, <2>1, SlotsApart
  <2> QED
    BY <2>1, <2>2, RingFacts
<1>4. \A n \in Waiting(acc, ret + 1) : InItsSlot(p, acc, n)
  BY <1>1, <1>3 DEF InItsSlot, Ring
<1>5. ASSUME NEW i \in InFlight(p)
      PROVE  \E n \in Waiting(acc, ret + 1) : SlotOf(n) = i
  <2>1. i \in InFlight(k) /\ i # k.tail
    BY <1>1 DEF InFlight, Front
  <2>2. PICK n \in Waiting(acc, ret) : SlotOf(n) = i
    BY <2>1 DEF Ring
  <2>3. n # ret + 1
    BY <2>1, <2>2, RingFacts
  <2>4. n \in Waiting(acc, ret + 1)
    BY <2>3, RingFacts DEF Waiting
  <2> QED
    BY <2>2, <2>4
<1>6. Len(acc) = (ret + 1) + p.pendingCount
  BY <1>1, RingFacts
<1>7. Ring(p, acc, ret + 1)
  BY <1>1, <1>2, <1>4, <1>5, <1>6 DEF Ring
<1>8. ~IsFull(p)
  BY <1>1, RingFacts DEF IsFull
<1>9. ASSUME Front(k).io = "ok", NEW n \in 1 .. Len(acc)
      PROVE  Landed(p, ret + 1, n) <=> Landed(k, ret, n)
  <2>1. CASE n <= ret
    BY <2>1, RingFacts DEF Landed
  <2>2. CASE n = ret + 1
    BY <1>9, <2>2, RingFacts DEF Landed, Front
  <2>3. CASE n > ret + 1
    <3>1. n \in Waiting(acc, ret)
      BY <2>3, RingFacts DEF Waiting
    <3>2. p.slots[SlotOf(n)].io = k.slots[SlotOf(n)].io
      BY <1>1, <3>1, RingFacts
    <3> QED
      BY <2>3, <3>2, RingFacts DEF Landed
  <2> QED
    BY <2>1, <2>2, <2>3, RingFacts
<1>10. Front(k).io = "ok" => SameLanded(p, acc, ret + 1, k, acc, ret)
  BY <1>9 DEF LandedOf, SameLanded
<1> QED
  BY <1>7, <1>8, <1>10

\* Taking a slot for one more write leaves a ring with that write at its end
\* and the same writes landed. (push_back)
LEMMA PushRing ==
  ASSUME NEW k, NEW acc, NEW ret, Ring(k, acc, ret), ~IsFull(k), NEW w \in Requests,
         NEW p, p = PushBack(k, w, w), NEW a, a = Append(acc, w)
  PROVE  /\ Ring(p, a, ret)
         /\ SameLanded(p, a, ret, k, acc, ret)
<1> DEFINE s == [req |-> w, buf |-> w, io |-> "inflight", isPending |-> TRUE]
           e == Len(acc) + 1
<1>0. k \in Queue(Requests, Requests)
  BY DEF Ring
<1>1. p = [slots |-> [k.slots EXCEPT ![k.head] = s], head |-> Advance(k.head),
           tail |-> k.tail, pendingCount |-> k.pendingCount + 1]
  BY <1>0 DEF PushBack, Queue
<1>2. /\ Len(a) = e /\ a \in Seq(Requests) /\ a[e] = w
      /\ \A n \in 1 .. Len(acc) : a[n] = acc[n]
  BY DEF Ring
<1>3. k.pendingCount + 1 \in 0 .. Depth
  BY RingFacts DEF IsFull
<1>4. Advance(k.head) = e % Depth /\ Advance(k.head) \in Index
  <2>1. k.head \in Nat /\ k.head + 1 \in Nat /\ Len(acc) \in Nat
    BY RingFacts DEF Index
  <2> QED
    BY <2>1, ModStep, DivMod DEF Advance, Index, Ring
<1>5. p \in Queue(Requests, Requests)
  <2>1. s \in Slot(Requests, Requests)
    BY DEF Slot, IoStates
  <2>2. [k.slots EXCEPT ![k.head] = s] \in [Index -> Slot(Requests, Requests)]
    BY <2>1, RingFacts
  <2> QED
    BY <1>1, <1>3, <1>4, <2>2, RingFacts DEF Queue
<1>6. /\ p.slots[k.head] = s
      /\ \A i \in Index \ {k.head} : p.slots[i] = k.slots[i]
  BY <1>1, RingFacts
<1>7. SlotOf(e) = k.head /\ e \in Waiting(a, ret)
      /\ \A n : n \in Waiting(a, ret) <=> n \in Waiting(acc, ret) \/ n = e
  BY <1>2, RingFacts DEF Waiting
<1>8. ASSUME NEW n \in Waiting(acc, ret)
      PROVE  /\ p.slots[SlotOf(n)] = k.slots[SlotOf(n)] /\ SlotOf(n) # k.head
             /\ n \in 1 .. Len(acc)
  <2>1. n < e /\ e \in ret + 1 .. Len(acc) + 1 /\ n \in 1 .. Len(acc)
    BY RingFacts DEF Waiting
  <2>2. SlotOf(n) # SlotOf(e)
    BY <2>1, SlotsApart
  <2> QED
    BY <1>6, <1>7, <2>1, <2>2, RingFacts
<1>9. \A n \in Waiting(a, ret) : InItsSlot(p, a, n)
  <2>1. InItsSlot(p, a, e)
    BY <1>2, <1>6, <1>7 DEF InItsSlot
  <2>2. ASSUME NEW n \in Waiting(acc, ret)
        PROVE  InItsSlot(p, a, n)
    BY <1>2, <1>8 DEF InItsSlot, Ring
  <2> QED
    BY <1>7, <2>1, <2>2
<1>10. ASSUME NEW i \in InFlight(p)
       PROVE  \E n \in Waiting(a, ret) : SlotOf(n) = i
  <2>1. CASE i = k.head
    BY <1>7, <2>1
  <2>2. CASE i # k.head
    <3>1. i \in InFlight(k)
      BY <1>6, <2>2 DEF InFlight
    <3> QED
      BY <1>7, <3>1 DEF Ring
  <2> QED
    BY <2>1, <2>2
<1>11. /\ Len(a) = ret + p.pendingCount /\ p.head = Len(a) % Depth
       /\ p.tail = ret % Depth
  <2>1. p.pendingCount = k.pendingCount + 1 /\ p.head = Advance(k.head) /\ p.tail = k.tail
    BY <1>1
  <2>2. Len(acc) = ret + k.pendingCount /\ k.tail = ret % Depth
    BY DEF Ring
  <2>3. Len(a) = ret + p.pendingCount
    BY <1>2, <2>1, <2>2, RingFacts
  <2> QED
    BY <1>2, <1>4, <2>1, <2>2, <2>3
<1>12. Ring(p, a, ret)
  <2>1. ret \in Nat
    BY RingFacts
  <2> HIDE DEF e, s
  <2> QED
    BY <1>2, <1>5, <1>9, <1>10, <1>11, <2>1 DEF Ring
<1>13. ~Landed(p, ret, e)
  BY <1>6, <1>7, RingFacts DEF Landed
<1>14. ASSUME NEW n \in 1 .. Len(acc)
       PROVE  Landed(p, ret, n) <=> Landed(k, ret, n)
  <2>1. CASE n <= ret
    BY <2>1 DEF Landed
  <2>2. CASE n > ret
    <3>1. n \in Waiting(acc, ret)
      BY <2>2, RingFacts DEF Waiting
    <3> QED
      BY <1>8, <3>1 DEF Landed
  <2> QED
    BY <2>1, <2>2, RingFacts
<1>15. SameLanded(p, a, ret, k, acc, ret)
  <2>1. \A n : n \in 1 .. Len(a) <=> n \in 1 .. Len(acc) \/ n = e
    BY <1>2, RingFacts
  <2>2. ASSUME NEW n
        PROVE  n \in 1 .. Len(a) /\ Landed(p, ret, n)
                 <=> n \in 1 .. Len(acc) /\ Landed(k, ret, n)
    BY <1>13, <1>14, <2>1
  <2>3. \A n \in 1 .. Len(acc) : n \in 1 .. Len(a) /\ a[n] = acc[n]
    BY <1>2, <2>1
  <2> QED
    BY <2>2, <2>3 DEF LandedOf, SameLanded
<1> QED
  BY <1>12, <1>15

\* What a completion does to a ring: one slot's result. (GetOverlappedResult)
LEMMA CompletionRing ==
  ASSUME NEW k, NEW acc, NEW ret, Ring(k, acc, ret), NEW i \in InFlight(k),
         NEW result \in Results, NEW p, p = CompleteIo(k, i, result, k.slots[i].buf)
  PROVE  /\ Ring(p, acc, ret)
         /\ \E m \in Waiting(acc, ret) :
              /\ m \in 1 .. Len(acc) /\ SlotOf(m) = i /\ k.slots[i].buf = acc[m]
              /\ ~Landed(k, ret, m)
              /\ Landed(p, ret, m) <=> result = "ok"
              /\ \A n \in 1 .. Len(acc) \ {m} : Landed(p, ret, n) <=> Landed(k, ret, n)
<1>0. /\ k \in Queue(Requests, Requests)
      /\ i \in Index /\ k.slots[i].io = "inflight"
      /\ k.slots \in [Index -> Slot(Requests, Requests)]
  BY DEF Ring, InFlight, Queue
<1> DEFINE s == [k.slots[i] EXCEPT !.io = result]
<1>1. p = [k EXCEPT !.slots = [k.slots EXCEPT ![i] = s]]
  BY <1>0 DEF CompleteIo, Queue, Slot
<1>2. /\ s \in Slot(Requests, Requests)
      /\ s.io = result /\ s.buf = k.slots[i].buf /\ s.req = k.slots[i].req
      /\ s.isPending = k.slots[i].isPending
  BY <1>0 DEF Slot, IoStates
<1> HIDE DEF s
<1>3. /\ p \in Queue(Requests, Requests)
      /\ p.head = k.head /\ p.tail = k.tail /\ p.pendingCount = k.pendingCount
      /\ p.slots = [k.slots EXCEPT ![i] = s]
  BY <1>0, <1>1, <1>2 DEF Queue
<1>4. /\ p.slots[i] = s
      /\ \A j \in Index \ {i} : p.slots[j] = k.slots[j]
  BY <1>0, <1>3
<1>5. PICK m \in Waiting(acc, ret) : SlotOf(m) = i
  BY DEF Ring
<1>6. /\ m \in 1 .. Len(acc) /\ m > ret /\ m \in ret + 1 .. Len(acc) + 1
      /\ m # Len(acc) + 1
  BY RingFacts DEF Waiting
<1>7. k.slots[i].buf = acc[m]
  BY <1>5 DEF Ring, InItsSlot
<1>8. ASSUME NEW n \in Waiting(acc, ret), n # m
      PROVE  SlotOf(n) \in Index \ {i}
  <2>1. n \in ret + 1 .. Len(acc) + 1 /\ n # Len(acc) + 1 /\ n \in Nat /\ m \in Nat
    BY RingFacts DEF Waiting
  <2>2. CASE n < m
    BY <1>5, <1>6, <2>2, SlotsApart, RingFacts
  <2>3. CASE m < n
    BY <1>5, <2>1, <2>3, SlotsApart, RingFacts
  <2> QED
    BY <1>8, <2>1, <2>2, <2>3
<1>9. \A n \in Waiting(acc, ret) : InItsSlot(p, acc, n)
  <2>1. InItsSlot(p, acc, m)
    BY <1>2, <1>4, <1>5 DEF InItsSlot, Ring
  <2>2. ASSUME NEW n \in Waiting(acc, ret), n # m
        PROVE  InItsSlot(p, acc, n)
    BY <1>4, <1>8, <2>2 DEF InItsSlot, Ring
  <2> QED
    BY <2>1, <2>2
<1>10. \A j \in InFlight(p) : \E n \in Waiting(acc, ret) : SlotOf(n) = j
  <2>1. \A j \in InFlight(p) : j \in InFlight(k)
    BY <1>0, <1>4 DEF InFlight
  <2> QED
    BY <2>1 DEF Ring
<1>11. Ring(p, acc, ret)
  <2>1. /\ acc \in Seq(Requests) /\ ret \in Nat /\ Len(acc) = ret + p.pendingCount
        /\ p.head = Len(acc) % Depth /\ p.tail = ret % Depth
    BY <1>3 DEF Ring
  <2> QED
    BY <1>3, <1>9, <1>10, <2>1 DEF Ring
<1>12. ~Landed(k, ret, m) /\ (Landed(p, ret, m) <=> result = "ok")
  <2>1. ~(m <= ret)
    BY <1>6, RingFacts
  <2> QED
    BY <1>0, <1>2, <1>4, <1>5, <2>1 DEF Landed
<1>13. ASSUME NEW n \in 1 .. Len(acc) \ {m}
       PROVE  Landed(p, ret, n) <=> Landed(k, ret, n)
  <2>1. CASE n <= ret
    BY <2>1 DEF Landed
  <2>2. CASE n > ret
    <3>1. n \in Waiting(acc, ret)
      BY <2>2, RingFacts DEF Waiting
    <3>2. p.slots[SlotOf(n)] = k.slots[SlotOf(n)]
      BY <1>4, <1>8, <3>1
    <3> QED
      BY <3>2 DEF Landed
  <2> QED
    BY <2>1, <2>2, RingFacts
<1> QED
  BY <1>5, <1>6, <1>7, <1>11, <1>12, <1>13

\* Copying data into a free slot whose write is then refused changes nothing
\* for the writes that wait. (push_back, WriteFile failing)
LEMMA RefusedRing ==
  ASSUME NEW k, NEW acc, NEW ret, Ring(k, acc, ret), ~IsFull(k), NEW w \in Requests,
         NEW p, p = [k EXCEPT !.slots[k.head].buf = w]
  PROVE  Ring(p, acc, ret)
<1>0. /\ k \in Queue(Requests, Requests)
      /\ k.head \in Index
      /\ k.slots \in [Index -> Slot(Requests, Requests)]
  BY DEF Ring, Queue
<1> DEFINE s == [k.slots[k.head] EXCEPT !.buf = w]
<1>1. p = [k EXCEPT !.slots = [k.slots EXCEPT ![k.head] = s]]
  BY <1>0 DEF Queue, Slot
<1>2. s \in Slot(Requests, Requests) /\ s.io = k.slots[k.head].io
  BY <1>0 DEF Slot
<1> HIDE DEF s
<1>3. /\ p \in Queue(Requests, Requests)
      /\ p.head = k.head /\ p.tail = k.tail /\ p.pendingCount = k.pendingCount
      /\ p.slots = [k.slots EXCEPT ![k.head] = s]
  BY <1>0, <1>1, <1>2 DEF Queue
<1>4. /\ p.slots[k.head] = s
      /\ \A j \in Index \ {k.head} : p.slots[j] = k.slots[j]
  BY <1>0, <1>3
<1>5. ASSUME NEW n \in Waiting(acc, ret)
      PROVE  InItsSlot(p, acc, n)
  <2>1. /\ n < Len(acc) + 1 /\ Len(acc) + 1 \in ret + 1 .. Len(acc) + 1
        /\ SlotOf(n) \in Index
    BY RingFacts DEF Waiting
  <2>2. SlotOf(n) # k.head
    BY <2>1, SlotsApart, RingFacts
  <2> QED
    BY <1>4, <2>1, <2>2 DEF InItsSlot, Ring
<1>6. \A j \in InFlight(p) : \E n \in Waiting(acc, ret) : SlotOf(n) = j
  <2>1. \A j \in InFlight(p) : j \in InFlight(k)
    BY <1>2, <1>4 DEF InFlight
  <2> QED
    BY <2>1 DEF Ring
<1>7. /\ acc \in Seq(Requests) /\ ret \in Nat /\ Len(acc) = ret + p.pendingCount
      /\ p.head = Len(acc) % Depth /\ p.tail = ret % Depth
  BY <1>3 DEF Ring
<1> QED
  BY <1>3, <1>5, <1>6, <1>7 DEF Ring

-----------------------------------------------------------------------------
(* The steps of the writer.                                                *)

\* The writes of r that landed are finitely many. (a file has an end)
LEMMA LandedFinite ==
  ASSUME NEW k, NEW acc, NEW ret, Ring(k, acc, ret), NEW r
  PROVE  /\ IsFiniteSet(LandedOf(k, acc, ret, r))
         /\ Cardinality(LandedOf(k, acc, ret, r)) \in Nat
<1>1. IsFiniteSet(1 .. Len(acc))
  BY FS_Interval, RingFacts
<1>2. LandedOf(k, acc, ret, r) \subseteq 1 .. Len(acc)
  BY DEF LandedOf
<1> QED
  BY <1>1, <1>2, FS_Subset, FS_CardinalityType

\* A writer that was just made has an empty ring and nothing on the medium.
LEMMA InitHolds == Init => IInv
<1> SUFFICES ASSUME Init PROVE IInv
  OBVIOUS
<1>1. 0 \in Index /\ 0 % Depth = 0
  BY DEF Index
<1>2. FreeSlot \in Slot(Requests, Requests)
  BY DEF FreeSlot, Slot, IoStates
<1>3. EmptyQueue \in Queue(Requests, Requests)
  BY <1>1, <1>2 DEF EmptyQueue, Queue
<1>4. Len(accepted) = 0 /\ accepted \in Seq(Requests) /\ retired = 0
  BY DEF Init
<1>5. Waiting(accepted, retired) = {}
  BY <1>4 DEF Waiting
<1>6. InFlight(q) = {}
  BY DEF Init, InFlight, EmptyQueue, FreeSlot
<1>7. q.pendingCount = 0 /\ q.head = 0 /\ q.tail = 0
  BY DEF Init, EmptyQueue
<1>8. Ring(q, accepted, retired)
  BY <1>1, <1>3, <1>4, <1>5, <1>6, <1>7 DEF Init, Ring
<1>9. \A r \in Requests : LandedOf(q, accepted, retired, r) = {} /\ medium[r] = 0
  BY <1>4 DEF LandedOf, Init
<1>10. MediumExact
  BY <1>9, FS_EmptySet DEF MediumExact
<1> QED
  BY <1>8, <1>10 DEF IInv, Init

\* A step that changes the ring but not what landed.
LEMMA QuietStep ==
  ASSUME IInv, Ring(q, accepted, retired)', phase' \in {"pushing", "flushing"},
         phase # "thrown", UNCHANGED medium,
         SameLanded(q', accepted', retired', q, accepted, retired)
  PROVE  IInv'
  BY DEF IInv, MediumExact, SameLanded

\* A step into the exception: only the ring is left to hold.
LEMMA ThrownStep ==
  ASSUME IInv, Ring(q, accepted, retired)', phase' = "thrown", UNCHANGED medium
  PROVE  IInv'
  BY DEF IInv, MediumExact

\* The completion of one write. (GetOverlappedResult)
LEMMA WriteDoneStep ==
  ASSUME IInv, NEW i \in Index, WriteDone(i)
  PROVE  IInv'
<1>0. Ring(q, accepted, retired) /\ i \in InFlight(q)
  BY DEF IInv, WriteDone
<1>1. PICK result \in Results :
        /\ q' = CompleteIo(q, i, result, q.slots[i].buf)
        /\ medium' = IF result = "ok"
                     THEN [medium EXCEPT ![q.slots[i].buf] = @ + 1]
                     ELSE medium
  BY DEF WriteDone
<1>2. UNCHANGED <<phase, accepted, retired>>
  BY DEF WriteDone
<1>3. Ring(q', accepted, retired)
  BY <1>0, <1>1, CompletionRing
<1>4. PICK m \in Waiting(accepted, retired) :
        /\ m \in 1 .. Len(accepted) /\ q.slots[i].buf = accepted[m]
        /\ ~Landed(q, retired, m)
        /\ Landed(q', retired, m) <=> result = "ok"
        /\ \A n \in 1 .. Len(accepted) \ {m} :
             Landed(q', retired, n) <=> Landed(q, retired, n)
  BY <1>0, <1>1, CompletionRing
<1>5. accepted[m] \in Requests
  BY <1>0, <1>4 DEF Ring
<1>6. medium' \in [Requests -> Nat]
  BY <1>1, <1>4, <1>5 DEF IInv
<1>7. phase = "done" => IsEmpty(q')
  <2>1. ~IsEmpty(q)
    BY <1>0, RingFacts DEF IsEmpty, Waiting
  <2> QED
    BY <2>1 DEF IInv
<1>8. ASSUME phase # "thrown", NEW r \in Requests
      PROVE  medium'[r] = Cardinality(LandedOf(q', accepted, retired, r))
  <2> DEFINE A == LandedOf(q, accepted, retired, r)
             B == LandedOf(q', accepted, retired, r)
  <2>1. medium[r] = Cardinality(A) /\ medium \in [Requests -> Nat]
    BY <1>8 DEF IInv, MediumExact
  <2>2. IsFiniteSet(A) /\ m \notin A
    <3>1. IsFiniteSet(A)
      BY <1>0, LandedFinite
    <3>2. m \notin A
      BY <1>4 DEF LandedOf
    <3> QED
      BY <3>1, <3>2
  <2>3. CASE result = "ok" /\ r = accepted[m]
    <3>1. B = A \cup {m}
      BY <1>4, <2>3 DEF LandedOf
    <3>2. Cardinality(B) = Cardinality(A) + 1
      <4> HIDE DEF A, B
      <4> QED
        BY <2>2, <3>1, FS_AddElement
    <3>3. medium'[r] = medium[r] + 1
      BY <1>1, <1>4, <2>1, <2>3
    <3> QED
      BY <2>1, <3>2, <3>3
  <2>4. CASE ~(result = "ok" /\ r = accepted[m])
    <3>1. B = A
      BY <1>4, <2>4 DEF LandedOf
    <3>2. medium'[r] = medium[r]
      BY <1>1, <1>4, <2>1, <2>4
    <3> QED
      BY <2>1, <3>1, <3>2
  <2> QED
    BY <2>3, <2>4
<1>9. MediumExact'
  BY <1>2, <1>8 DEF MediumExact
<1> QED
  BY <1>2, <1>3, <1>6, <1>7, <1>9 DEF IInv

\* Every call of the writer, and every completion, keeps the invariant.
LEMMA StepHolds == IInv /\ [Next]_vars => IInv'
<1> SUFFICES ASSUME IInv, [Next]_vars
             PROVE  IInv'
  OBVIOUS
<1>0. Ring(q, accepted, retired)
  BY DEF IInv
<1>1. CASE \E r \in Requests : PushFree(r)
  <2>1. PICK r \in Requests : PushFree(r)
    BY <1>1
  <2>2. /\ q' = PushBack(q, r, r) /\ accepted' = Append(accepted, r)
        /\ ~IsFull(q) /\ UNCHANGED <<phase, retired, medium>> /\ phase = "pushing"
    BY <2>1 DEF PushFree, CanPush
  <2>3. /\ Ring(q', accepted', retired)
        /\ SameLanded(q', accepted', retired, q, accepted, retired)
    BY <1>0, <2>2, PushRing
  <2> QED
    BY <2>2, <2>3, QuietStep
<1>2. CASE \E r \in Requests : PushFull(r)
  <2>1. PICK r \in Requests : PushFull(r)
    BY <1>2
  <2>2. PICK room : room = PopFront(q)
    OBVIOUS
  <2>3. /\ q' = PushBack(room, r, r) /\ accepted' = Append(accepted, r)
        /\ ~IsEmpty(q) /\ Front(q).io = "ok" /\ retired' = retired + 1
        /\ UNCHANGED <<phase, medium>> /\ phase = "pushing"
    BY <2>1, <2>2 DEF PushFull, CanPush, FrontIs
  <2>4. /\ Ring(room, accepted, retired + 1) /\ ~IsFull(room)
        /\ SameLanded(room, accepted, retired + 1, q, accepted, retired)
    BY <1>0, <2>2, <2>3, PopRing
  <2>5. /\ Ring(q', accepted', retired + 1)
        /\ SameLanded(q', accepted', retired + 1, room, accepted, retired + 1)
    BY <2>3, <2>4, PushRing
  <2>6. SameLanded(q', accepted', retired + 1, q, accepted, retired)
    BY <2>4, <2>5 DEF SameLanded
  <2> QED
    BY <2>3, <2>5, <2>6, QuietStep
<1>3. CASE \E r \in Requests : PushThrows(r)
  <2>1. PICK r \in Requests : PushThrows(r)
    BY <1>3
  <2>2. PICK room : room = IF IsFull(q) THEN PopFront(q) ELSE q
    OBVIOUS
  <2>3. /\ IsFull(q) => ~IsEmpty(q) /\ Front(q).io = "ok"
        /\ q' = [room EXCEPT !.slots[room.head].buf = r]
        /\ retired' = (IF IsFull(q) THEN retired + 1 ELSE retired)
        /\ phase' = "thrown" /\ UNCHANGED <<accepted, medium>>
    BY <2>1, <2>2 DEF PushThrows, FrontIs
  <2>4. Ring(room, accepted, retired') /\ ~IsFull(room)
    BY <1>0, <2>2, <2>3, PopRing
  <2>5. Ring(q', accepted, retired')
    BY <2>3, <2>4, RefusedRing
  <2> QED
    BY <2>3, <2>5, ThrownStep
<1>4. CASE StartFlush
  <2>1. SameLanded(q', accepted', retired', q, accepted, retired)
    BY <1>4 DEF StartFlush, SameLanded
  <2> QED
    BY <1>0, <1>4, <2>1, QuietStep DEF StartFlush
<1>5. CASE Flush
  <2>1. /\ q' = PopFront(q) /\ ~IsEmpty(q) /\ Front(q).io = "ok"
        /\ retired' = retired + 1
        /\ UNCHANGED <<phase, accepted, medium>> /\ phase = "flushing"
    BY <1>5 DEF Flush, FrontIs
  <2> QED
    BY <1>0, <2>1, PopRing, QuietStep
<1>6. CASE FlushEnd
  BY <1>6 DEF FlushEnd, IInv, MediumExact
<1>7. CASE PopThrows
  <2>1. CASE FrontIs(q, "failed") /\ UNCHANGED <<q, retired>>
    BY <1>0, <1>7, <2>1, ThrownStep DEF PopThrows
  <2>2. CASE FrontIs(q, "short") /\ q' = PopFront(q) /\ retired' = retired + 1
    <3>1. ~IsEmpty(q) /\ Front(q).io # "inflight"
      BY <2>2 DEF FrontIs
    <3>2. phase' = "thrown" /\ UNCHANGED <<accepted, medium>>
      BY <1>7 DEF PopThrows
    <3> QED
      BY <1>0, <2>2, <3>1, <3>2, PopRing, ThrownStep
  <2> QED
    BY <1>7, <2>1, <2>2 DEF PopThrows
<1>8. CASE \E i \in Index : WriteDone(i)
  BY <1>8, WriteDoneStep
<1>9. CASE UNCHANGED vars
  BY <1>9 DEF vars, IInv, MediumExact
<1> QED
  BY <1>1, <1>2, <1>3, <1>4, <1>5, <1>6, <1>7, <1>8, <1>9 DEF Next

\* What the writer promises follows from the inductive invariant.
LEMMA InvariantSuffices == IInv => WriterInv
<1> SUFFICES ASSUME IInv PROVE WriterInv
  OBVIOUS
<1>1. Ring(q, accepted, retired)
  BY DEF IInv
<1>2. TypeOK
  BY DEF IInv, TypeOK, Ring
<1>3. RingInv /\ NoOrphan
  BY <1>1 DEF RingInv, NoOrphan, Ring, Window, Waiting, InItsSlot
<1>4. FlushComplete
  <2> SUFFICES ASSUME phase = "done", NEW r \in Requests
               PROVE  medium[r] = CountOf(r)
    BY DEF FlushComplete
  <2>1. Len(accepted) = retired
    BY <1>1, RingFacts DEF IInv, IsEmpty
  <2>2. \A n \in 1 .. Len(accepted) : Landed(q, retired, n)
    BY <1>1, <2>1, RingFacts DEF Landed
  <2>3. LandedOf(q, accepted, retired, r)
          = {n \in 1 .. Len(accepted) : accepted[n] = r}
    BY <2>2 DEF LandedOf
  <2> QED
    BY <2>3 DEF IInv, MediumExact, CountOf
<1> QED
  BY <1>2, <1>3, <1>4 DEF WriterInv

\* The writer's queue keeps its counters, its slots and the history of calls
\* in step, and a client that pops until false has every write on the medium
\* exactly once, for every depth and any order of completions.
THEOREM WriterInvariant == Spec => []WriterInv
<1>1. Spec => []IInv
  BY InitHolds, StepHolds, PTL DEF Spec
<1> QED
  BY <1>1, InvariantSuffices, PTL
=============================================================================
