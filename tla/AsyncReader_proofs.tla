------------------------ MODULE AsyncReader_proofs ------------------------
(***************************************************************************)
(* Proofs about AsyncReader, for every depth, every set of requests and    *)
(* every number of them.                                                   *)
(*                                                                         *)
(* The argument: a request is known by its number n in the order of        *)
(* acceptance, and n waits in slot SlotOf(n). The numbers in the ring are  *)
(* the Window between what was delivered and what was accepted; it is      *)
(* never wider than Depth, so two of its numbers never share a slot        *)
(* (SlotsDistinct), and the slot at head is outside of it unless the ring  *)
(* is full (HeadIsFree).                                                   *)
(***************************************************************************)
EXTENDS AsyncReader, ModArith

USE DepthAssumption, NoneAssumption

\* Lengths, counters and the window. (pending_count, head, tail)
LEMMA WindowFacts ==
  ASSUME TypeOK, RingInv
  PROVE  /\ Len(accepted) \in Nat /\ Len(delivered) \in Nat
         /\ q.pendingCount \in 0 .. Depth
         /\ Len(accepted) - Len(delivered) = q.pendingCount
         /\ q.head \in Index /\ q.tail \in Index
         /\ q.head = SlotOf(Len(accepted) + 1)
         /\ q.tail = SlotOf(Len(delivered) + 1)
         /\ \A n \in Window : n \in Nat \ {0} /\ SlotOf(n) \in Index
         /\ q.slots \in [Index -> Slot(Requests, Requests)]
<1>1. /\ Len(accepted) \in Nat /\ Len(delivered) \in Nat
      /\ q.pendingCount \in 0 .. Depth
      /\ q.head \in Index /\ q.tail \in Index
      /\ q.slots \in [Index -> Slot(Requests, Requests)]
  BY DEF TypeOK, Queue
<1>2. Len(accepted) - Len(delivered) = q.pendingCount
  BY <1>1 DEF RingInv
<1>3. \A n \in Window : n \in Nat \ {0}
  BY <1>1 DEF Window
<1>4. \A n \in Window : SlotOf(n) \in Index
  BY <1>3, DivMod DEF SlotOf, Index
<1>5. /\ q.head = SlotOf(Len(accepted) + 1)
      /\ q.tail = SlotOf(Len(delivered) + 1)
  BY <1>1 DEF RingInv, SlotOf
<1> QED
  BY <1>1, <1>2, <1>3, <1>4, <1>5

\* Requests waiting in the ring at the same time wait in different slots.
\* (try_push_back accepts no more than slots.size() of them)
LEMMA SlotsDistinct ==
  ASSUME TypeOK, RingInv, NEW m \in Window, NEW n \in Window, m # n
  PROVE  SlotOf(m) # SlotOf(n)
<1>1. /\ m - 1 \in Nat /\ n - 1 \in Nat /\ m \in Nat /\ n \in Nat
      /\ (m - 1) - (n - 1) < Depth /\ (n - 1) - (m - 1) < Depth
  BY WindowFacts DEF Window
<1>2. CASE m < n
  <2>1. m - 1 < n - 1
    BY <1>1, <1>2
  <2> QED
    BY <1>1, <2>1, ModDistinct DEF SlotOf
<1>3. CASE n < m
  <2>1. n - 1 < m - 1
    BY <1>1, <1>3
  <2> QED
    BY <1>1, <2>1, ModDistinct DEF SlotOf
<1> QED
  BY <1>1, <1>2, <1>3

\* The slot try_push_back takes is none of those in use.
LEMMA HeadIsFree ==
  ASSUME TypeOK, RingInv, ~IsFull(q), NEW n \in Window
  PROVE  SlotOf(n) # q.head
<1>1. /\ n - 1 \in Nat /\ Len(accepted) \in Nat
      /\ n - 1 < Len(accepted)
      /\ Len(accepted) - (n - 1) < Depth
  BY WindowFacts DEF Window, IsFull
<1>2. (n - 1) % Depth # Len(accepted) % Depth
  BY <1>1, ModDistinct
<1> QED
  BY <1>2 DEF SlotOf, RingInv
-----------------------------------------------------------------------------
(* What the two ring operations do to the slots, the counters and the      *)
(* window.                                                                 *)

\* Accepting one more request keeps the ring sound. (try_push_back)
LEMMA PushStep ==
  ASSUME TypeOK, RingInv, NEW r \in Requests, TryPushBack(r)
  PROVE  TypeOK' /\ RingInv'
<1> DEFINE s == [req |-> r, buf |-> None, io |-> "inflight", isPending |-> TRUE]
<1>1. /\ q' = [slots |-> [q.slots EXCEPT ![q.head] = s],
               head |-> Advance(q.head), tail |-> q.tail,
               pendingCount |-> q.pendingCount + 1]
      /\ accepted' = Append(accepted, r)
      /\ UNCHANGED <<lent, alive, delivered>>
  BY DEF TryPushBack, PushBack, TypeOK, Queue
<1>2. /\ Len(accepted') = Len(accepted) + 1
      /\ accepted' \in Seq(Requests)
      /\ accepted'[Len(accepted) + 1] = r
      /\ \A n \in 1 .. Len(accepted) : accepted'[n] = accepted[n]
  BY <1>1 DEF TypeOK
<1>3. q.pendingCount + 1 \in 0 .. Depth
  BY WindowFacts DEF TryPushBack, IsFull
<1>4. Advance(q.head) \in Index /\ Advance(q.head) = Len(accepted') % Depth
  <2>1. q.head \in Nat /\ q.head + 1 \in Nat
    BY WindowFacts DEF Index
  <2> QED
    BY <1>2, <2>1, DivMod, ModStep, WindowFacts DEF Advance, Index, RingInv
<1>5. TypeOK'
  <2>1. s \in Slot(Requests, Requests)
    BY DEF Slot, IoStates
  <2>2. [q.slots EXCEPT ![q.head] = s] \in [Index -> Slot(Requests, Requests)]
    BY <2>1, WindowFacts
  <2>3. q' \in Queue(Requests, Requests)
    BY <1>1, <1>3, <1>4, <2>2, WindowFacts DEF Queue
  <2> QED
    BY <1>1, <1>2, <2>3 DEF TypeOK
<1>6. ASSUME NEW n \in Window'
      PROVE  /\ q'.slots[SlotOf(n)].req = accepted'[n]
             /\ q'.slots[SlotOf(n)].io = "ok"
                  => q'.slots[SlotOf(n)].buf = q'.slots[SlotOf(n)].req
  <2>1. CASE n = Len(accepted) + 1
    <3>1. SlotOf(n) = q.head /\ q.head \in Index
      BY <2>1, WindowFacts
    <3>2. q'.slots[SlotOf(n)] = s
      BY <1>1, <3>1, WindowFacts
    <3> QED
      BY <1>2, <2>1, <3>2
  <2>2. CASE n # Len(accepted) + 1
    <3>1. n \in Window /\ n \in 1 .. Len(accepted)
      BY <1>1, <1>2, <2>2, WindowFacts DEF Window
    <3>2. SlotOf(n) # q.head
      BY <3>1, HeadIsFree DEF TryPushBack
    <3>3. q'.slots[SlotOf(n)] = q.slots[SlotOf(n)]
      BY <1>1, <3>1, <3>2, WindowFacts
    <3> QED
      BY <1>2, <3>1, <3>3 DEF RingInv
  <2> QED
    BY <2>1, <2>2
<1>7. lent' => FrontIs(q, "ok")'
  <2>1. SUFFICES ASSUME lent
                 PROVE  q'.pendingCount # 0 /\ q'.slots[q'.tail].io = "ok"
    BY <1>1 DEF FrontIs, IsEmpty, Front
  <2>2. q.pendingCount # 0 /\ q.slots[q.tail].io = "ok"
    BY <2>1 DEF RingInv, FrontIs, IsEmpty, Front
  <2>3. Len(delivered) + 1 \in Window
    BY <2>2, WindowFacts DEF Window
  <2>4. q.tail # q.head
    BY <2>3, HeadIsFree, WindowFacts DEF TryPushBack
  <2> QED
    BY <1>1, <2>2, <2>4, WindowFacts
<1>8. Len(accepted') = Len(delivered') + q'.pendingCount
  BY <1>1, <1>2, WindowFacts
<1> QED
  BY <1>1, <1>4, <1>5, <1>6, <1>7, <1>8 DEF RingInv

\* Releasing the slot of a lent buffer keeps the ring sound, and what the
\* client took away is the oldest request with its own data. (pop_front)
LEMMA PopStep ==
  ASSUME TypeOK, RingInv, PopLent
  PROVE  /\ TypeOK' /\ RingInv'
         /\ Len(delivered) + 1 \in Window
         /\ LET r == accepted[Len(delivered) + 1]
            IN delivered' = Append(delivered, [req |-> r, buf |-> r])
<1> DEFINE f == Len(delivered) + 1
<1>1. /\ q.pendingCount # 0 /\ q.slots[q.tail].io = "ok"
      /\ UNCHANGED <<alive, accepted>> /\ lent' = FALSE
  BY DEF PopLent, RingInv, FrontIs, IsEmpty, Front
<1>2. f \in Window /\ q.tail = SlotOf(f)
  BY <1>1, WindowFacts DEF Window
<1>3. Front(q).req = accepted[f] /\ Front(q).buf = accepted[f]
  BY <1>1, <1>2 DEF RingInv, Front
<1>4. accepted[f] \in Requests
  BY <1>2, WindowFacts DEF TypeOK, Window
<1>5. /\ delivered' = Append(delivered, [req |-> accepted[f], buf |-> accepted[f]])
      /\ Len(delivered') = Len(delivered) + 1
  BY <1>3 DEF PopLent, TypeOK
<1>6. q' = [slots |-> [q.slots EXCEPT ![q.tail].isPending = FALSE],
            head |-> q.head, tail |-> Advance(q.tail),
            pendingCount |-> q.pendingCount - 1]
  BY DEF PopLent, PopFront, TypeOK, Queue
<1>7. q.pendingCount - 1 \in 0 .. Depth
  BY <1>1, WindowFacts
<1>8. Advance(q.tail) \in Index /\ Advance(q.tail) = Len(delivered') % Depth
  <2>1. q.tail \in Nat /\ q.tail + 1 \in Nat
    BY WindowFacts DEF Index
  <2> QED
    BY <1>5, <2>1, DivMod, ModStep, WindowFacts DEF Advance, Index, RingInv
<1>9. \A i \in Index : /\ q'.slots[i].req = q.slots[i].req
                       /\ q'.slots[i].buf = q.slots[i].buf
                       /\ q'.slots[i].io = q.slots[i].io
  BY <1>6, WindowFacts DEF Slot
<1>10. TypeOK'
  <2>1. [q.slots EXCEPT ![q.tail].isPending = FALSE]
          \in [Index -> Slot(Requests, Requests)]
    BY WindowFacts DEF Slot
  <2>2. q' \in Queue(Requests, Requests)
    BY <1>6, <1>7, <1>8, <2>1, WindowFacts DEF Queue
  <2>3. [req |-> accepted[f], buf |-> accepted[f]]
          \in [req : Requests \cup {None}, buf : Requests \cup {None}]
    BY <1>4
  <2>4. delivered' \in Seq([req : Requests \cup {None}, buf : Requests \cup {None}])
    BY <1>5, <2>3 DEF TypeOK
  <2> QED
    BY <1>1, <2>2, <2>4 DEF TypeOK
<1>11. RingInv'
  <2>1. ASSUME NEW n \in Window'
        PROVE  n \in Window /\ SlotOf(n) \in Index
    BY <1>1, <1>5, WindowFacts DEF Window
  <2>2. Len(accepted') = Len(delivered') + q'.pendingCount
    BY <1>1, <1>5, <1>6, WindowFacts
  <2> QED
    BY <1>1, <1>6, <1>8, <1>9, <2>1, <2>2 DEF RingInv
<1> QED
  BY <1>2, <1>5, <1>10, <1>11

\* What a completion changes: the one slot's result, and its buffer.
\* (GetOverlappedResult)
LEMMA ReadDoneEffect ==
  ASSUME TypeOK, RingInv, NEW i \in Index, ReadDone(i)
  PROVE  /\ q.slots[i].io = "inflight"
         /\ \A j \in Index \ {i} : q'.slots[j] = q.slots[j]
         /\ q'.slots[i] \in Slot(Requests, Requests)
         /\ q'.slots[i].io \in Results
         /\ q'.slots[i].isPending = q.slots[i].isPending
         /\ q'.slots[i].req = q.slots[i].req
         /\ q'.slots[i].io = "ok" => q'.slots[i].buf = q.slots[i].req
         /\ q' = [q EXCEPT !.slots = q'.slots]
         /\ q'.slots \in [Index -> Slot(Requests, Requests)]
         /\ UNCHANGED <<lent, alive, accepted, delivered>>
<1>1. PICK result \in Results, b \in {q.slots[i].req, None} :
        /\ q' = CompleteIo(q, i, result, b)
        /\ result = "ok" => b = q.slots[i].req
  BY DEF ReadDone, Results
<1> DEFINE s == [q.slots[i] EXCEPT !.io = result, !.buf = b]
<1>2. s \in Slot(Requests, Requests)
  BY WindowFacts DEF Slot, IoStates
<1>3. q' = [q EXCEPT !.slots = [q.slots EXCEPT ![i] = s]]
  BY <1>1, WindowFacts DEF CompleteIo, TypeOK, Queue, Slot
<1>4. q'.slots = [q.slots EXCEPT ![i] = s]
  BY <1>3 DEF TypeOK, Queue
<1>5. /\ s.io = result /\ s.buf = b /\ s.req = q.slots[i].req
      /\ s.isPending = q.slots[i].isPending
  BY WindowFacts DEF Slot
<1> HIDE DEF s
<1>6. q'.slots[i] = s
  BY <1>4, WindowFacts
<1>7. q'.slots \in [Index -> Slot(Requests, Requests)]
  BY <1>2, <1>4, WindowFacts
<1>8. \A j \in Index \ {i} : q'.slots[j] = q.slots[j]
  BY <1>4, WindowFacts
<1>9. q' = [q EXCEPT !.slots = q'.slots]
  BY <1>3, <1>4
<1>10. q.slots[i].io = "inflight" /\ UNCHANGED <<lent, alive, accepted, delivered>>
  BY DEF ReadDone, InFlight
<1> QED
  BY <1>1, <1>2, <1>5, <1>6, <1>7, <1>8, <1>9, <1>10

\* The operating system's side of the ring. (GetOverlappedResult)
LEMMA ReadDoneStep ==
  ASSUME TypeOK, RingInv, NEW i \in Index, ReadDone(i)
  PROVE  TypeOK' /\ RingInv'
<1>1. /\ q'.head = q.head /\ q'.tail = q.tail /\ q'.pendingCount = q.pendingCount
      /\ q' \in Queue(Requests, Requests)
  BY ReadDoneEffect DEF TypeOK, Queue
<1>2. TypeOK'
  BY <1>1, ReadDoneEffect DEF TypeOK
<1>3. \A j \in Index : /\ q'.slots[j].req = q.slots[j].req
                       /\ q'.slots[j].io = "ok" =>
                            \/ q'.slots[j].buf = q'.slots[j].req
                            \/ q'.slots[j] = q.slots[j]
  BY ReadDoneEffect
<1>4. lent => q.tail # i
  BY ReadDoneEffect DEF RingInv, FrontIs, Front
<1>5. lent' => FrontIs(q, "ok")'
  <2>1. lent => q'.slots[q.tail] = q.slots[q.tail]
    BY <1>4, ReadDoneEffect, WindowFacts
  <2>2. lent' = lent
    BY ReadDoneEffect
  <2> QED
    BY <1>1, <2>1, <2>2 DEF RingInv, FrontIs, Front, IsEmpty
<1> QED
  BY <1>1, <1>2, <1>3, <1>5, ReadDoneEffect, WindowFacts DEF RingInv, Window

\* A read that cannot be issued leaves the ring as it was, but for the buffer
\* that was zeroed for it. (try_push_back, ReadFile failing)
LEMMA ThrowStep ==
  ASSUME TypeOK, RingInv, PushThrows
  PROVE  TypeOK' /\ RingInv'
<1>1. /\ q' = [q EXCEPT !.slots = [q.slots EXCEPT ![q.head] =
                [q.slots[q.head] EXCEPT !.buf = None]]]
      /\ alive' = FALSE /\ UNCHANGED <<lent, accepted, delivered>>
      /\ ~IsFull(q)
  BY WindowFacts DEF PushThrows, TypeOK, Queue, Slot
<1>2. /\ \A j \in Index \ {q.head} : q'.slots[j] = q.slots[j]
      /\ q'.head = q.head /\ q'.tail = q.tail /\ q'.pendingCount = q.pendingCount
  BY <1>1, WindowFacts DEF TypeOK, Queue
<1>3. TypeOK'
  <2>1. [q.slots[q.head] EXCEPT !.buf = None] \in Slot(Requests, Requests)
    BY WindowFacts DEF Slot
  <2>2. q' \in Queue(Requests, Requests)
    BY <1>1, <2>1, WindowFacts DEF TypeOK, Queue
  <2> QED
    BY <1>1, <2>2 DEF TypeOK
<1>4. \A n \in Window : q'.slots[SlotOf(n)] = q.slots[SlotOf(n)]
  BY <1>1, <1>2, HeadIsFree, WindowFacts
<1>5. lent => q'.slots[q.tail] = q.slots[q.tail]
  <2>1. SUFFICES ASSUME lent
                 PROVE  q.tail # q.head
    BY <1>2, WindowFacts
  <2>2. Len(delivered) + 1 \in Window
    BY <2>1, WindowFacts DEF RingInv, FrontIs, IsEmpty, Window
  <2> QED
    BY <1>1, <2>2, HeadIsFree, WindowFacts
<1>6. lent' => FrontIs(q, "ok")'
  BY <1>1, <1>2, <1>5 DEF RingInv, FrontIs, IsEmpty, Front
<1> QED
  BY <1>1, <1>2, <1>3, <1>4, <1>6 DEF RingInv, Window

-----------------------------------------------------------------------------
(* The invariants.                                                         *)

\* The ring is sound to begin with. (AsyncSlotProcessor's members)
LEMMA InitHolds == Init => TypeOK /\ RingInv
<1> SUFFICES ASSUME Init
             PROVE  TypeOK /\ RingInv
  OBVIOUS
<1>1. 0 \in Index /\ 0 \in 0 .. Depth /\ 0 % Depth = 0
  <2>1. 0 = (0 * Depth) + 0
    OBVIOUS
  <2> QED
    BY <2>1, ModUnique DEF Index
<1>2. FreeSlot \in Slot(Requests, Requests)
  BY DEF FreeSlot, Slot, IoStates
<1>3. EmptyQueue \in Queue(Requests, Requests)
  BY <1>1, <1>2 DEF EmptyQueue, Queue
<1> QED
  BY <1>1, <1>3 DEF Init, TypeOK, RingInv, Window, EmptyQueue

\* Every call of the reader, and every completion, keeps the ring sound.
LEMMA StepHolds == TypeOK /\ RingInv /\ [Next]_vars => TypeOK' /\ RingInv'
<1> SUFFICES ASSUME TypeOK, RingInv, [Next]_vars
             PROVE  TypeOK' /\ RingInv'
  OBVIOUS
<1>1. CASE \E r \in Requests : TryPushBack(r)
  BY <1>1, PushStep
<1>2. CASE PushThrows
  BY <1>2, ThrowStep
<1>3. CASE FinalizeFront
  BY <1>3 DEF FinalizeFront, TypeOK, RingInv, Window
<1>4. CASE FinalizeThrows
  BY <1>4 DEF FinalizeThrows, TypeOK, RingInv, Window
<1>5. CASE PopLent
  BY <1>5, PopStep
<1>6. CASE \E i \in Index : ReadDone(i)
  BY <1>6, ReadDoneStep
<1>7. CASE UNCHANGED vars
  BY <1>7 DEF vars, TypeOK, RingInv, Window
<1> QED
  BY <1>1, <1>2, <1>3, <1>4, <1>5, <1>6, <1>7 DEF Next

\* TypeOK and RingInv are inductive together.
LEMMA RingHolds == Spec => [](TypeOK /\ RingInv)
  BY InitHolds, StepHolds, PTL DEF Spec

\* The reader's queue keeps its counters, its slots and the history of calls
\* in step for every depth and any order of completions.
THEOREM RingInvariant == Spec => []ReaderInv
  BY RingHolds, PTL DEF ReaderInv

\* Requests are delivered in the order of their acceptance, each with the data
\* read for it, whatever the depth and the order of completions.
THEOREM FifoOrder == Spec => []Fifo
<1>1. Init => Fifo
  BY DEF Init, Fifo
<1>2. TypeOK /\ RingInv /\ Fifo /\ [Next]_vars => Fifo'
  <2> SUFFICES ASSUME TypeOK, RingInv, Fifo, [Next]_vars
               PROVE  Fifo'
    OBVIOUS
  <2>1. CASE \E r \in Requests : TryPushBack(r)
    <3>1. PICK r \in Requests : TryPushBack(r)
      BY <2>1
    <3>2. /\ delivered' = delivered
          /\ Len(accepted') = Len(accepted) + 1
          /\ \A n \in 1 .. Len(accepted) : accepted'[n] = accepted[n]
      BY <3>1 DEF TryPushBack, TypeOK
    <3> QED
      BY <3>2, WindowFacts DEF Fifo
  <2>2. CASE PopLent
    <3> DEFINE f == Len(delivered) + 1
    <3>1. /\ accepted' = accepted
          /\ f \in Window
          /\ delivered' = Append(delivered, [req |-> accepted[f], buf |-> accepted[f]])
      BY <2>2, PopStep DEF PopLent
    <3>2. /\ Len(delivered') = f
          /\ delivered'[f] = [req |-> accepted[f], buf |-> accepted[f]]
          /\ \A n \in 1 .. Len(delivered) : delivered'[n] = delivered[n]
      BY <3>1 DEF TypeOK
    <3> QED
      BY <3>1, <3>2, WindowFacts DEF Fifo, Window
  <2>3. CASE UNCHANGED <<accepted, delivered>>
    BY <2>3 DEF Fifo
  <2> QED
    BY <2>1, <2>2, <2>3 DEF Next, vars, PushThrows, FinalizeFront,
       FinalizeThrows, ReadDone
<1> QED
  BY <1>1, <1>2, RingHolds, PTL DEF Spec

-----------------------------------------------------------------------------
(* The slots that are in use, and those that are not.                      *)

\* is_pending marks exactly the slots in use, and the operating system works
\* on no other slot, for every depth and any order of completions.
THEOREM PendingSlots == Spec => []PendingExact
<1>1. Init => PendingExact
  BY DEF Init, PendingExact, EmptyQueue, FreeSlot, Window, Index
<1>2. TypeOK /\ RingInv /\ PendingExact /\ [Next]_vars => PendingExact'
  <2> SUFFICES ASSUME TypeOK, RingInv, PendingExact, [Next]_vars
               PROVE  PendingExact'
    OBVIOUS
  <2> USE DEF PendingExact
  <2>1. CASE \E r \in Requests : TryPushBack(r)
    <3>1. PICK r \in Requests : TryPushBack(r)
      BY <2>1
    <3> DEFINE s == [req |-> r, buf |-> None, io |-> "inflight", isPending |-> TRUE]
               a == Len(accepted) + 1
    <3>2. /\ q'.slots = [q.slots EXCEPT ![q.head] = s]
          /\ Len(accepted') = a /\ delivered' = delivered
      BY <3>1, WindowFacts DEF TryPushBack, PushBack, TypeOK, Queue
    <3>3. /\ SlotOf(a) = q.head /\ a \in Window'
          /\ \A n : n \in Window' <=> n \in Window \/ n = a
      BY <3>2, WindowFacts DEF Window
    <3>4. ASSUME NEW i \in Index, i # q.head
          PROVE  /\ q'.slots[i] = q.slots[i]
                 /\ (\E n \in Window' : SlotOf(n) = i) <=> \E n \in Window : SlotOf(n) = i
      BY <3>2, <3>3, <3>4, WindowFacts
    <3>5. q'.slots[q.head] = s /\ \E n \in Window' : SlotOf(n) = q.head
      BY <3>2, <3>3, WindowFacts
    <3> QED
      BY <3>4, <3>5
  <2>2. CASE PushThrows
    <3>1. /\ \A i \in Index : /\ q'.slots[i].isPending = q.slots[i].isPending
                             /\ q'.slots[i].io = q.slots[i].io
          /\ UNCHANGED <<accepted, delivered>>
      BY <2>2, WindowFacts DEF PushThrows, TypeOK, Queue, Slot
    <3> QED
      BY <3>1 DEF Window
  <2>3. CASE PopLent
    <3> DEFINE f == Len(delivered) + 1
    <3>1. /\ f \in Window /\ Len(delivered') = f /\ accepted' = accepted
          /\ SlotOf(f) = q.tail /\ q.slots[q.tail].io = "ok"
      <4>1. f \in Window /\ accepted' = accepted /\ SlotOf(f) = q.tail
        BY <2>3, PopStep, WindowFacts DEF PopLent
      <4>2. Len(delivered') = f
        BY <2>3, PopStep DEF TypeOK
      <4>3. q.slots[q.tail].io = "ok"
        BY <2>3 DEF PopLent, RingInv, FrontIs, Front
      <4> QED
        BY <4>1, <4>2, <4>3
    <3>2. \A n : n \in Window' <=> n \in Window /\ n # f
      BY <3>1, WindowFacts DEF Window
    <3>3. q'.slots = [q.slots EXCEPT ![q.tail].isPending = FALSE]
      BY <2>3 DEF PopLent, PopFront, TypeOK, Queue
    <3>4. ASSUME NEW i \in Index, i # q.tail
          PROVE  /\ q'.slots[i] = q.slots[i]
                 /\ (\E n \in Window' : SlotOf(n) = i) <=> \E n \in Window : SlotOf(n) = i
      BY <3>1, <3>2, <3>3, <3>4, WindowFacts
    <3>5. /\ q'.slots[q.tail].isPending = FALSE /\ q'.slots[q.tail].io = "ok"
          /\ \A n \in Window' : SlotOf(n) # q.tail
      BY <3>1, <3>2, <3>3, WindowFacts, SlotsDistinct DEF Slot
    <3> QED
      BY <3>4, <3>5
  <2>4. CASE \E i \in Index : ReadDone(i)
    <3>1. \A i \in Index : /\ q'.slots[i].isPending = q.slots[i].isPending
                           /\ q'.slots[i].io = "inflight" => q.slots[i].io = "inflight"
      BY <2>4, ReadDoneEffect DEF Results
    <3>2. UNCHANGED <<accepted, delivered>>
      BY <2>4 DEF ReadDone
    <3> QED
      BY <3>1, <3>2 DEF Window
  <2>5. CASE UNCHANGED <<q, accepted, delivered>>
    BY <2>5 DEF Window
  <2> QED
    BY <2>1, <2>2, <2>3, <2>4, <2>5 DEF Next, vars, FinalizeFront, FinalizeThrows
<1> QED
  BY <1>1, <1>2, RingHolds, PTL DEF Spec

\* A read in flight keeps its slot, its OVERLAPPED and its buffer to itself
\* until the operating system is done with it. (try_push_back, pop_front)
THEOREM SlotsNotReissued == Spec => [][InFlightStays]_vars
<1>1. TypeOK /\ RingInv /\ PendingExact /\ [Next]_vars => [InFlightStays]_vars
  <2> SUFFICES ASSUME TypeOK, RingInv, PendingExact, [Next]_vars,
                      NEW i \in InFlight(q), q'.slots[i] # q.slots[i]
               PROVE  q'.slots[i].io \in Results /\ q'.slots[i].isPending
    BY DEF InFlightStays
  <2>1. /\ i \in Index /\ q.slots[i].io = "inflight"
        /\ \E n \in Window : SlotOf(n) = i /\ q.slots[i].isPending
    BY DEF InFlight, PendingExact
  <2>2. CASE (\E r \in Requests : TryPushBack(r)) \/ PushThrows
    <3>1. i # q.head
      BY <2>1, <2>2, HeadIsFree DEF TryPushBack, PushThrows
    <3>2. q'.slots[i] = q.slots[i]
      BY <2>1, <2>2, <3>1, WindowFacts
         DEF TryPushBack, PushThrows, PushBack, TypeOK, Queue, Slot
    <3> QED
      BY <3>2
  <2>3. CASE PopLent
    <3>1. i # q.tail
      BY <2>1, <2>3 DEF PopLent, RingInv, FrontIs, Front
    <3>2. q'.slots[i] = q.slots[i]
      BY <2>1, <2>3, <3>1, WindowFacts DEF PopLent, PopFront, TypeOK, Queue
    <3> QED
      BY <3>2
  <2>4. CASE \E j \in Index : ReadDone(j)
    <3> QED
      BY <2>1, <2>4, ReadDoneEffect
  <2> QED
    BY <2>2, <2>3, <2>4 DEF Next, vars, FinalizeFront, FinalizeThrows
<1> QED
  BY <1>1, RingHolds, PendingSlots, PTL DEF Spec

\* A buffer handed out by finalize_front stays as it is until pop_front,
\* whatever is pushed or completed meanwhile.
THEOREM LentBufferStable == Spec => [][BorrowedStays]_vars
<1>1. TypeOK /\ RingInv /\ [Next]_vars => [BorrowedStays]_vars
  <2> SUFFICES ASSUME TypeOK, RingInv, [Next]_vars, lent, lent'
               PROVE  q'.tail = q.tail /\ q'.slots[q.tail] = q.slots[q.tail]
    BY DEF BorrowedStays, Front
  <2>1. /\ q.slots[q.tail].io = "ok" /\ q.tail \in Index
        /\ Len(delivered) + 1 \in Window /\ q.tail = SlotOf(Len(delivered) + 1)
    BY WindowFacts DEF RingInv, FrontIs, Front, IsEmpty, Window
  <2>2. CASE (\E r \in Requests : TryPushBack(r)) \/ PushThrows
    <3>1. q.tail # q.head
      BY <2>1, <2>2, HeadIsFree DEF TryPushBack, PushThrows
    <3> QED
      BY <2>1, <2>2, <3>1, WindowFacts
         DEF TryPushBack, PushThrows, PushBack, TypeOK, Queue, Slot
  <2>3. CASE \E i \in Index : ReadDone(i)
    <3>1. PICK i \in Index : ReadDone(i)
      BY <2>3
    <3>2. q.tail # i /\ q'.tail = q.tail
      BY <2>1, <3>1, ReadDoneEffect DEF TypeOK, Queue
    <3> QED
      BY <2>1, <3>1, <3>2, ReadDoneEffect
  <2>4. CASE UNCHANGED q \/ PopLent
    BY <2>4 DEF PopLent
  <2> QED
    BY <2>2, <2>3, <2>4 DEF Next, vars, FinalizeFront, FinalizeThrows
<1> QED
  BY <1>1, RingHolds, PTL DEF Spec

\* No memory of a slot is changed under the client that borrowed it or under a
\* read in flight, for every depth.
THEOREM SlotsStayKept == Spec => SlotsKept
  BY SlotsNotReissued, LentBufferStable, PTL DEF SlotsKept

-----------------------------------------------------------------------------
(* The ring implements the bounded line of requests.                       *)

\* The line read off the ring is the part of the history still to be served.
LineInv ==
  /\ Line = [k \in 1 .. q.pendingCount |-> accepted[Len(delivered) + k]]
  /\ Line \in Seq(Requests)
  /\ Len(Line) = q.pendingCount

\* From tail on, the ring holds the requests in the order of their acceptance.
\* (slots[tail], slots[tail + 1], ... while pending_count lasts)
LEMMA LineIsHistory == TypeOK /\ RingInv => LineInv
<1> SUFFICES ASSUME TypeOK, RingInv
             PROVE  LineInv
  OBVIOUS
<1> DEFINE d == Len(delivered)
<1>1. ASSUME NEW k \in 1 .. q.pendingCount
      PROVE  q.slots[(q.tail + k - 1) % Depth].req = accepted[d + k]
  <2>1. d + k \in Window /\ d \in Nat /\ k - 1 \in Nat
    BY WindowFacts DEF Window
  <2>2. (d + (k - 1)) % Depth = ((d % Depth) + (k - 1)) % Depth
    BY <2>1, ModShift
  <2>3. /\ d + (k - 1) = (d + k) - 1
        /\ (d % Depth) + (k - 1) = q.tail + k - 1
    BY <2>1, WindowFacts DEF RingInv, Index
  <2>4. SlotOf(d + k) = (q.tail + k - 1) % Depth
    BY <2>2, <2>3 DEF SlotOf
  <2> QED
    BY <2>1, <2>4 DEF RingInv
<1>2. \A k \in 1 .. q.pendingCount : accepted[d + k] \in Requests
  BY WindowFacts DEF TypeOK
<1>3. Line = [k \in 1 .. q.pendingCount |-> accepted[d + k]]
  BY <1>1 DEF Line
<1> QED
  BY <1>2, <1>3, WindowFacts DEF LineInv

\* The ring of slots is a bounded first-in first-out line, for every depth.
THEOREM ReaderImplementsFifo == Spec => ImplementsFifo
<1> USE DEF Service!FifoInit, Service!fvars
<1>1. Init => Service!FifoInit
  <2> SUFFICES ASSUME Init PROVE Service!FifoInit
    OBVIOUS
  <2>1. TypeOK /\ RingInv
    BY InitHolds
  <2>2. Len(Line) = 0 /\ Line \in Seq(Requests)
    BY <2>1, LineIsHistory DEF LineInv, Init, EmptyQueue
  <2> QED
    BY <2>2 DEF Init
<1>2. TypeOK /\ RingInv /\ LineInv /\ LineInv' /\ [Next]_vars
        => [Service!FifoNext]_(Service!fvars)
  <2> SUFFICES ASSUME TypeOK, RingInv, LineInv, LineInv', [Next]_vars
               PROVE  [Service!FifoNext]_(Service!fvars)
    OBVIOUS
  <2> DEFINE d == Len(delivered)
             c == q.pendingCount
  <2>1. /\ Line = [k \in 1 .. c |-> accepted[d + k]]
        /\ Line \in Seq(Requests) /\ Len(Line) = c
    BY DEF LineInv
  <2>2. /\ Line' = [k \in 1 .. q'.pendingCount |-> accepted'[Len(delivered') + k]]
        /\ Line' \in Seq(Requests) /\ Len(Line') = q'.pendingCount
    BY DEF LineInv
  <2>3. c \in 0 .. Depth /\ d \in Nat /\ Len(accepted) \in Nat
    BY WindowFacts
  <2>4. UNCHANGED <<accepted, delivered>> /\ q'.pendingCount = c => Line' = Line
    BY <2>1, <2>2
  <2>5. CASE \E r \in Requests : TryPushBack(r)
    <3>1. PICK r \in Requests : TryPushBack(r)
      BY <2>5
    <3>2. /\ q'.pendingCount = c + 1 /\ delivered' = delivered
          /\ Len(accepted) = d + c
          /\ accepted' = Append(accepted, r)
      BY <3>1 DEF TryPushBack, PushBack, TypeOK, Queue, RingInv
    <3>3. \A k \in 1 .. c + 1 : accepted'[d + k]
                               = IF k = c + 1 THEN r ELSE accepted[d + k]
      BY <2>3, <3>2 DEF TypeOK
    <3>4. Line' = Append(Line, r)
      <4> DEFINE g == [k \in 1 .. c + 1 |-> IF k = c + 1 THEN r ELSE accepted[d + k]]
      <4>1. Line' = g
        BY <2>2, <3>2, <3>3
      <4>2. Append(Line, r) = g
        <5> HIDE DEF c, d
        <5> QED
          BY <2>1, <2>3
      <4> QED
        BY <4>1, <4>2
    <3>5. Len(Line) < Depth
      BY <2>1, <2>3, <3>1 DEF TryPushBack, IsFull
    <3>6. alive /\ UNCHANGED <<lent, alive, delivered>>
      BY <3>1 DEF TryPushBack
    <3>7. Service!Enter(r)
      BY <3>4, <3>5, <3>6 DEF Service!Enter
    <3> QED
      BY <3>7 DEF Service!FifoNext
  <2>6. CASE PushThrows
    <3>1. q'.pendingCount = c /\ UNCHANGED <<accepted, delivered>>
      BY <2>6 DEF PushThrows, TypeOK, Queue
    <3> QED
      BY <2>4, <2>6, <3>1 DEF PushThrows, Service!FifoNext, Service!BreakDown
  <2>7. CASE FinalizeFront
    <3>1. c # 0 /\ UNCHANGED <<q, accepted, delivered>>
      BY <2>7 DEF FinalizeFront, FrontIs, IsEmpty
    <3>2. Line # <<>>
      BY <2>1, <3>1
    <3> QED
      BY <2>4, <2>7, <3>1, <3>2 DEF FinalizeFront, Service!FifoNext, Service!Hold
  <2>8. CASE FinalizeThrows
    BY <2>4, <2>8 DEF FinalizeThrows, Service!FifoNext, Service!BreakDown
  <2>9. CASE PopLent
    <3>1. /\ q'.pendingCount = c - 1 /\ accepted' = accepted
          /\ d + 1 \in Window
          /\ delivered' = Append(delivered, [req |-> accepted[d + 1], buf |-> accepted[d + 1]])
      BY <2>9, PopStep DEF PopLent, PopFront, TypeOK, Queue
    <3>2. Len(delivered') = d + 1
      BY <3>1 DEF TypeOK
    <3>3. c >= 1
      BY <3>1, WindowFacts DEF Window
    <3>4. Line # <<>> /\ Head(Line) = accepted[d + 1]
      BY <2>1, <2>3, <3>3
    <3>5. Tail(Line) = [k \in 1 .. c - 1 |-> accepted[d + (k + 1)]]
      BY <2>1, <2>3, <3>3
    <3>6. \A k \in 1 .. c - 1 : d + (k + 1) = (d + 1) + k
      BY <2>3
    <3>7. Line' = Tail(Line)
      BY <2>2, <3>1, <3>2, <3>5, <3>6
    <3> QED
      BY <2>9, <3>1, <3>4, <3>7 DEF PopLent, Service!FifoNext, Service!Leave
  <2>10. CASE \E i \in Index : ReadDone(i)
    <3>1. q'.pendingCount = c /\ UNCHANGED <<accepted, delivered, lent, alive>>
      BY <2>10, ReadDoneEffect DEF TypeOK, Queue
    <3> QED
      BY <2>4, <3>1
  <2>11. CASE UNCHANGED vars
    BY <2>4, <2>11 DEF vars
  <2> QED
    BY <2>5, <2>6, <2>7, <2>8, <2>9, <2>10, <2>11 DEF Next
<1> QED
  BY <1>1, <1>2, LineIsHistory, RingHolds, PTL
     DEF Spec, ImplementsFifo, Service!FifoSpec

=============================================================================
