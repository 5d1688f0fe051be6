---------------------------- MODULE AsyncWriter ----------------------------
(***************************************************************************)
(* AsyncFileWriter (core/ntfsvolume.h:216-243) under a client that pushes  *)
(* writes and, on exit, pops the remainder of them until there is none, as *)
(* ClusterDiffWriter and ClusterCopier do. push_back makes room for itself *)
(* by waiting for the oldest write.                                        *)
(***************************************************************************)
EXTENDS AsyncSlots, Sequences, FiniteSets

CONSTANTS Requests,    \* (offset, data) pairs the client may write
          MaxRequests  \* bound: how many writes the client makes in all

ASSUME NoneAssumption == None \notin Requests
ASSUME MaxRequestsAssumption == MaxRequests \in Nat

VARIABLES q,         \* the ring
          phase,     \* "pushing", "flushing", "done", "thrown"
          accepted,  \* history: the writes push_back returned for
          retired,   \* history: how many writes were waited for
          medium     \* how often each request's data reached the medium

vars == <<q, phase, accepted, retired, medium>>

TypeOK ==
  /\ q \in Queue(Requests, Requests)
  /\ phase \in {"pushing", "flushing", "done", "thrown"}
  /\ accepted \in Seq(Requests)
  /\ retired \in Nat
  /\ medium \in [Requests -> Nat]

Init ==
  /\ q = EmptyQueue
  /\ phase = "pushing"
  /\ accepted = <<>>
  /\ retired = 0
  /\ medium = [r \in Requests |-> 0]

CanPush == phase = "pushing" /\ Len(accepted) < MaxRequests

\* push_back with a free slot: the data is copied into the slot's own buffer.
PushFree(r) ==
  /\ CanPush
  /\ ~IsFull(q)
  /\ q' = PushBack(q, r, r)
  /\ accepted' = Append(accepted, r)
  /\ UNCHANGED <<phase, retired, medium>>

\* push_back on a full ring: it blocks for the oldest write, releases that
\* slot and takes it.
PushFull(r) ==
  /\ CanPush
  /\ IsFull(q)
  /\ FrontIs(q, "ok")
  /\ q' = PushBack(PopFront(q), r, r)
  /\ accepted' = Append(accepted, r)
  /\ retired' = retired + 1
  /\ UNCHANGED <<phase, medium>>

\* WriteFile fails outright: room was made and the data copied already.
PushThrows(r) ==
  /\ CanPush
  /\ LET room == IF IsFull(q) THEN PopFront(q) ELSE q
     IN /\ IsFull(q) => FrontIs(q, "ok")
        /\ q' = [room EXCEPT !.slots[room.head].buf = r]
        /\ retired' = IF IsFull(q) THEN retired + 1 ELSE retired
  /\ phase' = "thrown"
  /\ UNCHANGED <<accepted, medium>>

\* The client has no more data.
StartFlush ==
  /\ phase = "pushing"
  /\ phase' = "flushing"
  /\ UNCHANGED <<q, accepted, retired, medium>>

\* Mutant: the slot is not released.
FlushKeeps ==
  /\ phase = "flushing"
  /\ FrontIs(q, "ok")
  /\ UNCHANGED vars

\* try_pop_front in the flush loop: true for a write that ended well, false
\* when no write is left.
Flush ==
  /\ phase = "flushing"
  /\ FrontIs(q, "ok")
  /\ q' = PopFront(q)
  /\ retired' = retired + 1
  /\ UNCHANGED <<phase, accepted, medium>>

\* Mutant: the flush loop pops one write instead of all.
FlushEndEarly ==
  /\ phase = "flushing"
  /\ IsEmpty(q) \/ FrontIs(q, "ok")
  /\ phase' = "done"
  /\ UNCHANGED <<q, accepted, retired, medium>>

FlushEnd ==
  /\ phase = "flushing"
  /\ IsEmpty(q)
  /\ phase' = "done"
  /\ UNCHANGED <<q, accepted, retired, medium>>

\* The wait for the oldest write, in push_back or in the flush loop, finds it
\* failed: an error throws with the slot still taken, a short write throws
\* after the slot was released.
PopThrows ==
  /\ phase = "flushing" \/ (CanPush /\ IsFull(q))
  /\ \/ FrontIs(q, "failed") /\ UNCHANGED <<q, retired>>
     \/ FrontIs(q, "short") /\ q' = PopFront(q) /\ retired' = retired + 1
  /\ phase' = "thrown"
  /\ UNCHANGED <<accepted, medium>>

\* The operating system writes the buffer out, all of it or not.
WriteDone(i) ==
  /\ i \in InFlight(q)
  /\ \E result \in Results :
       /\ q' = CompleteIo(q, i, result, q.slots[i].buf)
       /\ medium' = IF result = "ok"
                    THEN [medium EXCEPT ![q.slots[i].buf] = @ + 1]
                    ELSE medium
  /\ UNCHANGED <<phase, accepted, retired>>

Next ==
  \/ \E r \in Requests : PushFree(r) \/ PushFull(r) \/ PushThrows(r)
  \/ StartFlush
  \/ Flush
  \/ FlushEnd
  \/ PopThrows
  \/ \E i \in Index : WriteDone(i)

\* The operating system finishes every write it was given, and the client
\* neither stops in the middle nor pushes for ever.
Fairness ==
  /\ \A i \in Index : WF_vars(WriteDone(i))
  /\ WF_vars(StartFlush) /\ WF_vars(Flush) /\ WF_vars(FlushEnd)
  /\ WF_vars(PopThrows)

Spec == Init /\ [][Next]_vars
FairSpec == Spec /\ Fairness

-----------------------------------------------------------------------------
Window == retired + 1 .. Len(accepted)
SlotOf(n) == (n - 1) % Depth
CountOf(r) == Cardinality({n \in 1 .. Len(accepted) : accepted[n] = r})

\* The ring agrees with the history, and each write still waited for keeps its
\* own slot and its own data. (push_back, try_pop_front)
RingInv ==
  /\ Len(accepted) = retired + q.pendingCount
  /\ q.head = Len(accepted) % Depth
  /\ q.tail = retired % Depth
  /\ \A n \in Window : LET s == q.slots[SlotOf(n)]
                       IN s.isPending /\ s.req = accepted[n] /\ s.buf = accepted[n]

\* No write is outstanding on a slot that push_back may take.
NoOrphan == \A i \in InFlight(q) : \E n \in Window : SlotOf(n) = i

\* "Pop the remainder of the requests until false": when the flush loop ended
\* without an exception, every accepted write is on the medium, and none twice.
FlushComplete ==
  phase = "done" => \A r \in Requests : medium[r] = CountOf(r)

\* The writer's ring at any time, and what it has done in the end. (push_back,
\* try_pop_front)
WriterInv == TypeOK /\ RingInv /\ NoOrphan /\ FlushComplete

\* A client that stops pushing gets an answer: all done, or an exception.
FlushEnds == phase = "flushing" ~> phase \in {"done", "thrown"}
=============================================================================
