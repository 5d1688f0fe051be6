---------------------------- MODULE AsyncReader ----------------------------
(***************************************************************************)
(* AsyncFileReader (core/ntfsvolume.h:192-213) between a client that uses  *)
(* it as its header says - push what the queue accepts, wait for the first *)
(* to complete, use the data, release the slot - and an operating system   *)
(* that finishes the outstanding reads in any order, or fails them.        *)
(*                                                                         *)
(* The data a read of request r brings back is r itself, so a buffer tells *)
(* whose data it holds.                                                    *)
(***************************************************************************)
EXTENDS AsyncSlots, Sequences

CONSTANTS Requests,    \* (offset, size) pairs the client may ask for
          MaxRequests  \* bound: how many requests the client makes in all

ASSUME NoneAssumption == None \notin Requests
ASSUME MaxRequestsAssumption == MaxRequests \in Nat

VARIABLES q,          \* the ring
          lent,       \* finalize_front handed out the front buffer
          alive,      \* no call has thrown
          accepted,   \* history: requests try_push_back said true for
          delivered   \* history: what the client held when it popped

vars == <<q, lent, alive, accepted, delivered>>

TypeOK ==
  /\ q \in Queue(Requests, Requests)
  /\ lent \in BOOLEAN
  /\ alive \in BOOLEAN
  /\ accepted \in Seq(Requests)
  /\ delivered \in Seq([req : Requests \cup {None}, buf : Requests \cup {None}])

Init ==
  /\ q = EmptyQueue
  /\ lent = FALSE
  /\ alive = TRUE
  /\ accepted = <<>>
  /\ delivered = <<>>

\* Mutant: the pending_count >= m_slots.size() check is missing.
TryPushBackUnchecked(r) ==
  /\ alive
  /\ Len(accepted) < MaxRequests
  /\ q' = PushBack(q, r, None)
  /\ accepted' = Append(accepted, r)
  /\ UNCHANGED <<lent, alive, delivered>>

\* try_push_back returns true. The buffer is zeroed before it is reused.
TryPushBack(r) ==
  /\ alive
  /\ Len(accepted) < MaxRequests
  /\ ~IsFull(q)
  /\ q' = PushBack(q, r, None)
  /\ accepted' = Append(accepted, r)
  /\ UNCHANGED <<lent, alive, delivered>>

\* ReadFile fails outright: the call throws and the ring has not moved, but
\* the buffer of the slot at head has been zeroed.
PushThrows ==
  /\ alive
  /\ Len(accepted) < MaxRequests
  /\ ~IsFull(q)
  /\ alive' = FALSE
  /\ q' = [q EXCEPT !.slots[q.head].buf = None]
  /\ UNCHANGED <<lent, accepted, delivered>>

\* Mutant: GetOverlappedResult is asked not to wait, and its answer ignored.
FinalizeFrontNoWait ==
  /\ alive /\ ~lent
  /\ ~IsEmpty(q)
  /\ lent' = TRUE
  /\ UNCHANGED <<q, alive, accepted, delivered>>

\* finalize_front returns the buffer of the oldest read, or throws when that
\* read failed or came back short.
FinalizeFront ==
  /\ alive /\ ~lent
  /\ FrontIs(q, "ok")
  /\ lent' = TRUE
  /\ UNCHANGED <<q, alive, accepted, delivered>>

FinalizeThrows ==
  /\ alive /\ ~lent
  /\ FrontIs(q, "failed") \/ FrontIs(q, "short")
  /\ alive' = FALSE
  /\ UNCHANGED <<q, lent, accepted, delivered>>

\* Mutant: the data is looked at after pop_front instead of before.
PopLentThenLook ==
  /\ alive /\ lent
  /\ q' = PopFront(q)
  /\ lent' = FALSE
  /\ delivered' = Append(delivered, [req |-> Front(q').req, buf |-> Front(q').buf])
  /\ UNCHANGED <<alive, accepted>>

\* pop_front; until here the client may look at the buffer it was lent.
PopLent ==
  /\ alive /\ lent
  /\ q' = PopFront(q)
  /\ lent' = FALSE
  /\ delivered' = Append(delivered, [req |-> Front(q).req, buf |-> Front(q).buf])
  /\ UNCHANGED <<alive, accepted>>

\* The operating system, which goes on after the program gave up.
ReadDone(i) ==
  /\ i \in InFlight(q)
  /\ \/ q' = CompleteIo(q, i, "ok", q.slots[i].req)
     \/ \E result \in {"failed", "short"} : q' = CompleteIo(q, i, result, None)
  /\ UNCHANGED <<lent, alive, accepted, delivered>>

Next ==
  \/ \E r \in Requests : TryPushBack(r)
  \/ PushThrows
  \/ FinalizeFront
  \/ FinalizeThrows
  \/ PopLent
  \/ \E i \in Index : ReadDone(i)

Spec == Init /\ [][Next]_vars

-----------------------------------------------------------------------------
(* The slot that serves the n-th accepted request, and the requests that   *)
(* occupy the ring.                                                        *)
SlotOf(n) == (n - 1) % Depth
Window == Len(delivered) + 1 .. Len(accepted)

\* The counters agree with each other and with the history: head and tail are
\* the places of the next request to accept and to deliver, the ring never
\* holds more than Depth of them, each waits in its own slot, and the data that
\* arrived there - or was lent out - is its own. (try_push_back, pop_front)
RingInv ==
  /\ Len(accepted) = Len(delivered) + q.pendingCount
  /\ q.head = Len(accepted) % Depth
  /\ q.tail = Len(delivered) % Depth
  /\ \A n \in Window : LET s == q.slots[SlotOf(n)]
                       IN s.req = accepted[n] /\ (s.io = "ok" => s.buf = s.req)
  /\ lent => FrontIs(q, "ok")

\* The ring is well-formed and agrees with the history: what the other
\* properties of the reader follow from.
ReaderInv == TypeOK /\ RingInv

\* No read is outstanding on a slot the program believes free, and no slot in
\* the window was forgotten: is_pending marks exactly the slots in use.
PendingExact ==
  \A i \in Index :
    /\ q.slots[i].isPending <=> \E n \in Window : SlotOf(n) = i
    /\ q.slots[i].io = "inflight" => q.slots[i].isPending

\* Reads come out in the order they went in, each with its own data, however
\* the operating system orders the completions. (finalize_front, pop_front)
Fifo ==
  \A n \in 1 .. Len(delivered) :
    /\ n <= Len(accepted)
    /\ delivered[n] = [req |-> accepted[n], buf |-> accepted[n]]

\* While the client holds a buffer, no step zeroes it or lets a read into it.
\* (finalize_front hands out the slot's own memory)
BorrowedStays == lent /\ lent' => q'.tail = q.tail /\ Front(q)' = Front(q)

\* A slot with a read in flight is never issued again, nor released: its
\* OVERLAPPED stays the operating system's until the read is finished.
InFlightStays ==
  \A i \in InFlight(q) :
    q'.slots[i] # q.slots[i] => q'.slots[i].io \in Results /\ q'.slots[i].isPending

\* The memory of a slot has one owner at a time: the client while it is lent,
\* the operating system while a read is in flight. (AsyncFileReader)
SlotsKept == [][BorrowedStays /\ InFlightStays]_vars

-----------------------------------------------------------------------------
(* The line of requests as the ring holds it, from tail on.                 *)
Line == [k \in 1 .. q.pendingCount |-> q.slots[(q.tail + k - 1) % Depth].req]

Service == INSTANCE FifoService WITH
             Capacity <- Depth, Asked <- Requests, waiting <- Line,
             holding <- lent, working <- alive, answered <- delivered

\* The ring of slots is a bounded first-in first-out line: out-of-order
\* completions never show, and each request is answered with its own data.
ImplementsFifo == Service!FifoSpec
=============================================================================
