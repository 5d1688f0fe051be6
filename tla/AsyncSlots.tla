----------------------------- MODULE AsyncSlots -----------------------------
(***************************************************************************)
(* The ring of overlapped I/O slots under AsyncFileReader and              *)
(* AsyncFileWriter (core/ntfsvolume.h:160-243, core/ntfsvolume.cpp:466-605)*)
(* as operators on a queue record                                          *)
(*                                                                         *)
(*   slots         one record per AsyncSlot: the request in flight or last *)
(*                 served, the content of the buffer, the state of the     *)
(*                 overlapped operation and the is_pending flag            *)
(*   head          the slot the next request goes to                       *)
(*   tail          the slot that is waited for next                        *)
(*   pendingCount  the number of slots in use                              *)
(*                                                                         *)
(* The program drives head, tail and pendingCount; the operating system    *)
(* moves a slot from "inflight" to its result, in any order.               *)
(***************************************************************************)
EXTENDS Integers

CONSTANTS Depth,  \* queue_depth: the number of slots
          None    \* the request of a slot never used; a buffer without data

\* ASYNC_QUEUE_DEPTH is 16 by default; a ring without slots accepts nothing.
ASSUME DepthAssumption == Depth \in Nat \ {0}

Index == 0 .. Depth - 1

\* The state of a slot's overlapped operation as GetOverlappedResult sees it.
\* "short" is a success that moved fewer bytes than were asked for.
Results  == {"ok", "short", "failed"}
IoStates == {"idle", "inflight"} \cup Results

\* The slots and the rings of a queue of requests R with buffer contents B.
Slot(R, B) == [req : R \cup {None}, buf : B \cup {None},
               io : IoStates, isPending : BOOLEAN]

Queue(R, B) == [slots : [Index -> Slot(R, B)], head : Index, tail : Index,
                pendingCount : 0 .. Depth]

FreeSlot == [req |-> None, buf |-> None, io |-> "idle", isPending |-> FALSE]

EmptyQueue == [slots |-> [i \in Index |-> FreeSlot],
               head |-> 0, tail |-> 0, pendingCount |-> 0]

IsFull(q)  == q.pendingCount >= Depth
IsEmpty(q) == q.pendingCount = 0

Advance(i) == (i + 1) % Depth

\* Takes the slot at head, hands it to ReadFile or WriteFile and moves on.
PushBack(q, r, b) ==
  [q EXCEPT !.slots[q.head] = [req |-> r, buf |-> b,
                               io |-> "inflight", isPending |-> TRUE],
            !.head = Advance(q.head),
            !.pendingCount = q.pendingCount + 1]

Front(q) == q.slots[q.tail]

\* GetOverlappedResult(..., TRUE) on the slot at tail has returned.
FrontIs(q, result) == ~IsEmpty(q) /\ Front(q).io = result

\* Releases the slot at tail.
PopFront(q) ==
  [q EXCEPT !.slots[q.tail].isPending = FALSE,
            !.tail = Advance(q.tail),
            !.pendingCount = q.pendingCount - 1]

InFlight(q) == {i \in Index : q.slots[i].io = "inflight"}

\* The operating system finishes the operation of slot i, leaving b in the
\* buffer (a write leaves the buffer alone).
CompleteIo(q, i, result, b) ==
  [q EXCEPT !.slots[i].io = result, !.slots[i].buf = b]
=============================================================================
