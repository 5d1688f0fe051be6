---------------------------- MODULE SegmentIter ----------------------------
(***************************************************************************)
(* SegmentIteratorOverlapped (core/ntfsmft.h:288-379, core/ntfsmft.cpp:    *)
(* 605-654, 750-876): walks the segments of $MFT, fragment after fragment, *)
(* over a ring of overlapped reads. The reads are pushed ahead as far as   *)
(* the ring allows, whenever a segment is asked for; the segments are      *)
(* handed out of the buffer of the oldest read, which is lent for as long  *)
(* as it has segments left.                                                *)
(*                                                                         *)
(* A cluster holds SegmentsPerCluster segments; a segment is known by the  *)
(* cluster it is in and its place there.                                   *)
(***************************************************************************)
EXTENDS AsyncSlots, Sequences

CONSTANTS RunLists,            \* $MFTs: sequences of runs [lcn, len]
          MaxClusters,         \* bound: no $MFT has more clusters
          BatchLen,            \* SEGMENTITERATOR_BATCHSIZE, in clusters
          SegmentsPerCluster,
          Unwanted(_)          \* the segments that a set of flags skips

SX == INSTANCE SequencesExt

Run == [lcn : Nat, len : Nat]
Segment == [lcn : Nat, at : 0 .. SegmentsPerCluster - 1]

\* The segments of a run of clusters, by their places in its memory, and those
\* of a list of runs.
SegmentOf(chunk, n) == [lcn |-> chunk.lcn + n \div SegmentsPerCluster,
                        at  |-> n % SegmentsPerCluster]
SegmentsOf(r) == [n \in 1 .. r.len * SegmentsPerCluster |-> SegmentOf(r, n - 1)]
SegmentsIn(list) == SX!FlattenSeq([n \in DOMAIN list |-> SegmentsOf(list[n])])

ASSUME IteratorAssumption ==
  /\ BatchLen \in Nat \ {0}
  /\ SegmentsPerCluster \in Nat \ {0}
  /\ MaxClusters \in Nat
  /\ \A list \in RunLists :
       /\ list \in Seq(Run)
       /\ Len(SegmentsIn(list)) <= MaxClusters * SegmentsPerCluster
  /\ None \notin Run \cup Nat

VARIABLES runs,       \* vcnMap of the $MFT
          flags,      \* SI_SKIP_INVALID, SI_SKIP_NOT_IN_USE
          q,          \* reader
          run,        \* currentRun, as an index; None when all were pushed
          cluster,    \* currentClusterInRun: where the next read starts
          seg,        \* segment, as its place in the lent buffer; 0 for null
          left,       \* remainingBufferData, in segments
          pc,         \* where the call of ++ is, or how it failed
          accepted,   \* history: the reads pushed
          delivered,  \* history: the reads returned to the reader, with data
          handed      \* history: the segments handed to the client

history == <<accepted, delivered, handed>>
vars == <<runs, flags, q, run, cluster, seg, left, pc, history>>

Flags == {"invalid", "notInUse"}

\* What may be asked of the reader: (offset, size) as clusters.
Chunk == UNION {UNION {[lcn : r.lcn .. r.lcn + MaxClusters, len : 1 .. BatchLen] :
                         r \in SX!ToSet(list)} : list \in RunLists}

TypeOK ==
  /\ runs \in RunLists /\ flags \subseteq Flags
  /\ q \in Queue(Chunk, Chunk)
  /\ run \in DOMAIN runs \cup {None}
  /\ cluster \in Nat
  /\ seg \in 0 .. BatchLen * SegmentsPerCluster
  /\ left \in 0 .. BatchLen * SegmentsPerCluster - 1
  /\ pc \in {"push", "take", "fixup", "filter", "client", "thrown", "rejected"}
  /\ accepted \in Seq(Chunk) /\ handed \in Seq(Segment)
  /\ delivered \in Seq([req : Chunk, buf : Chunk])

\* The constructor opens the first run and looks for the first segment.
Init ==
  /\ runs \in RunLists
  /\ flags \in SUBSET Flags
  /\ q = EmptyQueue
  /\ run = IF runs = <<>> THEN None ELSE 1
  /\ cluster = 0 /\ seg = 0 /\ left = 0
  /\ pc = IF runs = <<>> THEN "client" ELSE "filter"
  /\ accepted = <<>> /\ delivered = <<>> /\ handed = <<>>

-----------------------------------------------------------------------------
(* advance()                                                               *)

\* The next read: the rest of the run, cut at BatchLen.
NextLen == LET rest == runs[run].len - cluster
           IN IF rest > BatchLen THEN BatchLen ELSE rest

\* Mutant: every read of a run starts at its beginning.
NextChunkOfRun == [lcn |-> runs[run].lcn, len |-> NextLen]

NextChunk == [lcn |-> runs[run].lcn + cluster, len |-> NextLen]

\* Mutant: the run is left one call too late.
MoveToLate(c) ==
  IF c <= runs[run].len THEN cluster' = c /\ UNCHANGED run
  ELSE /\ run' = IF run < Len(runs) THEN run + 1 ELSE None
       /\ cluster' = 0

\* advanceRun and openRun, once the run is used up.
MoveTo(c) ==
  IF c < runs[run].len THEN cluster' = c /\ UNCHANGED run
  ELSE /\ run' = IF run < Len(runs) THEN run + 1 ELSE None
       /\ cluster' = 0

\* Mutant: the answer of try_push_back is not looked at.
PushUnchecked ==
  /\ pc = "push" /\ run # None
  /\ NextLen > 0
  /\ q' = PushBack(q, NextChunk, None)
  /\ accepted' = Append(accepted, NextChunk)
  /\ MoveTo(cluster + NextLen)
  /\ UNCHANGED <<runs, flags, seg, left, pc, delivered, handed>>

\* Part 1: reads are pushed until the ring is full or all were; ...
Push ==
  /\ pc = "push" /\ run # None
  /\ NextLen > 0
  /\ ~IsFull(q)
  /\ q' = PushBack(q, NextChunk, None)
  /\ accepted' = Append(accepted, NextChunk)
  /\ MoveTo(cluster + NextLen)
  /\ UNCHANGED <<runs, flags, seg, left, pc, delivered, handed>>

PushThrows ==
  /\ pc = "push" /\ run # None
  /\ NextLen > 0
  /\ ~IsFull(q)
  /\ q' = [q EXCEPT !.slots[q.head].buf = None]
  /\ pc' = "thrown"
  /\ UNCHANGED <<runs, flags, run, cluster, seg, left, history>>

\* ... a run of no clusters is passed over.
PassRun ==
  /\ pc = "push" /\ run # None
  /\ NextLen = 0
  /\ MoveTo(cluster)
  /\ UNCHANGED <<runs, flags, q, seg, left, pc, history>>

PushEnds ==
  /\ pc = "push"
  /\ run # None => NextLen > 0 /\ IsFull(q)
  /\ pc' = "take"
  /\ UNCHANGED <<runs, flags, q, run, cluster, seg, left, history>>

\* Part 2: the lent buffer has another segment.
NextInBuffer ==
  /\ pc = "take"
  /\ left > 0
  /\ seg' = seg + 1
  /\ left' = left - 1
  /\ pc' = "filter"
  /\ UNCHANGED <<runs, flags, q, run, cluster, history>>

\* Part 3: it is given back, ...
ReturnBuffer ==
  /\ pc = "take"
  /\ left = 0 /\ seg # 0
  /\ q' = PopFront(q)
  /\ delivered' = Append(delivered, [req |-> Front(q).req, buf |-> Front(q).buf])
  /\ seg' = 0
  /\ UNCHANGED <<runs, flags, run, cluster, left, pc, accepted, handed>>

\* ... and the oldest read is waited for, if there is one.
TakeBuffer ==
  /\ pc = "take"
  /\ left = 0 /\ seg = 0
  /\ IF IsEmpty(q) THEN pc' = "filter" /\ UNCHANGED <<seg, left>>
     ELSE /\ FrontIs(q, "ok")
          /\ seg' = 1
          /\ left' = Front(q).req.len * SegmentsPerCluster - 1
          /\ pc' = "fixup"
  /\ UNCHANGED <<runs, flags, q, run, cluster, history>>

TakeThrows ==
  /\ pc = "take"
  /\ left = 0 /\ seg = 0
  /\ FrontIs(q, "failed") \/ FrontIs(q, "short")
  /\ pc' = "thrown"
  /\ UNCHANGED <<runs, flags, q, run, cluster, seg, left, history>>

\* processSegments on the whole buffer: "Invalid fixup in a segment" throws.
Fixup ==
  /\ pc = "fixup"
  /\ pc' \in {"filter", "rejected"}
  /\ UNCHANGED <<runs, flags, q, run, cluster, seg, left, history>>

-----------------------------------------------------------------------------
(* readCurrent(), operator++ and operator!=                                *)

Current == SegmentOf(Front(q).buf, seg - 1)

\* The loop goes on while runs are left to push; after that the flags are not
\* looked at any more.
Skipped == run # None /\ (seg = 0 \/ Current \in Unwanted(flags))

ReadCurrent ==
  /\ pc = "filter"
  /\ pc' = IF Skipped THEN "push" ELSE "client"
  /\ handed' = IF Skipped \/ seg = 0 THEN handed ELSE Append(handed, Current)
  /\ UNCHANGED <<runs, flags, q, run, cluster, seg, left, accepted, delivered>>

\* Mutant: the iterator compares equal to end() when all reads were pushed.
AtEndEarly == run = None

AtEnd == run = None /\ seg = 0

Increment ==
  /\ pc = "client"
  /\ ~AtEnd
  /\ pc' = "push"
  /\ UNCHANGED <<runs, flags, q, run, cluster, seg, left, history>>

\* The operating system. A chunk that was read holds its own clusters.
ReadDone(i) ==
  /\ i \in InFlight(q)
  /\ \/ q' = CompleteIo(q, i, "ok", q.slots[i].req)
     \/ \E result \in {"failed", "short"} : q' = CompleteIo(q, i, result, None)
  /\ UNCHANGED <<runs, flags, run, cluster, seg, left, pc, history>>

Stopped == pc \in {"thrown", "rejected"} \/ (pc = "client" /\ AtEnd)
Resting == Stopped /\ UNCHANGED vars

Iterator == \/ Push \/ PushThrows \/ PassRun \/ PushEnds \/ NextInBuffer
            \/ ReturnBuffer \/ TakeBuffer \/ TakeThrows \/ Fixup \/ ReadCurrent
            \/ Increment

Next == Iterator \/ Resting \/ \E i \in Index : ReadDone(i)

Fairness == WF_vars(Iterator) /\ \A i \in Index : WF_vars(ReadDone(i))

Spec == Init /\ [][Next]_vars
FairSpec == Spec /\ Fairness

-----------------------------------------------------------------------------
\* $MFT as it is meant: run after run, segment after segment.
AllSegments == SegmentsIn(runs)

\* Without those the flags skip.
Wanted(segments) ==
  SX!FlattenSeq([n \in DOMAIN segments |->
                   IF segments[n] \in Unwanted(flags) THEN <<>>
                   ELSE <<segments[n]>>])

\* The n-th segment handed out is segment n of $MFT, read from its own place:
\* MftScan numbers the segments by counting them (mftdiff.cpp:80). With flags
\* this is true of the segments they do not skip. (advance, readCurrent)
InStep == SX!IsPrefix(Wanted(handed), Wanted(AllSegments))

\* The loop over the iterator ends when every segment was handed out, and not
\* before. (operator!=)
Complete == pc = "client" /\ AtEnd => Wanted(handed) = Wanted(AllSegments)

\* While the client has a segment, its slot is the reader's oldest, its data
\* has arrived, and enough of it is left. Without one nothing is left, and
\* none is given to the client before the ring is empty.
OnLentBuffer ==
  /\ seg # 0 => /\ FrontIs(q, "ok") /\ Front(q).isPending
                /\ seg + left = Front(q).req.len * SegmentsPerCluster
  /\ seg = 0 => left = 0 /\ pc \notin {"fixup", "rejected"}
  /\ seg = 0 /\ pc \in {"filter", "client"} => IsEmpty(q)

\* The reads in the ring are the last of those pushed, the n-th of all in the
\* slot where a count of n - 1 points, and data that arrived there is its own.
InRing ==
  /\ Len(accepted) = Len(delivered) + q.pendingCount
  /\ q.head = Len(accepted) % Depth /\ q.tail = Len(delivered) % Depth
  /\ \A n \in Len(delivered) + 1 .. Len(accepted) :
       LET s == q.slots[(n - 1) % Depth]
       IN s.isPending /\ s.req = accepted[n] /\ (s.io = "ok" => s.buf = s.req)

\* The segments before the place where the next read starts.
Passed ==
  IF run = None THEN AllSegments
  ELSE SegmentsIn(SubSeq(runs, 1, run - 1))
         \o SegmentsOf([lcn |-> runs[run].lcn, len |-> cluster])

\* The reads pushed are $MFT up to there, without a gap or a repetition, and
\* none of them is empty. (advance)
ReadAhead ==
  /\ SegmentsIn(accepted) = Passed
  /\ Len(accepted) * SegmentsPerCluster <= Len(Passed)
  /\ run # None => cluster <= runs[run].len

\* How many segments were looked at: those of the reads returned, and those of
\* the lent buffer up to the current one, if its flags were looked at.
LookedAt ==
  Len(SegmentsIn(SubSeq(accepted, 1, Len(delivered))))
    + IF pc \in {"fixup", "filter", "rejected"} /\ seg # 0 THEN seg - 1 ELSE seg

\* What was handed out is what is wanted of the segments looked at.
Walked == Wanted(handed) = Wanted(SubSeq(AllSegments, 1, LookedAt))

\* The iterator at any time. (SegmentIteratorOverlapped)
IteratorInv ==
  TypeOK /\ InRing /\ OnLentBuffer /\ ReadAhead /\ Walked /\ InStep

\* A scan of $MFT comes to an end, or throws.
Ends == <>[]Stopped

\* The iterator keeps to what AsyncFileReader asks of its clients, so that what
\* is true of the reader is true of it here.
Reader == INSTANCE AsyncReader WITH
            Requests <- Chunk, MaxRequests <- MaxClusters,
            lent <- seg # 0, alive <- pc # "thrown"
UsesReader == Reader!Spec
=============================================================================
