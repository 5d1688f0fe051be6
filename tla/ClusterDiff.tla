---------------------------- MODULE ClusterDiff ----------------------------
(***************************************************************************)
(* ClusterDiffComparer, ClusterDiffWriter and ClusterCopier                *)
(* (core/clusterdiff.h, core/clusterdiff.cpp): the selected clusters are   *)
(* cut into chunks, read through one or two rings of overlapped reads,     *)
(* compared, and written through a third ring; the operating system        *)
(* finishes the reads and writes in any order, or fails them.              *)
(*                                                                         *)
(* The source volume does not change (it is locked or a snapshot). Its     *)
(* cluster c holds the content c, so misplaced data shows; a cluster of    *)
(* the destination holds the same or something older.                      *)
(***************************************************************************)
EXTENDS AsyncSlots, FiniteSets, FiniteSetsExt

CONSTANTS ClusterCount,     \* size of both volumes, in clusters
          BatchLen,         \* ASYNC_BATCH_LEN
          BytesPerCluster,
          Old,              \* content of a cluster that differs
          Modes,            \* which of the actions to model
          Faults            \* whether I/O may fail

ASSUME VolumeAssumption ==
  /\ ClusterCount \in Nat \ {0}
  /\ BatchLen \in Nat \ {0}
  /\ BytesPerCluster \in Nat \ {0}
  /\ Old \notin Nat /\ None \notin Nat
  /\ Modes \subseteq {"compare", "rcw", "copy"}
  /\ Faults \in BOOLEAN

VARIABLES mode,      \* which processor was built
          sel,       \* srcSelection
          stale,     \* the clusters that differ before the run
          dest,      \* content of the destination volume
          next,      \* the slice iterator: clusters below it were queued
          srcQ,      \* srcReader
          destQ,     \* destReader
          wrQ,       \* writer
          lcn,       \* progress in the chunk at hand, None between chunks
          diffMap,   \* the map of differing clusters
          stats,     \* clustersChecked, clustersDiffCount, dirtySpanTotals
          pc         \* "open", "flush", "done", "thrown"

frozen == <<mode, sel, stale>>
vars == <<frozen, dest, next, srcQ, destQ, wrQ, lcn, diffMap, stats, pc>>

Clusters == 0 .. ClusterCount - 1
Source(c) == c
Content == Clusters \cup {Old}
Span == [lo : Clusters, hi : Clusters]
Spans == {s \in Span : s.lo <= s.hi}
SpanData == UNION {[s.lo .. s.hi -> Content] : s \in Spans}
In(s) == s.lo .. s.hi
Length(s) == s.hi - s.lo + 1

TypeOK ==
  /\ mode \in Modes
  /\ sel \subseteq Clusters /\ stale \subseteq Clusters
  /\ dest \in [Clusters -> Content]
  /\ next \in 0 .. ClusterCount
  /\ {srcQ, destQ, wrQ} \subseteq Queue(Spans, SpanData)
  /\ lcn \in 0 .. ClusterCount \cup {None}
  /\ diffMap \subseteq Clusters
  /\ stats \in [checked : Nat, differing : Nat, spans : Nat]
  /\ pc \in {"open", "flush", "done", "thrown"}

Init ==
  /\ mode \in Modes
  /\ sel \in SUBSET Clusters
  /\ stale \in SUBSET Clusters
  /\ dest = [c \in Clusters |-> IF c \in stale THEN Old ELSE Source(c)]
  /\ next = 0
  /\ srcQ = EmptyQueue /\ destQ = EmptyQueue /\ wrQ = EmptyQueue
  /\ lcn = None
  /\ diffMap = {}
  /\ stats = [checked |-> 0, differing |-> 0, spans |-> 0]
  /\ pc = "open"

-----------------------------------------------------------------------------
(* Runs of clusters.                                                       *)

\* The first run of S at or after n, cut at len clusters: what BitmapSpans
\* and SlicedRunIterator yield next.
FirstRun(S, n, len) ==
  LET lo == Min({c \in S : c >= n})
      end == Min({c \in lo .. lo + len : c \notin S \/ c = lo + len})
  IN [lo |-> lo, hi |-> end - 1]

MoreSlices == \E c \in sel : c >= next
NextSlice == FirstRun(sel, next, BatchLen)

\* Part 1 of the loop: one slice goes to the reader, to both when comparing.
CanPush == MoreSlices /\ ~IsFull(srcQ)

PushSlice ==
  /\ pc = "open" /\ lcn = None
  /\ CanPush
  /\ srcQ' = PushBack(srcQ, NextSlice, None)
  /\ destQ' = IF mode = "copy" THEN destQ ELSE PushBack(destQ, NextSlice, None)
  /\ next' = NextSlice.hi + 1
  /\ UNCHANGED <<frozen, dest, wrQ, lcn, diffMap, stats, pc>>

\* Part 2: the oldest chunk has arrived, from both volumes when comparing.
OpenChunk ==
  /\ pc = "open" /\ lcn = None
  /\ ~CanPush
  /\ FrontIs(srcQ, "ok")
  /\ mode # "copy" => FrontIs(destQ, "ok")
  /\ lcn' = Front(srcQ).req.lo
  /\ UNCHANGED <<frozen, dest, next, srcQ, destQ, wrQ, diffMap, stats, pc>>

Chunk == In(Front(srcQ).req)

\* memcmp cluster by cluster; a copy takes the whole chunk for dirty.
Dirty ==
  IF mode = "copy" THEN Chunk
  ELSE {c \in Chunk : Front(srcQ).buf[c] # Front(destQ).buf[c]}

\* Mutant: a dirty span that reaches the end of the chunk is forgotten.
MoreDirtyInside ==
  lcn # None /\ \E c \in Dirty : c >= lcn /\ \E d \in Chunk \ Dirty : d > c

MoreDirty == lcn # None /\ \E c \in Dirty : c >= lcn
\* Mutant: the span ends where the chunk ends.
DirtySpanToEnd == [lo |-> FirstRun(Dirty, lcn, BatchLen).lo, hi |-> Front(srcQ).req.hi]

DirtySpan == FirstRun(Dirty, lcn, BatchLen)

\* Mutant: the data is taken from the start of the chunk instead of the span.
WriterAcceptsChunkStart(s) ==
  LET from == Front(srcQ).req.lo
      data == [c \in In(s) |-> Front(srcQ).buf[from + c - s.lo]]
      room == IF IsFull(wrQ) THEN PopFront(wrQ) ELSE wrQ
  IN /\ IsFull(wrQ) => FrontIs(wrQ, "ok")
     /\ wrQ' = PushBack(room, s, data)

\* The write queue accepts the data of span s, after waiting for its oldest
\* write if it is full.
WriterAccepts(s) ==
  LET data == [c \in In(s) |-> Front(srcQ).buf[c]]
      room == IF IsFull(wrQ) THEN PopFront(wrQ) ELSE wrQ
  IN /\ IsFull(wrQ) => FrontIs(wrQ, "ok")
     /\ wrQ' = PushBack(room, s, data)

\* onDirtySpan of the comparer: counted and marked. The copier does neither.
Note(s) ==
  IF mode = "copy" THEN UNCHANGED <<diffMap, stats>>
  ELSE /\ diffMap' = diffMap \cup In(s)
       /\ stats' = [stats EXCEPT !.spans = @ + Length(s)]

\* The next dirty span is reported, and written unless only comparing.
ReportSpan ==
  /\ pc = "open"
  /\ MoreDirty
  /\ Note(DirtySpan)
  /\ IF mode = "compare" THEN UNCHANGED wrQ ELSE WriterAccepts(DirtySpan)
  /\ lcn' = DirtySpan.hi + 1
  /\ UNCHANGED <<frozen, dest, next, srcQ, destQ, pc>>

\* The chunk is finished and both readers' slots are released. The copier adds
\* the remainder of the byte count where the comparer counts clusters.
CloseChunk ==
  /\ pc = "open" /\ lcn # None
  /\ ~MoreDirty
  /\ srcQ' = PopFront(srcQ)
  /\ destQ' = IF mode = "copy" THEN destQ ELSE PopFront(destQ)
  /\ LET bytesRead == Cardinality(Chunk) * BytesPerCluster
     IN stats' = IF mode = "copy"
                 THEN [stats EXCEPT !.checked = @ + (bytesRead % BytesPerCluster)]
                 ELSE [stats EXCEPT !.checked = @ + (bytesRead \div BytesPerCluster),
                                    !.differing = @ + Cardinality(Dirty)]
  /\ lcn' = None
  /\ UNCHANGED <<frozen, dest, next, wrQ, diffMap, pc>>

\* Everything was read and processed.
Drained ==
  /\ pc = "open" /\ lcn = None
  /\ ~CanPush /\ IsEmpty(srcQ)
  /\ pc' = IF mode = "compare" THEN "done" ELSE "flush"
  /\ UNCHANGED <<frozen, dest, next, srcQ, destQ, wrQ, lcn, diffMap, stats>>

\* Mutant: the wait does not release the slot.
FlushOneKeeps ==
  /\ pc = "flush"
  /\ FrontIs(wrQ, "ok")
  /\ UNCHANGED vars

\* while (writer->try_pop_front()) {}
FlushOne ==
  /\ pc = "flush"
  /\ FrontIs(wrQ, "ok")
  /\ wrQ' = PopFront(wrQ)
  /\ UNCHANGED <<frozen, dest, next, srcQ, destQ, lcn, diffMap, stats, pc>>

FlushEnd ==
  /\ pc = "flush"
  /\ IsEmpty(wrQ)
  /\ pc' = "done"
  /\ UNCHANGED <<frozen, dest, next, srcQ, destQ, wrQ, lcn, diffMap, stats>>

\* An exception ends process() and the queues are destroyed as they are. A
\* request that cannot be issued throws, ...
ReadNotIssued ==
  /\ pc = "open" /\ lcn = None
  /\ Faults /\ CanPush
  /\ \/ UNCHANGED srcQ
     \/ mode # "copy" /\ srcQ' = PushBack(srcQ, NextSlice, None)
  /\ pc' = "thrown"
  /\ UNCHANGED <<frozen, dest, next, destQ, wrQ, lcn, diffMap, stats>>

WriteNotIssued ==
  /\ pc = "open"
  /\ Faults /\ MoreDirty /\ mode # "compare"
  /\ Note(DirtySpan)
  /\ IsFull(wrQ) => FrontIs(wrQ, "ok")
  /\ wrQ' = IF IsFull(wrQ) THEN PopFront(wrQ) ELSE wrQ
  /\ pc' = "thrown"
  /\ UNCHANGED <<frozen, dest, next, srcQ, destQ, lcn>>

\* ... and so does the wait for one that failed.
ReadWaitFails ==
  /\ pc = "open" /\ lcn = None
  /\ ~CanPush
  /\ \/ FrontIs(srcQ, "failed")
     \/ FrontIs(srcQ, "ok") /\ FrontIs(destQ, "failed")
  /\ pc' = "thrown"
  /\ UNCHANGED <<frozen, dest, next, srcQ, destQ, wrQ, lcn, diffMap, stats>>

WriteWaitFails ==
  /\ FrontIs(wrQ, "failed")
  /\ \/ pc = "flush" /\ UNCHANGED <<diffMap, stats>>
     \/ pc = "open" /\ MoreDirty /\ IsFull(wrQ) /\ Note(DirtySpan)
  /\ pc' = "thrown"
  /\ UNCHANGED <<frozen, dest, next, srcQ, destQ, wrQ, lcn>>

-----------------------------------------------------------------------------
(* The operating system.                                                   *)

IoResults == IF Faults THEN {"ok", "failed"} ELSE {"ok"}

SrcReadDone(i) ==
  /\ i \in InFlight(srcQ)
  /\ \E result \in IoResults :
       srcQ' = CompleteIo(srcQ, i, result,
                          [c \in In(srcQ.slots[i].req) |-> Source(c)])
  /\ UNCHANGED <<frozen, dest, next, destQ, wrQ, lcn, diffMap, stats, pc>>

DestReadDone(i) ==
  /\ i \in InFlight(destQ)
  /\ \E result \in IoResults :
       destQ' = CompleteIo(destQ, i, result,
                           [c \in In(destQ.slots[i].req) |-> dest[c]])
  /\ UNCHANGED <<frozen, dest, next, srcQ, wrQ, lcn, diffMap, stats, pc>>

WriteDone(i) ==
  /\ i \in InFlight(wrQ)
  /\ LET slot == wrQ.slots[i]
     IN \E result \in IoResults :
          /\ wrQ' = CompleteIo(wrQ, i, result, slot.buf)
          /\ dest' = [c \in Clusters |->
                        IF result = "ok" /\ c \in In(slot.req) THEN slot.buf[c]
                        ELSE dest[c]]
  /\ UNCHANGED <<frozen, next, srcQ, destQ, lcn, diffMap, stats, pc>>

Finished ==
  /\ pc \in {"done", "thrown"}
  /\ UNCHANGED vars

Program == \/ PushSlice \/ OpenChunk \/ ReportSpan \/ CloseChunk
           \/ Drained \/ FlushOne \/ FlushEnd
           \/ ReadNotIssued \/ WriteNotIssued \/ ReadWaitFails \/ WriteWaitFails

Next == Program \/ Finished
        \/ \E i \in Index : SrcReadDone(i) \/ DestReadDone(i) \/ WriteDone(i)

\* The program runs until it must wait, and the operating system answers every
\* request in the end.
Fairness ==
  /\ WF_vars(Program)
  /\ \A i \in Index : WF_vars(SrcReadDone(i)) /\ WF_vars(DestReadDone(i))
                      /\ WF_vars(WriteDone(i))

Spec == Init /\ [][Next]_vars
FairSpec == Spec /\ Fairness

-----------------------------------------------------------------------------
Window(q) == {(q.tail + k) % Depth : k \in 0 .. q.pendingCount - 1}
ClustersOf(q, slots) == UNION {In(q.slots[i].req) : i \in slots}
Written == mode # "compare"

\* No byte of the destination is read and written, or written twice, at the
\* same time: the slices are disjoint and read before they are written, so the
\* rings need no ordering between each other. (process, onDirtySpan)
NoOverlap ==
  LET busy == InFlight(wrQ)
  IN /\ ClustersOf(destQ, InFlight(destQ)) \cap ClustersOf(wrQ, busy) = {}
     /\ \A i, j \in busy : i # j => In(wrQ.slots[i].req) \cap In(wrQ.slots[j].req) = {}

\* rcw "avoids writes unless necessary": a write in flight carries clusters
\* that were selected, differ, and were not written before. (onDirtySpan)
OnlyNecessaryWrites ==
  mode = "rcw" =>
    \A c \in ClustersOf(wrQ, InFlight(wrQ)) : c \in sel \cap stale /\ dest[c] = Old

\* What is in flight to the destination at any time. (ClusterDiffWriter)
WritesInPlace == NoOverlap /\ OnlyNecessaryWrites

\* No selected cluster falls between the iterator, the rings and the volume:
\* until the end, a cluster that still differs is yet to be sliced, in a chunk
\* yet to be compared, or in a write yet to be waited for.
NothingLost ==
  pc \in {"open", "flush"} /\ Written =>
    \A c \in sel : dest[c] # Source(c) =>
      \/ c >= next
      \/ \E i \in Window(srcQ) : /\ c \in In(srcQ.slots[i].req)
                                /\ i = srcQ.tail /\ lcn # None => c >= lcn
      \/ c \in ClustersOf(wrQ, Window(wrQ))

\* The comparison is exact: the difference map holds the clusters that
\* differed, and the totals agree with it and with the selection. (process)
DiffExact ==
  pc = "done" /\ mode # "copy" =>
    /\ diffMap = sel \cap stale
    /\ stats = [checked |-> Cardinality(sel), differing |-> Cardinality(diffMap),
                spans |-> Cardinality(diffMap)]

\* A normal end leaves no I/O behind: the readers are drained and the writer
\* is flushed before the buffers go away.
QuietEnd ==
  pc = "done" => InFlight(srcQ) \cup InFlight(destQ) \cup InFlight(wrQ) = {}

\* The rings and the volume account for every cluster, up to the quiet end.
TransferInv == TypeOK /\ NothingLost /\ QuietEnd

\* The processor always comes to an end.
Terminates == <>(pc \in {"done", "thrown"})

\* Neither the rings nor the order of completions show to the caller: selected
\* clusters take the source's content, nothing else changes, and the end is
\* reported when it is the end.
Abstract == INSTANCE ClusterUpdate WITH
              writes <- Written, selection <- sel, target <- dest,
              verdict <- IF pc = "flush" THEN "open" ELSE pc
ImplementsUpdate == Abstract!UpdateSpec
=============================================================================
