--------------------------- MODULE AttrCollector ---------------------------
(***************************************************************************)
(* NonResidentData and AttributeCollectorProcessor (core/ntfsmft.h:41-177, *)
(* core/ntfsmft.cpp:7-210) as operators: the map of a non-resident         *)
(* attribute as its chunks are found in the segments of a file, and the    *)
(* reader that runs after them, cluster by cluster.                        *)
(*                                                                         *)
(*   map      m_vcnMap, a sorted sequence of [vcn, lcn, len]               *)
(*   header   dataHeader: [highest, size] of the chunk with LowestVcn 0    *)
(*   nextVcn  m_nextVcn                                                    *)
(*   eof      m_vcnEof                                                     *)
(*   buf      m_buf from m_pos on: what was read and not yet consumed      *)
(*                                                                         *)
(* A chunk is [lowest, highest, size, pairs], its runs as mapping pairs.   *)
(* Sizes are in units, of which a cluster holds ClusterLen.                *)
(***************************************************************************)
EXTENDS DataRuns

CONSTANTS ClusterLen,  \* units in a cluster
          NoHeader     \* RecordLength of dataHeader is 0

LOCAL SX == INSTANCE SequencesExt
LOCAL T == INSTANCE TLC

ASSUME ClusterAssumption == ClusterLen \in Nat \ {0}

NotMapped == -1

Span == [vcn : Nat, lcn : Nat, len : Nat]
Header == [highest : Int, size : Nat]

EmptyData == [map |-> <<>>, header |-> NoHeader, nextVcn |-> 0, eof |-> FALSE,
              buf |-> <<>>]

\* getLcn: the first span that ends after vcn has it, or no span has.
LcnOf(map, vcn) ==
  LET after == {i \in DOMAIN map : vcn < map[i].vcn + map[i].len}
      i == CHOOSE k \in after : \A j \in after : k <= j
  IN IF after = {} THEN NotMapped
     ELSE IF vcn < map[i].vcn THEN NotMapped
     ELSE map[i].lcn + vcn - map[i].vcn

\* getFirstMissingVcn finds nothing. The end of a span is taken one too far.
NoMissingVcn(map) ==
  \A i \in DOMAIN map :
    map[i].vcn <= IF i = 1 THEN 0 ELSE map[i - 1].vcn + map[i - 1].len + 1

\* The spans of a chunk: its runs one after another from LowestVcn on.
SpansOf(chunk) ==
  LET runs == DataRunsOf(chunk.pairs)
  IN [r \in DOMAIN runs |->
        [vcn |-> SX!FoldLeft(LAMBDA sum, run : sum + run.len, chunk.lowest,
                             SubSeq(runs, 1, r - 1)),
         lcn |-> runs[r].lcn,
         len |-> runs[r].len]]

\* Mutant: the map is not sorted.
AddAttrChunkUnsorted(d, chunk) ==
  [d EXCEPT !.header = IF chunk.lowest = 0
                       THEN [highest |-> chunk.highest, size |-> chunk.size]
                       ELSE d.header,
            !.map = d.map \o SpansOf(chunk)]

AddAttrChunk(d, chunk) ==
  [d EXCEPT !.header = IF chunk.lowest = 0
                       THEN [highest |-> chunk.highest, size |-> chunk.size]
                       ELSE d.header,
            !.map = T!SortSeq(d.map \o SpansOf(chunk),
                              LAMBDA a, b : a.vcn < b.vcn)]

-----------------------------------------------------------------------------
(* tryReadMore()                                                           *)

AtEof(d) == d.header # NoHeader /\ d.nextVcn > d.header.highest

CanReadMore(d) == ~AtEof(d) /\ LcnOf(d.map, d.nextVcn) # NotMapped

\* Mutant: the slack of the last cluster is kept.
ReadMoreWithSlack(d, disk) ==
  [d EXCEPT !.buf = d.buf \o disk[LcnOf(d.map, d.nextVcn)],
            !.nextVcn = d.nextVcn + 1]

\* The cluster is read behind the rest of the buffer and cut at FileSize; past
\* that no cluster is read.
ReadMore(d, disk) ==
  LET remaining == d.header.size - d.nextVcn * ClusterLen
      data == disk[LcnOf(d.map, d.nextVcn)]
  IN IF remaining < ClusterLen
     THEN [d EXCEPT !.buf = d.buf \o SubSeq(data, 1, remaining),
                    !.nextVcn = d.header.highest + 1]
     ELSE [d EXCEPT !.buf = d.buf \o data,
                    !.nextVcn = d.nextVcn + 1]

\* Mutant: m_vcnEof is not set.
AdvancedOpen(d) == d

\* tryReadMore returned false: at the end, or at a VCN that is not known yet.
Advanced(d) == [d EXCEPT !.eof = AtEof(d)]

\* m_pos += n
Consumed(d, n) == [d EXCEPT !.buf = SubSeq(d.buf, n + 1, Len(d.buf))]

Bof(d) == d.map = <<>> /\ ~d.eof
Eof(d) == d.eof /\ d.buf = <<>>

\* assert_all_processed
AllProcessed(d) == Bof(d) \/ Eof(d)
=============================================================================
