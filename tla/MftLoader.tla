----------------------------- MODULE MftLoader -----------------------------
(***************************************************************************)
(* Mft::load (core/ntfsmft.cpp:393-450) with the MultiSegmentFileLoader it *)
(* is (289-374) and the AttributeListProcessor that tells it where to go   *)
(* on (257-286).                                                           *)
(*                                                                         *)
(* $MFT describes itself: its segment 0 names further segments in          *)
(* $ATTRIBUTE_LIST, and where those are is said by the $DATA chunks found  *)
(* so far. The list is read as far as it can be after every segment; a     *)
(* segment it names is loaded once.                                        *)
(*                                                                         *)
(* A unit of $ATTRIBUTE_LIST is a part of an entry, so that an entry may   *)
(* begin in one cluster and end in the next.                               *)
(***************************************************************************)
EXTENDS AttrCollector

CONSTANTS Images,             \* the $MFTs to load
          SegmentsPerCluster,
          EntryLen            \* units in an entry of $ATTRIBUTE_LIST

LOCAL SX == INSTANCE SequencesExt

\* An image has the clusters of $MFT in VCN order, the attributes of its
\* segments in the order they are stored, what is in other clusters, and the
\* segments that the entries of $ATTRIBUTE_LIST name.
ASSUME ImageAssumption ==
  /\ SegmentsPerCluster \in Nat \ {0}
  /\ EntryLen \in Nat \ {0}
  /\ \A m \in Images :
       /\ m.clusters \in Seq(Nat)
       /\ DOMAIN m.attrs = 0 .. Len(m.clusters) * SegmentsPerCluster - 1

VARIABLES image,     \* the volume
          data,      \* Mft as NonResidentData
          list,      \* attrList
          segments,  \* attrList.segments
          idx,       \* segmentIdx
          pc,        \* where load() is, or how it ended
          parsed,    \* history: the entries of the list, by their first unit
          loaded     \* history: the segments asked for and those found there

vars == <<image, data, list, segments, idx, pc, parsed, loaded>>

SegmentNo == UNION {DOMAIN m.attrs : m \in Images}
Unit == [seg : SegmentNo, part : 0 .. EntryLen]

NonResident(buffers) ==
  [map : Seq(Span), header : Header \cup {NoHeader}, nextVcn : Nat,
   eof : BOOLEAN, buf : buffers]

TypeOK ==
  /\ image \in Images
  /\ data \in NonResident({<<>>})
  /\ list \in NonResident(Seq(Unit)) /\ Len(list.buf) < EntryLen + ClusterLen
  /\ segments \in Seq(SegmentNo)
  /\ idx \in 0 .. Len(segments)
  /\ pc \in {"load", "advance", "loaded", "refused", "ioError"}
  /\ parsed \in Seq(Unit)
  /\ loaded \in Seq([asked : SegmentNo, found : SegmentNo \cup {NotMapped}])

Init ==
  /\ image \in Images
  /\ data = EmptyData /\ list = EmptyData
  /\ segments = <<0>>
  /\ idx = 0
  /\ pc = "load"
  /\ parsed = <<>> /\ loaded = <<>>

-----------------------------------------------------------------------------
(* Reading a segment                                                       *)

VcnOf(segmentNo) == segmentNo \div SegmentsPerCluster

\* readSegmentByIndex: without any run, $MFT is taken to be one flat space.
PlaceOf(segmentNo) ==
  IF data.map = <<>> THEN image.clusters[1] + VcnOf(segmentNo)
  ELSE LcnOf(data.map, VcnOf(segmentNo))

\* The segment that really is in that place.
SegmentAt(lcn, segmentNo) ==
  LET vcns == {v \in DOMAIN image.clusters : image.clusters[v] = lcn}
  IN IF vcns = {} THEN NotMapped
     ELSE ((CHOOSE v \in vcns : TRUE) - 1) * SegmentsPerCluster
          + (segmentNo % SegmentsPerCluster)

\* tryReadEntry notes the segment of an entry unless it is known.
Noted(known, segs) ==
  LET all == known \o segs
      first == SelectSeq([i \in DOMAIN all |-> i],
                         LAMBDA i : all[i] \notin {all[j] : j \in 1 .. i - 1})
  IN [k \in DOMAIN first |-> all[first[k]]]

\* processData: all the entries of a resident list.
EntriesOf(units) ==
  [e \in 1 .. Len(units) \div EntryLen |-> units[(e - 1) * EntryLen + 1]]
SegmentsOf(entries) == [e \in DOMAIN entries |-> entries[e].seg]

\* loadSegment: the attributes in their order.
Attrs(found) == IF found = NotMapped THEN <<>> ELSE image.attrs[found]
Of(attrs, type, resident) ==
  SelectSeq(attrs, LAMBDA a : a.type = type /\ a.resident = resident)

Chunks(d, attrs) ==
  SX!FoldLeft(LAMBDA c, a : AddAttrChunk(c, a), d, attrs)
Residents(attrs) ==
  SX!FlattenSeq([a \in DOMAIN attrs |-> attrs[a].value])

LoadSegment ==
  /\ pc = "load" /\ idx < Len(segments)
  /\ LET segmentNo == segments[idx + 1]
         found == SegmentAt(PlaceOf(segmentNo), segmentNo)
         attrs == Attrs(found)
         resident == EntriesOf(Residents(Of(attrs, "list", TRUE)))
     IN /\ PlaceOf(segmentNo) # NotMapped
        /\ data' = Chunks(data, Of(attrs, "data", FALSE))
        /\ list' = Chunks(list, Of(attrs, "list", FALSE))
        /\ segments' = Noted(segments, SegmentsOf(resident))
        /\ parsed' = parsed \o resident
        /\ loaded' = Append(loaded, [asked |-> segmentNo, found |-> found])
  /\ idx' = idx + 1
  /\ pc' = "advance"
  /\ UNCHANGED image

\* assert_greq(lcn, 0)
Unreachable ==
  /\ pc = "load" /\ idx < Len(segments)
  /\ PlaceOf(segments[idx + 1]) = NotMapped
  /\ pc' = "refused"
  /\ UNCHANGED <<image, data, list, segments, idx, parsed, loaded>>

HasEntry == ~list.eof /\ Len(list.buf) >= EntryLen

ReadFails ==
  /\ \/ pc = "load" /\ idx < Len(segments) /\ PlaceOf(segments[idx + 1]) # NotMapped
     \/ pc = "advance" /\ ~list.eof /\ ~HasEntry /\ CanReadMore(list)
  /\ pc' = "ioError"
  /\ UNCHANGED <<image, data, list, segments, idx, parsed, loaded>>

-----------------------------------------------------------------------------
(* attrList.advance()                                                      *)

ReadEntry ==
  /\ pc = "advance" /\ HasEntry
  /\ segments' = Noted(segments, <<Head(list.buf).seg>>)
  /\ parsed' = Append(parsed, Head(list.buf))
  /\ list' = Consumed(list, EntryLen)
  /\ UNCHANGED <<image, data, idx, pc, loaded>>

ReadCluster ==
  /\ pc = "advance" /\ ~list.eof /\ ~HasEntry
  /\ CanReadMore(list)
  /\ list' = ReadMore(list, image.disk)
  /\ UNCHANGED <<image, data, segments, idx, pc, parsed, loaded>>

\* Mutant: advance() goes on when tryReadMore has nothing for it.
AdvanceSpins ==
  /\ pc = "advance" /\ (list.eof \/ ~(HasEntry \/ CanReadMore(list)))
  /\ list' = IF list.eof THEN list ELSE Advanced(list)
  /\ pc' = IF list'.eof THEN "load" ELSE pc
  /\ UNCHANGED <<image, data, segments, idx, parsed, loaded>>

AdvanceReturns ==
  /\ pc = "advance" /\ (list.eof \/ ~(HasEntry \/ CanReadMore(list)))
  /\ list' = IF list.eof THEN list ELSE Advanced(list)
  /\ pc' = "load"
  /\ UNCHANGED <<image, data, segments, idx, parsed, loaded>>

\* The assertions at the end of both load().
Accepted ==
  /\ AllProcessed(list)
  /\ data.map # <<>>
  /\ Head(data.map).lcn = image.clusters[1]
  /\ NoMissingVcn(data.map)

Finish ==
  /\ pc = "load" /\ idx = Len(segments)
  /\ pc' = IF Accepted THEN "loaded" ELSE "refused"
  /\ UNCHANGED <<image, data, list, segments, idx, parsed, loaded>>

Ended == pc \in {"loaded", "refused", "ioError"}
Resting == Ended /\ UNCHANGED vars

Load == LoadSegment \/ Unreachable \/ ReadFails \/ ReadEntry \/ ReadCluster
          \/ AdvanceReturns \/ Finish
Next == Load \/ Resting

Spec == Init /\ [][Next]_vars
FairSpec == Spec /\ WF_vars(Load)

-----------------------------------------------------------------------------
Asked == [n \in DOMAIN loaded |-> loaded[n].asked]

\* What the chunks in a set of segments describe.
Described(segs) ==
  UNION {UNION {a.lowest .. a.highest :
                  a \in {b \in SX!ToSet(image.attrs[s]) : b.type = "data"}} : s \in segs}

\* The segments of the file, each once, in the order the list names them.
InOrder == Noted(<<0>>, image.listing)

\* Whoever wrote $MFT has kept to it that a segment can be found with what the
\* segments before it say, and the chunks are complete.
Found(n) ==
  LET before == Described({InOrder[k] : k \in 1 .. n - 1})
      vcn == VcnOf(InOrder[n])
  IN vcn \in before \/ (before = {} /\ image.clusters[vcn + 1] = image.clusters[1] + vcn)
Sound ==
  /\ \A n \in DOMAIN InOrder : Found(n)
  /\ Described(SX!ToSet(InOrder)) = 0 .. Len(image.clusters) - 1

\* With part of the map, or none, a segment is read from its own place or not
\* at all. (readSegmentByIndex, getLcn)
ReadInPlace == \A n \in DOMAIN loaded : loaded[n].found = loaded[n].asked

\* At any time the map has what the chunks found so far describe, in whatever
\* order they were found, and nothing else. (addAttrChunk, getLcn)
MapTrue ==
  \A vcn \in 0 .. Len(image.clusters) :
    LcnOf(data.map, vcn) = IF vcn \in Described(SX!ToSet(Asked))
                           THEN image.clusters[vcn + 1] ELSE NotMapped

\* The entries of $ATTRIBUTE_LIST are read as they were written, across
\* clusters and up to its exact end, and no segment is loaded twice.
\* (tryReadMore, packBuffer, tryReadEntry)
EntriesInStep ==
  /\ SX!IsPrefix(parsed, [e \in DOMAIN image.listing |->
                           [seg |-> image.listing[e], part |-> 1]])
  /\ \A m, n \in DOMAIN loaded : Asked[m] = Asked[n] => m = n

\* The map, the places found with it, and the list that is read meanwhile, at
\* any time. (NonResidentData, readSegmentByIndex, AttributeListProcessor)
LoaderInv == TypeOK /\ MapTrue /\ ReadInPlace /\ EntriesInStep

\* When load() returns, every segment that the list names was loaded, and the
\* map has no hole of more than one cluster. (load)
LoadedMeansWhole ==
  pc = "loaded" =>
    /\ Len(parsed) = Len(image.listing)
    /\ SX!ToSet(Asked) = SX!ToSet(InOrder)
    /\ \A vcn \in Described(SX!ToSet(Asked)) :
         vcn > 1 => {vcn - 1, vcn - 2} \cap Described(SX!ToSet(Asked)) # {}

\* An $MFT that was written well is not refused. (the assertions of load)
RefusalMeansDamage == pc = "refused" => ~Sound

\* load() comes to an end. (the list grows while it is walked)
Ends == <>[]Ended
=============================================================================
