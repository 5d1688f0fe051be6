------------------------------- MODULE MftDiff -------------------------------
(***************************************************************************)
(* MftScan and MftDiff (core/mftdiff.h, core/mftdiff.cpp): one pass over   *)
(* the segments of the source $MFT, in lockstep with those of the          *)
(* destination, that decides which clusters may have changed. A file may   *)
(* be spread over several segments, met in any order; what is found about  *)
(* one of them is kept in the file's entry of the filemap until the end.   *)
(*                                                                         *)
(* A segment is a record of what the pass looks at:                        *)
(*   live     a valid FILE record with FILE_RECORD_SEGMENT_IN_USE          *)
(*   base     BaseFileRecordSegment, or None                               *)
(*   list     it has an $ATTRIBUTE_LIST                                    *)
(*   index    it has an $INDEX_ALLOCATION                                  *)
(*   parents  the directories its $FILE_NAMEs refer to, in order           *)
(*   runs     the clusters of its nonresident attributes                   *)
(*   body     everything else, but for                                     *)
(*   usn      the update sequence number of the fixups                     *)
(***************************************************************************)
EXTENDS Integers, Sequences, FiniteSets, FiniteSetsExt

CONSTANTS Clusters,     \* the clusters of both volumes
          SystemFiles,  \* 0..32, marked dirty by the constructor
          ExtendDir,    \* 11, a dirty root
          Volumes,      \* pairs of $MFTs to compare, [src, dst] with the maps
                        \* [srcMap, dstMap] that say where their segments are
          Options,      \* settings of the pass
          None

Segment == [live : BOOLEAN, base : Nat \cup {None}, list : BOOLEAN, index : BOOLEAN,
            parents : Seq(Nat), runs : SUBSET Clusters, body : Nat, usn : Nat]

\* The runs of an $MFT, in order; a cluster is one segment.
MftRun == [vcn : Nat, lcn : Nat, len : Nat \ {0}]
End(map) == IF map = <<>> THEN 0 ELSE map[Len(map)].vcn + map[Len(map)].len
Covers(map, mft) ==
  /\ map \in Seq(MftRun)
  /\ \A i \in DOMAIN map : map[i].vcn = End(SubSeq(map, 1, i - 1))
  /\ DOMAIN mft = 0 .. End(map) - 1
  /\ \A s \in DOMAIN mft : mft[s] \in Segment

\* A part of a file names a base segment in use that has an $ATTRIBUTE_LIST.
ASSUME VolumesAssumption ==
  \A v \in Volumes :
    /\ 0 \in DOMAIN v.src \cap DOMAIN v.dst
    /\ Covers(v.srcMap, v.src) /\ Covers(v.dstMap, v.dst)
    /\ \A s \in DOMAIN v.src : v.src[s].live /\ v.src[s].base # None =>
         /\ v.src[s].base \in DOMAIN v.src
         /\ LET base == v.src[v.src[s].base]
            IN base.live /\ base.list /\ base.base = None

\* Files are known by the numbers of their base segments; a command line names
\* some of them.
ASSUME SettingsAssumption ==
  /\ None \notin Nat /\ IsFiniteSet(Clusters)
  /\ SystemFiles \subseteq Nat /\ IsFiniteSet(SystemFiles)
  /\ \A o \in Options : LET named == o.dirtySegments \cup o.skipSegments
                        IN named \subseteq Nat /\ IsFiniteSet(named)

VARIABLES vol,             \* the two volumes
          opts,            \* the options and the resolved in- and excludes
          n,               \* segmentNo: the next segment to look at
          destAt,          \* destIt: its index, past the end when exhausted
          filemap,         \* the permanent entries, by segment number
          srcUsed,         \* clusters seen in any file
          srcDiff,         \* clusters of files that may have changed
          srcDiffSkipped,  \* those of them that a skipping rule took out
          pc               \* "init", "scan", "done", "thrown"

vars == <<vol, opts, n, destAt, filemap, srcUsed, srcDiff, srcDiffSkipped, pc>>

Segments == DOMAIN vol.src
Entry == [dirty : BOOLEAN, skip : BOOLEAN, multisegment : BOOLEAN,
          runs : SUBSET Clusters]

TypeOK ==
  /\ n \in 0 .. Cardinality(Segments)
  /\ destAt \in 0 .. Cardinality(DOMAIN vol.dst)
  /\ DOMAIN filemap \subseteq Nat
  /\ \A s \in DOMAIN filemap : filemap[s] \in Entry
  /\ srcUsed \subseteq Clusters
  /\ srcDiff \subseteq srcUsed /\ srcDiffSkipped \subseteq srcUsed
  /\ pc \in {"init", "scan", "done", "thrown"}

FreshEntry == [dirty |-> FALSE, skip |-> FALSE, multisegment |-> FALSE, runs |-> {}]

\* The constructor's and the caller's entries for single segments.
DirtySegments(o) == SystemFiles \cup o.dirtySegments
DirtyRoots(o)    == {ExtendDir} \cup o.dirtyRoots

Presets(o) ==
  [s \in DirtySegments(o) \cup o.skipSegments |->
     [FreshEntry EXCEPT !.dirty = s \in DirtySegments(o),
                        !.skip  = s \in o.skipSegments]]

Init ==
  /\ vol \in Volumes
  /\ opts \in Options
  /\ n = 0
  /\ destAt = 0
  /\ filemap = Presets(opts)
  /\ srcUsed = {} /\ srcDiff = {} /\ srcDiffSkipped = {}
  /\ pc = "init"

-----------------------------------------------------------------------------
(* Before the pass.                                                        *)

\* Mutant: assert_leq, which is written with >= (util.h:118), does as it says.
LongEnoughLeq(i) == vol.srcMap[i].len <= vol.dstMap[i].len

\* "Last known run could have been expanded, this is allowed."
LongEnough(i) == vol.srcMap[i].len >= vol.dstMap[i].len

\* verifyMftRunsCompatible: "MFTs never shrink".
MftRunsCompatible ==
  /\ Len(vol.srcMap) >= Len(vol.dstMap)
  /\ \A i \in DOMAIN vol.dstMap :
       /\ vol.srcMap[i].lcn = vol.dstMap[i].lcn
       /\ vol.srcMap[i].vcn = vol.dstMap[i].vcn
       /\ IF i < Len(vol.dstMap) THEN vol.srcMap[i].len = vol.dstMap[i].len
          ELSE LongEnough(i)

ScanInit ==
  /\ pc = "init"
  /\ pc' = IF MftRunsCompatible THEN "scan" ELSE "thrown"
  /\ UNCHANGED <<vol, opts, n, destAt, filemap, srcUsed, srcDiff, srcDiffSkipped>>

-----------------------------------------------------------------------------
(* What one segment says.                                                  *)

Seg == vol.src[n]

\* The destination's iterator takes a step with every segment but the first.
DestNow == IF n > 0 /\ destAt \in DOMAIN vol.dst THEN destAt + 1 ELSE destAt

\* Mutant: a segment the destination does not have is taken for unchanged.
ComparedIfBoth ==
  /\ DestNow \in DOMAIN vol.dst
  /\ LET dst == vol.dst[DestNow]
     IN \/ [dst EXCEPT !.usn = Seg.usn] # Seg
        \/ dst.usn # Seg.usn /\ ~opts.ignoreFixup

\* memcmp with the update sequence number masked, which is then looked at on
\* its own. A segment the destination does not have is new.
Compared ==
  \/ DestNow \notin DOMAIN vol.dst
  \/ LET dst == vol.dst[DestNow]
     IN \/ [dst EXCEPT !.usn = Seg.usn] # Seg
        \/ dst.usn # Seg.usn /\ ~opts.ignoreFixup

\* A $FILE_NAME is looked at only while nothing made the segment dirty.
NameSeen(k) ==
  /\ ~Compared
  /\ \A j \in 1 .. k - 1 : Seg.parents[j] \notin DirtyRoots(opts)

DirtyByName == \E k \in DOMAIN Seg.parents :
                 NameSeen(k) /\ Seg.parents[k] \in DirtyRoots(opts)
SkipByName  == \E k \in DOMAIN Seg.parents :
                 NameSeen(k) /\ Seg.parents[k] \in opts.skipRoots
DirtyByIndex == Seg.index /\ opts.markAllIndex

SegmentDirty == Compared \/ DirtyByName \/ DirtyByIndex

\* The base segment's number for a part of a multisegment file, else None.
BaseOf(s, seg) == IF seg.base # None THEN seg.base
                  ELSE IF seg.list THEN s ELSE None
FileOf(s, seg) == IF BaseOf(s, seg) = None THEN s ELSE BaseOf(s, seg)

\* Mutant: the entry of a dirty segment is kept only if it is there already.
PermanentUnlisted ==
  \/ BaseOf(n, Seg) # None
  \/ opts.listAll
  \/ n \in DOMAIN filemap

\* selectSegmentEntry: the file's permanent entry, found or made, or the
\* temporary one that is forgotten after the segment.
Permanent ==
  \/ BaseOf(n, Seg) # None
  \/ SegmentDirty /\ opts.listDirty
  \/ opts.listAll
  \/ n \in DOMAIN filemap

Found == LET file == FileOf(n, Seg)
         IN IF file \in DOMAIN filemap THEN filemap[file] ELSE FreshEntry

\* The entry with this segment's share in it.
Updated ==
  [dirty        |-> Found.dirty \/ SegmentDirty,
   skip         |-> Found.skip \/ SkipByName,
   multisegment |-> Found.multisegment \/ BaseOf(n, Seg) # None,
   runs         |-> Found.runs \cup Seg.runs]

Stored(entry) ==
  LET file == FileOf(n, Seg)
  IN IF Permanent
     THEN [s \in DOMAIN filemap \cup {file} |->
             IF s = file THEN entry ELSE filemap[s]]
     ELSE filemap

\* onDirtyFile, for the entries in E: their clusters are marked.
Marked(E, skipped) ==
  UNION {e.runs : e \in {e \in E : e.dirty /\ e.skip = skipped}}

\* "Either it's new or already multisegment", and no two files share a cluster.
AssertionsHold ==
  /\ BaseOf(n, Seg) # None => Found.multisegment \/ Found.runs = {}
  /\ srcUsed \cap Seg.runs = {}

-----------------------------------------------------------------------------
(* The steps of the pass.                                                  *)

Scanning == pc = "scan" /\ n \in Segments

\* Mutant: only segments in use move the destination's iterator.
PassSegmentSourceOnly ==
  /\ Scanning /\ ~Seg.live
  /\ n' = n + 1
  /\ UNCHANGED <<vol, opts, destAt, filemap, srcUsed, srcDiff, srcDiffSkipped, pc>>

\* An invalid or unused segment only moves the iterators.
PassSegment ==
  /\ Scanning /\ ~Seg.live
  /\ destAt' = DestNow
  /\ n' = n + 1
  /\ UNCHANGED <<vol, opts, filemap, srcUsed, srcDiff, srcDiffSkipped, pc>>

\* A segment in use. A single-segment file is finalized at once.
ProcessSegment ==
  /\ Scanning /\ Seg.live
  /\ AssertionsHold
  /\ destAt' = DestNow
  /\ n' = n + 1
  /\ filemap' = Stored(Updated)
  /\ srcUsed' = srcUsed \cup Seg.runs
  /\ LET final == IF Updated.multisegment THEN {} ELSE {Updated}
     IN /\ srcDiff' = srcDiff \cup Marked(final, FALSE)
        /\ srcDiffSkipped' = srcDiffSkipped \cup Marked(final, TRUE)
  /\ UNCHANGED <<vol, opts, pc>>

AssertionFails ==
  /\ Scanning /\ Seg.live
  /\ ~AssertionsHold
  /\ pc' = "thrown"
  /\ UNCHANGED <<vol, opts, n, destAt, filemap, srcUsed, srcDiff, srcDiffSkipped>>

\* Multisegment files are finalized when every segment was seen.
FinishScan ==
  /\ pc = "scan" /\ n \notin Segments
  /\ LET final == {e \in {filemap[s] : s \in DOMAIN filemap} : e.multisegment}
     IN /\ srcDiff' = srcDiff \cup Marked(final, FALSE)
        /\ srcDiffSkipped' = srcDiffSkipped \cup Marked(final, TRUE)
  /\ pc' = "done"
  /\ UNCHANGED <<vol, opts, n, destAt, filemap, srcUsed>>

Next == ScanInit \/ PassSegment \/ ProcessSegment \/ AssertionFails \/ FinishScan

Spec == Init /\ [][Next]_vars

-----------------------------------------------------------------------------
Live(mft)  == {s \in DOMAIN mft : mft[s].live}
Files      == {FileOf(s, vol.src[s]) : s \in Live(vol.src)}
PartsOf(f) == {s \in Live(vol.src) : FileOf(s, vol.src[s]) = f}
RunsOf(f)  == UNION {vol.src[s].runs : s \in PartsOf(f)}
Used(mft)  == UNION {mft[s].runs : s \in Live(mft)}

\* The reasons to take a file for changed, whatever the order of its segments.
Suspect(s) ==
  LET seg == vol.src[s]
  IN \/ s \notin DOMAIN vol.dst
     \/ seg # [vol.dst[s] EXCEPT !.usn = seg.usn]
     \/ ~opts.ignoreFixup /\ seg.usn # vol.dst[s].usn
     \/ opts.markAllIndex /\ seg.index
     \/ \E k \in DOMAIN seg.parents : seg.parents[k] \in DirtyRoots(opts)
DirtyFiles ==
  {f \in Files : f \in DirtySegments(opts) \/ \E s \in PartsOf(f) : Suspect(s)}

\* The reasons to skip one.
BelowSkipRoot(f) ==
  \E s \in PartsOf(f) : \E k \in DOMAIN vol.src[s].parents :
    vol.src[s].parents[k] \in opts.skipRoots
Excluded(f) == f \in opts.skipSegments \/ BelowSkipRoot(f)

\* Exactly the clusters of suspect files are selected or set aside: the passes
\* over the two $MFTs stay in step, and a reason found in one segment reaches
\* the clusters of all the others, met before or after. (MftScan::scan,
\* MftDiff::processAnySegment, selectSegmentEntry, finalizeFileEntry)
SuspectsSelected ==
  pc = "done" =>
    /\ srcDiff \cup srcDiffSkipped = UNION {RunsOf(f) : f \in DirtyFiles}
    /\ srcDiff \cap srcDiffSkipped = {}

\* "For multi-segment files, the decision is made for the entire set of file
\* segments together" (README.md:303), and only excluded files are left out.
WholeFiles ==
  pc = "done" => \A f \in Files :
    /\ RunsOf(f) \subseteq srcDiff \/ RunsOf(f) \cap srcDiff = {}
    /\ RunsOf(f) \cap srcDiffSkipped # {} =>
         Excluded(f) /\ RunsOf(f) \subseteq srcDiffSkipped

\* No cluster of a file with a name in an excluded directory is selected: "Any
\* backreference to a skipRoot means the (multi)segment should be skipped"
\* (mftdiff.cpp:425).
SkipRootsHonoured ==
  pc = "done" => \A f \in Files : BelowSkipRoot(f) => RunsOf(f) \cap srcDiff = {}

\* What the pass selects, cluster by cluster and file by file. (MftDiff)
DirtyExact == SuspectsSelected /\ WholeFiles

\* A cluster in use now that no file of the destination's used is selected or
\* set aside, which is what the caller verifies with the two $Bitmaps before it
\* writes. (ntfsdd.cpp:871-877)
NewClustersSelected ==
  pc = "done" => Used(vol.src) \ Used(vol.dst) \subseteq srcDiff \cup srcDiffSkipped

\* The pass ends only when no two segments share a cluster, and srcUsed then is
\* what $Bitmap should say. (processAttributes, ntfsdd.cpp:843)
UsedExact ==
  pc = "done" =>
    /\ srcUsed = Used(vol.src)
    /\ \A s, t \in Live(vol.src) :
         s # t => vol.src[s].runs \cap vol.src[t].runs = {}

\* Two segments that are compared are at the same place of their volumes, and
\* the source's $MFT has every segment of the destination's: to copy the one
\* over the other puts each record where it belongs. (verifyMftRunsCompatible)
PlaceOf(map, vcn) ==
  LET i == CHOOSE j \in DOMAIN map : vcn \in map[j].vcn .. map[j].vcn + map[j].len - 1
  IN map[i].lcn + vcn - map[i].vcn
SamePlaces ==
  pc \in {"scan", "done"} => \A s \in DOMAIN vol.dst :
    s \in Segments /\ PlaceOf(vol.srcMap, s) = PlaceOf(vol.dstMap, s)

\* The state of the pass, what it rests on, and what its end says of the volume.
PassInv == TypeOK /\ SamePlaces /\ UsedExact

\* When dirty files are to be listed, each has its entry with all its clusters,
\* and those that are not skipped account for the whole selection: the totals
\* the caller compares are equal. (ntfsdd.cpp:900-908)
ListingCovers ==
  pc = "done" /\ (opts.listDirty \/ opts.listAll) =>
    /\ \A f \in DirtyFiles : f \in DOMAIN filemap /\ filemap[f].runs = RunsOf(f)
    /\ LET listed == {s \in DOMAIN filemap : filemap[s].dirty /\ ~filemap[s].skip}
       IN MapThenSumSet(LAMBDA s : Cardinality(filemap[s].runs), listed)
            = Cardinality(srcDiff)
=============================================================================
