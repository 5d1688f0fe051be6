--------------------------- MODULE MftDiff_proofs ---------------------------
(***************************************************************************)
(* Proofs about MftDiff, for $MFTs of any length in any number of runs,    *)
(* files in any number of segments in any order, and all options.          *)
(*                                                                         *)
(* The argument: the two iterators are in step, so that each segment is    *)
(* compared with that of its own number, and what makes it dirty is what   *)
(* makes it suspect. The entry of a file that has one sums up the segments *)
(* of it that were met. A file in several segments has an entry since the  *)
(* first of them was met; a file in one is settled at once. As no cluster  *)
(* was seen twice, the settled files are each on one side of the selection *)
(* with all their clusters, and at the end every file is settled.          *)
(***************************************************************************)
EXTENDS MftDiff, ModArith, FiniteSetTheorems

Given == vol \in Volumes /\ opts \in Options

\* The segments in use that were met, and of a file.
Seen         == {s \in Live(vol.src) : s < n}
SeenParts(f) == {s \in Seen : FileOf(s, vol.src[s]) = f}
SeenRuns(f)  == UNION {vol.src[s].runs : s \in SeenParts(f)}

\* A segment of a file with an $ATTRIBUTE_LIST.
Spread(s) == BaseOf(s, vol.src[s]) # None

\* Where the destination's iterator is after n steps. (MftScan::scan)
InStep ==
  destAt = IF n = 0 THEN 0
           ELSE IF n <= End(vol.dstMap) THEN n - 1 ELSE End(vol.dstMap)

\* An entry of the filemap sums up what was met of its file.
Exact(f) ==
  LET e == filemap[f]
  IN /\ e.dirty <=> f \in DirtySegments(opts) \/ \E s \in SeenParts(f) : Suspect(s)
     /\ e.skip => Excluded(f)
     /\ e.multisegment <=> \E s \in SeenParts(f) : Spread(s)
     /\ e.runs = SeenRuns(f)

\* The files that must have one. (selectSegmentEntry)
Entries ==
  /\ \A f \in DOMAIN filemap : Exact(f)
  /\ DirtySegments(opts) \cup opts.skipSegments \subseteq DOMAIN filemap
  /\ \A s \in Seen :
       Spread(s) \/ opts.listAll \/ (opts.listDirty /\ Suspect(s)) =>
         FileOf(s, vol.src[s]) \in DOMAIN filemap

\* What was seen is what the segments in use have, and nothing twice.
SeenOnce ==
  /\ srcUsed = UNION {vol.src[s].runs : s \in Seen}
  /\ \A s, t \in Seen : s # t => vol.src[s].runs \cap vol.src[t].runs = {}

\* The files that onDirtyFile was or will not be called for any more.
Settled == IF pc = "done" THEN Files ELSE {f \in Seen : ~Spread(f)}

\* A file's clusters are selected, or it is excluded and they are set aside.
OneSide(f) ==
  \/ RunsOf(f) \subseteq srcDiff /\ RunsOf(f) \cap srcDiffSkipped = {}
  \/ Excluded(f) /\ RunsOf(f) \subseteq srcDiffSkipped /\ RunsOf(f) \cap srcDiff = {}

\* All clusters of some files.
AllRuns(S) == UNION {RunsOf(f) : f \in S}

Selection ==
  /\ srcDiff \cup srcDiffSkipped = AllRuns(Settled \cap DirtyFiles)
  /\ srcDiff \cap srcDiffSkipped = {}
  /\ \A f \in Settled \cap DirtyFiles : OneSide(f)

\* The entry of a settled file says which side that is. There are not more
\* entries than can be counted. (for the list of dirty files)
Listing ==
  /\ \A f \in DOMAIN filemap : f \in Settled /\ filemap[f].dirty =>
       RunsOf(f) \subseteq IF filemap[f].skip THEN srcDiffSkipped ELSE srcDiff
  /\ IsFiniteSet(DOMAIN filemap)

AtEnd == pc = "done" => n \notin Segments

IInv == /\ TypeOK /\ Given /\ InStep /\ Entries /\ SeenOnce /\ Selection
        /\ Listing /\ SamePlaces /\ AtEnd

-----------------------------------------------------------------------------
(* The runs of $MFT.                                                       *)

\* Runs lie one behind the other. (VcnMapEntry, in order)
LEMMA RunFacts ==
  ASSUME NEW map, NEW mft, Covers(map, mft)
  PROVE  /\ End(map) \in Nat
         /\ Len(map) \in Nat /\ DOMAIN map = 1 .. Len(map)
         /\ \A i \in DOMAIN map : map[i] \in MftRun
         /\ map # <<>> => /\ Len(map) \in DOMAIN map
                          /\ End(map) = map[Len(map)].vcn + map[Len(map)].len
         /\ 1 \in DOMAIN map => map[1].vcn = 0
         /\ \A i \in DOMAIN map :
              i + 1 \in DOMAIN map => map[i + 1].vcn = map[i].vcn + map[i].len
<1>1. map \in Seq(MftRun) /\ Len(map) \in Nat /\ DOMAIN map = 1 .. Len(map)
  BY DEF Covers
<1>2. \A i \in DOMAIN map : map[i] \in MftRun
  BY <1>1
<1>3. ASSUME map # <<>>
      PROVE  /\ Len(map) \in DOMAIN map
             /\ End(map) = map[Len(map)].vcn + map[Len(map)].len
  BY <1>1, <1>3 DEF End
<1>4. End(map) \in Nat
  <2>1. CASE map = <<>>
    BY <2>1 DEF End
  <2>2. CASE map # <<>>
    BY <1>2, <1>3, <2>2 DEF MftRun
  <2> QED
    BY <2>1, <2>2
<1>5. ASSUME 1 \in DOMAIN map
      PROVE  map[1].vcn = 0
  <2>1. SubSeq(map, 1, 0) = <<>>
    BY <1>1
  <2> QED
    BY <1>5, <2>1 DEF Covers, End
<1>6. ASSUME NEW i \in DOMAIN map, i + 1 \in DOMAIN map
      PROVE  map[i + 1].vcn = map[i].vcn + map[i].len
  <2> DEFINE front == SubSeq(map, 1, i)
  <2>1. i \in 1 .. Len(map)
    BY <1>1
  <2>2. front \in Seq(MftRun) /\ Len(front) = i /\ front[i] = map[i]
    BY <1>1, <2>1
  <2>3. front # <<>>
    BY <2>1, <2>2
  <2>4. End(front) = map[i].vcn + map[i].len
    BY <2>2, <2>3 DEF End
  <2>5. i + 1 - 1 = i
    BY <2>1
  <2> QED
    BY <1>6, <2>4, <2>5 DEF Covers
<1> QED
  BY <1>1, <1>2, <1>3, <1>4, <1>5, <1>6

\* A run ends before a later one begins.
LEMMA RunsAscend ==
  ASSUME NEW map, NEW mft, Covers(map, mft),
         NEW i \in DOMAIN map, NEW j \in DOMAIN map, i < j
  PROVE  map[i].vcn + map[i].len <= map[j].vcn
<1> DEFINE T == {k \in DOMAIN map : i < k /\ ~ (map[i].vcn + map[i].len <= map[k].vcn)}
<1>1. SUFFICES ASSUME T # {}
               PROVE  FALSE
  OBVIOUS
<1>2. DOMAIN map \subseteq Nat /\ T \subseteq Nat
  BY RunFacts
<1>3. PICK k \in T : \A m \in T : k <= m
  BY <1>1, <1>2, LeastNumber
<1>4. k \in Nat /\ i \in Nat /\ k \in DOMAIN map /\ i < k
  BY <1>2, <1>3
<1>5. k - 1 \in DOMAIN map
  BY <1>4, RunFacts
<1>6. map[k].vcn = map[k - 1].vcn + map[k - 1].len
  <2>1. k - 1 + 1 = k
    BY <1>4
  <2> QED
    BY <1>4, <1>5, <2>1, RunFacts
<1>7. /\ map[i].vcn \in Nat /\ map[i].len \in Nat
      /\ map[k].vcn \in Nat /\ map[k - 1].vcn \in Nat /\ map[k - 1].len \in Nat
  BY <1>4, <1>5, RunFacts DEF MftRun
<1>8. CASE k - 1 = i
  BY <1>3, <1>6, <1>7, <1>8
<1>9. CASE k - 1 # i
  <2>1. k - 1 \notin T
    BY <1>3, <1>4
  <2>2. map[i].vcn + map[i].len <= map[k - 1].vcn
    BY <1>4, <1>5, <1>9, <2>1
  <2> QED
    BY <1>3, <1>6, <1>7, <2>2
<1> QED
  BY <1>8, <1>9

\* That segment vcn of $MFT is in run j.
InRun(map, j, vcn) == vcn \in map[j].vcn .. map[j].vcn + map[j].len - 1

\* Every segment of $MFT is in one run. (getSegmentLcn, by way of the map)
LEMMA RunOf ==
  ASSUME NEW map, NEW mft, Covers(map, mft), NEW vcn \in DOMAIN mft
  PROVE  \E j \in DOMAIN map :
           /\ InRun(map, j, vcn)
           /\ \A k \in DOMAIN map : InRun(map, k, vcn) => k = j
<1> DEFINE T == {j \in DOMAIN map : vcn < map[j].vcn + map[j].len}
<1>1. vcn \in Nat /\ vcn < End(map) /\ End(map) \in Nat
  <2>1. End(map) \in Nat
    BY RunFacts
  <2>2. vcn \in 0 .. End(map) - 1
    BY DEF Covers
  <2> QED
    BY <2>1, <2>2
<1>2. map # <<>>
  BY <1>1 DEF End
<1>3. T \subseteq Nat /\ Len(map) \in T
  BY <1>1, <1>2, RunFacts
<1>4. PICK j \in T : \A m \in T : j <= m
  <2> HIDE DEF T
  <2> QED
    BY <1>3, LeastNumber
<1>5. j \in Nat /\ j >= 1 /\ j \in DOMAIN map /\ map[j] \in MftRun
  BY <1>4, RunFacts
<1>6. map[j].vcn <= vcn
  <2>1. CASE j = 1
    BY <1>1, <1>5, <2>1, RunFacts
  <2>2. CASE j # 1
    <3>1. j - 1 \in DOMAIN map /\ j - 1 + 1 = j /\ ~ (j <= j - 1)
      BY <1>5, <2>2, RunFacts
    <3>2. map[j].vcn = map[j - 1].vcn + map[j - 1].len
      BY <1>5, <3>1, RunFacts
    <3>3. ~ (vcn < map[j - 1].vcn + map[j - 1].len)
      BY <1>4, <3>1
    <3>4. map[j].vcn \in Nat
      BY <1>5 DEF MftRun
    <3> QED
      BY <1>1, <3>2, <3>3, <3>4
  <2> QED
    BY <2>1, <2>2
<1>7. InRun(map, j, vcn)
  BY <1>1, <1>4, <1>5, <1>6 DEF MftRun, InRun
<1>8. ASSUME NEW k \in DOMAIN map, InRun(map, k, vcn)
      PROVE  k = j
  <2>1. k \in Nat /\ map[k] \in MftRun
    BY RunFacts
  <2>2. map[k].vcn <= vcn /\ vcn < map[k].vcn + map[k].len
    BY <1>1, <1>8, <2>1 DEF MftRun, InRun
  <2>3. ~ (k < j)
    BY <1>4, <1>5, <2>1, <2>2
  <2>4. ~ (j < k)
    <3>1. j < k => map[j].vcn + map[j].len <= map[k].vcn
      BY <1>5, RunsAscend
    <3> QED
      BY <1>1, <1>4, <1>5, <2>1, <2>2, <3>1 DEF MftRun
  <2> QED
    BY <1>5, <2>1, <2>3, <2>4
<1> QED
  BY <1>5, <1>7, <1>8

LEMMA PlaceIs ==
  ASSUME NEW map, NEW mft, Covers(map, mft), NEW vcn \in DOMAIN mft,
         NEW j \in DOMAIN map, InRun(map, j, vcn)
  PROVE  PlaceOf(map, vcn) = map[j].lcn + vcn - map[j].vcn
<1>1. PICK i \in DOMAIN map : /\ InRun(map, i, vcn)
                              /\ \A k \in DOMAIN map : InRun(map, k, vcn) => k = i
  BY RunOf
<1>2. (CHOOSE k \in DOMAIN map : InRun(map, k, vcn)) = j
  BY <1>1
<1> QED
  BY <1>2 DEF PlaceOf, InRun

LEMMA VolumeFacts ==
  ASSUME Given
  PROVE  /\ Covers(vol.srcMap, vol.src) /\ Covers(vol.dstMap, vol.dst)
         /\ End(vol.srcMap) \in Nat /\ End(vol.dstMap) \in Nat
         /\ DOMAIN vol.src = 0 .. End(vol.srcMap) - 1
         /\ DOMAIN vol.dst = 0 .. End(vol.dstMap) - 1
         /\ 0 \in DOMAIN vol.src /\ 0 \in DOMAIN vol.dst
         /\ \A s \in DOMAIN vol.src : vol.src[s] \in Segment
         /\ \A s \in DOMAIN vol.dst : vol.dst[s] \in Segment
<1>1. Covers(vol.srcMap, vol.src) /\ Covers(vol.dstMap, vol.dst)
  BY VolumesAssumption DEF Given
<1>2. End(vol.srcMap) \in Nat /\ End(vol.dstMap) \in Nat
  BY <1>1, RunFacts
<1> QED
  BY <1>1, <1>2, VolumesAssumption DEF Given, Covers

LEMMA VolumeSizes ==
  ASSUME Given
  PROVE  /\ Cardinality(Segments) = End(vol.srcMap)
         /\ Cardinality(DOMAIN vol.dst) = End(vol.dstMap)
<1>1. \A k \in Nat : Cardinality(0 .. k - 1) = k
  <2> TAKE k \in Nat
  <2>1. CASE k = 0
    BY <2>1, FS_EmptySet
  <2>2. CASE k # 0
    BY <2>2, FS_Interval
  <2> QED
    BY <2>1, <2>2
<1> QED
  BY <1>1, VolumeFacts DEF Segments

\* What verifyMftRunsCompatible lets through can be copied in place.
LEMMA CompatiblePlaces ==
  ASSUME Given, MftRunsCompatible, NEW s \in DOMAIN vol.dst
  PROVE  s \in Segments /\ PlaceOf(vol.srcMap, s) = PlaceOf(vol.dstMap, s)
<1> DEFINE src == vol.srcMap
           dst == vol.dstMap
<1>1. Covers(src, vol.src) /\ Covers(dst, vol.dst)
  BY VolumeFacts
<1>2. PICK j \in DOMAIN dst : InRun(dst, j, s)
  BY <1>1, RunOf
<1>3. /\ Len(src) \in Nat /\ Len(dst) \in Nat /\ Len(src) >= Len(dst)
      /\ DOMAIN src = 1 .. Len(src) /\ DOMAIN dst = 1 .. Len(dst)
  BY <1>1, RunFacts DEF MftRunsCompatible
<1>4. j \in DOMAIN src
  BY <1>3
<1>5. src[j] \in MftRun /\ dst[j] \in MftRun
  BY <1>1, <1>4, RunFacts
<1>6. src[j].lcn = dst[j].lcn /\ src[j].vcn = dst[j].vcn /\ src[j].len >= dst[j].len
  <2>1. src[j].len = dst[j].len \/ src[j].len >= dst[j].len
    BY DEF MftRunsCompatible, LongEnough
  <2> QED
    BY <1>5, <2>1 DEF MftRunsCompatible, MftRun
<1>7. s \in Nat
  BY VolumeFacts
<1>8. InRun(src, j, s)
  BY <1>2, <1>5, <1>6, <1>7 DEF InRun, MftRun
<1>9. s \in Segments
  <2>1. src # <<>> /\ Len(src) \in DOMAIN src
    BY <1>3, <1>4
  <2>2. End(src) = src[Len(src)].vcn + src[Len(src)].len /\ src[Len(src)] \in MftRun
    BY <1>1, <2>1, RunFacts
  <2>3. j = Len(src) \/ src[j].vcn + src[j].len <= src[Len(src)].vcn
    BY <1>1, <1>3, <1>4, <2>1, RunsAscend
  <2>4. s < src[j].vcn + src[j].len
    BY <1>5, <1>7, <1>8 DEF InRun, MftRun
  <2>5. s < End(src)
    <3> HIDE DEF src
    <3> QED
      BY <1>5, <1>7, <2>2, <2>3, <2>4 DEF MftRun
  <2> QED
    BY <1>7, <2>5, VolumeFacts DEF Segments
<1>10. PlaceOf(src, s) = src[j].lcn + s - src[j].vcn
  BY <1>1, <1>4, <1>8, <1>9, PlaceIs DEF Segments
<1>11. PlaceOf(dst, s) = dst[j].lcn + s - dst[j].vcn
  BY <1>1, <1>2, PlaceIs
<1> QED
  BY <1>6, <1>9, <1>10, <1>11

-----------------------------------------------------------------------------
(* Files and their segments.                                               *)

LEMMA SegmentFacts ==
  ASSUME Given
  PROVE  /\ \A s \in Live(vol.src) : s \in Nat /\ s \in Segments /\ vol.src[s].live
         /\ None \notin Live(vol.src)
         /\ \A s \in Segments : vol.src[s].live => s \in Live(vol.src)
BY VolumeFacts, SettingsAssumption DEF Live, Segments

\* A file is known by its base segment, and all its segments or none name an
\* $ATTRIBUTE_LIST. (getBaseSegmentIndex)
LEMMA FileFacts ==
  ASSUME Given, NEW s \in Live(vol.src)
  PROVE  LET f == FileOf(s, vol.src[s])
         IN /\ f \in Live(vol.src) /\ FileOf(f, vol.src[f]) = f
            /\ Spread(s) <=> Spread(f)
            /\ ~ Spread(s) => f = s
<1>1. s \in DOMAIN vol.src /\ vol.src[s].live /\ s # None
  BY SegmentFacts DEF Segments
<1>2. CASE vol.src[s].base # None
  <2> DEFINE b == vol.src[s].base
  <2>1. b \in DOMAIN vol.src /\ vol.src[b].live /\ vol.src[b].list /\ vol.src[b].base = None
    BY <1>1, <1>2, VolumesAssumption DEF Given
  <2>2. b \in Live(vol.src) /\ b # None
    BY <2>1, SegmentFacts DEF Live
  <2> QED
    BY <1>2, <2>1, <2>2 DEF FileOf, BaseOf, Spread
<1>3. CASE vol.src[s].base = None
  BY <1>1, <1>3 DEF FileOf, BaseOf, Spread
<1> QED
  BY <1>2, <1>3

LEMMA FilesAre ==
  ASSUME Given, NEW f \in Files
  PROVE  /\ f \in Live(vol.src) /\ f \in PartsOf(f)
         /\ \A s \in PartsOf(f) : s \in Live(vol.src) /\ (Spread(s) <=> Spread(f))
         /\ ~ Spread(f) => PartsOf(f) = {f} /\ RunsOf(f) = vol.src[f].runs
<1>1. PICK t \in Live(vol.src) : f = FileOf(t, vol.src[t])
  BY DEF Files
<1>2. f \in Live(vol.src) /\ FileOf(f, vol.src[f]) = f
  BY <1>1, FileFacts
<1>3. f \in PartsOf(f)
  BY <1>2 DEF PartsOf
<1>4. ASSUME NEW s \in PartsOf(f)
      PROVE  s \in Live(vol.src) /\ (Spread(s) <=> Spread(f)) /\ (~ Spread(f) => s = f)
  <2>1. s \in Live(vol.src) /\ FileOf(s, vol.src[s]) = f
    BY DEF PartsOf
  <2> QED
    BY <2>1, FileFacts
<1>5. ASSUME ~ Spread(f)
      PROVE  PartsOf(f) = {f} /\ RunsOf(f) = vol.src[f].runs
  <2>1. PartsOf(f) = {f}
    BY <1>3, <1>4, <1>5
  <2> QED
    BY <2>1 DEF RunsOf
<1> QED
  BY <1>2, <1>3, <1>4, <1>5

LEMMA FileIsFile ==
  ASSUME Given, NEW s \in Live(vol.src)
  PROVE  FileOf(s, vol.src[s]) \in Files /\ s \in PartsOf(FileOf(s, vol.src[s]))
BY DEF Files, PartsOf

LEMMA SeenOf ==
  ASSUME NEW s, NEW f, s \in SeenParts(f)
  PROVE  /\ s \in Seen /\ s \in Live(vol.src) /\ s < n
         /\ FileOf(s, vol.src[s]) = f /\ s \in PartsOf(f)
BY DEF SeenParts, Seen, PartsOf

\* Volumes and options stay what they are during a pass.
LEMMA Constant ==
  ASSUME UNCHANGED <<vol, opts>>
  PROVE  /\ Live(vol.src)' = Live(vol.src) /\ Files' = Files /\ DirtyFiles' = DirtyFiles
         /\ \A s : /\ Suspect(s)' <=> Suspect(s)
                   /\ Spread(s)' <=> Spread(s)
                   /\ Excluded(s)' <=> Excluded(s)
                   /\ RunsOf(s)' = RunsOf(s)
                   /\ PartsOf(s)' = PartsOf(s)
                   /\ AllRuns(s)' = AllRuns(s)
<1>1. Live(vol.src)' = Live(vol.src)
  BY DEF Live
<1>2. Files' = Files
  BY <1>1 DEF Files
<1>3. \A s : Suspect(s)' <=> Suspect(s)
  BY DEF Suspect
<1>4. \A s : Spread(s)' <=> Spread(s)
  BY DEF Spread
<1>5. \A s : PartsOf(s)' = PartsOf(s)
  BY <1>1 DEF PartsOf
<1>6. \A s : RunsOf(s)' = RunsOf(s)
  BY <1>5 DEF RunsOf
<1>7. \A s : Excluded(s)' <=> Excluded(s)
  BY <1>5 DEF Excluded, BelowSkipRoot
<1>8. DirtyFiles' = DirtyFiles
  BY <1>2, <1>3, <1>5 DEF DirtyFiles
<1> QED
  BY <1>1, <1>2, <1>3, <1>4, <1>5, <1>6, <1>7, <1>8 DEF AllRuns

\* The segments seen after the next one.
LEMMA NextSeen ==
  ASSUME Given, TypeOK, n \in Segments, n' = n + 1, UNCHANGED <<vol, opts>>
  PROVE  /\ n \notin Seen
         /\ Seen' = IF Seg.live THEN Seen \cup {n} ELSE Seen
         /\ \A f : SeenParts(f)' = IF Seg.live /\ FileOf(n, Seg) = f
                                   THEN SeenParts(f) \cup {n} ELSE SeenParts(f)
<1>1. n \in Nat /\ \A s \in Live(vol.src) : s \in Nat
  BY SegmentFacts, VolumeFacts DEF Segments
<1>2. n \notin Seen
  BY <1>1 DEF Seen
<1>3. Seg.live <=> n \in Live(vol.src)
  BY DEF Seg, Live, Segments
<1>4. \A s : s \in Seen' <=> s \in Seen \/ (s = n /\ Seg.live)
  <2>1. \A s \in Live(vol.src) : s < n + 1 <=> s < n \/ s = n
    BY <1>1
  <2> QED
    BY <1>3, <2>1, Constant DEF Seen
<1>5. Seen' = IF Seg.live THEN Seen \cup {n} ELSE Seen
  BY <1>4
<1>6. ASSUME NEW f
      PROVE  SeenParts(f)' = IF Seg.live /\ FileOf(n, Seg) = f
                             THEN SeenParts(f) \cup {n} ELSE SeenParts(f)
  <2>1. \A s : s \in SeenParts(f)' <=> s \in Seen' /\ FileOf(s, vol.src[s]) = f
    BY DEF SeenParts
  <2>2. \A s : s \in SeenParts(f) <=> s \in Seen /\ FileOf(s, vol.src[s]) = f
    BY DEF SeenParts
  <2>3. FileOf(n, vol.src[n]) = FileOf(n, Seg)
    BY DEF Seg
  <2>4. \A s : s \in SeenParts(f)' <=>
               \/ s \in SeenParts(f)
               \/ s = n /\ Seg.live /\ FileOf(n, Seg) = f
    BY <1>4, <2>1, <2>2, <2>3
  <2>5. CASE Seg.live /\ FileOf(n, Seg) = f
    BY <2>4, <2>5
  <2>6. CASE ~ (Seg.live /\ FileOf(n, Seg) = f)
    BY <2>4, <2>6
  <2> QED
    BY <2>5, <2>6
<1> QED
  BY <1>2, <1>5, <1>6

-----------------------------------------------------------------------------
(* What the pass finds in a segment.                                       *)

\* A name that is a reason is seen, or an earlier one is a reason itself.
LEMMA NamesSeen ==
  ASSUME Given, n \in Segments, ~ Compared
  PROVE  DirtyByName <=> \E k \in DOMAIN Seg.parents : Seg.parents[k] \in DirtyRoots(opts)
<1> DEFINE T == {k \in DOMAIN Seg.parents : Seg.parents[k] \in DirtyRoots(opts)}
<1>1. Seg.parents \in Seq(Nat)
  BY VolumeFacts DEF Seg, Segment, Segments
<1>2. DOMAIN Seg.parents = 1 .. Len(Seg.parents) /\ Len(Seg.parents) \in Nat
  BY <1>1
<1>3. ASSUME T # {}
      PROVE  DirtyByName
  <2>1. T \subseteq Nat
    BY <1>2
  <2>2. PICK k \in T : \A m \in T : k <= m
    <3> HIDE DEF T
    <3> QED
      BY <1>3, <2>1, LeastNumber
  <2>3. \A j \in 1 .. k - 1 : Seg.parents[j] \notin DirtyRoots(opts)
    BY <1>2, <2>2
  <2> QED
    BY <2>2, <2>3 DEF DirtyByName, NameSeen
<1> QED
  BY <1>3 DEF DirtyByName

\* Each segment is compared with that of its number, and is dirty if it gives a
\* reason to take its file for changed. (processValidSegment)
LEMMA DirtyIsSuspect ==
  ASSUME Given, TypeOK, InStep, n \in Segments
  PROVE  /\ DestNow = IF n <= End(vol.dstMap) THEN n ELSE End(vol.dstMap)
         /\ SegmentDirty <=> Suspect(n)
<1> DEFINE D == End(vol.dstMap)
<1>1. /\ n \in Nat /\ D \in Nat /\ D > 0
      /\ DOMAIN vol.dst = 0 .. D - 1
  BY VolumeFacts DEF Segments
<1>2. DestNow = IF n <= D THEN n ELSE D
  <2>1. destAt = IF n = 0 THEN 0 ELSE IF n <= D THEN n - 1 ELSE D
    BY DEF InStep
  <2> HIDE DEF D
  <2> QED
    BY <1>1, <2>1 DEF DestNow
<1>3. /\ DestNow \in DOMAIN vol.dst <=> n \in DOMAIN vol.dst
      /\ n \in DOMAIN vol.dst => DestNow = n
  <2> HIDE DEF D
  <2> QED
    BY <1>1, <1>2
<1>4. Compared <=> \/ n \notin DOMAIN vol.dst
                   \/ Seg # [vol.dst[n] EXCEPT !.usn = Seg.usn]
                   \/ ~ opts.ignoreFixup /\ Seg.usn # vol.dst[n].usn
  <2>1. CASE n \notin DOMAIN vol.dst
    BY <1>3, <2>1 DEF Compared
  <2>2. CASE n \in DOMAIN vol.dst
    BY <1>3, <2>2 DEF Compared
  <2> QED
    BY <2>1, <2>2
<1>5. SegmentDirty <=> Suspect(n)
  <2>1. Suspect(n) <=>
          \/ Compared \/ DirtyByIndex
          \/ \E k \in DOMAIN Seg.parents : Seg.parents[k] \in DirtyRoots(opts)
    BY <1>4 DEF Suspect, Seg, DirtyByIndex
  <2>2. CASE Compared
    BY <2>1, <2>2 DEF SegmentDirty
  <2>3. CASE ~ Compared
    BY <2>1, <2>3, NamesSeen DEF SegmentDirty
  <2> QED
    BY <2>2, <2>3
<1> QED
  BY <1>2, <1>5

\* The share of a file that has none of its segments in one entry.
LEMMA NoneBefore ==
  ASSUME Given, Entries, n \in Live(vol.src), NEW f, f = FileOf(n, vol.src[n]),
         f \notin DOMAIN filemap
  PROVE  SeenParts(f) = {}
<1>1. SUFFICES ASSUME NEW s \in SeenParts(f)
               PROVE  FALSE
  OBVIOUS
<1>2. s \in Seen /\ s \in Live(vol.src) /\ s < n /\ FileOf(s, vol.src[s]) = f
  BY SeenOf
<1>3. ~ Spread(s)
  BY <1>2 DEF Entries
<1>4. s = f /\ ~ Spread(f)
  BY <1>2, <1>3, FileFacts
<1>5. n = f
  BY <1>4, FileFacts
<1>6. n \in Nat
  BY SegmentFacts
<1> QED
  BY <1>2, <1>4, <1>5, <1>6

\* The entry found, or a fresh one, sums up what was met of the file.
LEMMA FoundFacts ==
  ASSUME Given, TypeOK, Entries, n \in Segments, Seg.live, NEW f, f = FileOf(n, Seg)
  PROVE  /\ Found \in Entry
         /\ Found.dirty <=> f \in DirtySegments(opts) \/ \E s \in SeenParts(f) : Suspect(s)
         /\ Found.skip => Excluded(f)
         /\ Found.multisegment <=> \E s \in SeenParts(f) : Spread(s)
         /\ Found.runs = SeenRuns(f)
<1>1. n \in Live(vol.src)
  BY SegmentFacts DEF Seg
<1>2. CASE f \in DOMAIN filemap
  <2>1. Found = filemap[f]
    BY <1>2 DEF Found
  <2>2. Exact(f) /\ filemap[f] \in Entry
    BY <1>2 DEF Entries, TypeOK
  <2> QED
    BY <2>1, <2>2 DEF Exact
<1>3. CASE f \notin DOMAIN filemap
  <2>1. Found = FreshEntry
    BY <1>3 DEF Found
  <2>2. SeenParts(f) = {}
    BY <1>1, <1>3, NoneBefore DEF Seg
  <2>3. f \notin DirtySegments(opts)
    BY <1>3 DEF Entries
  <2>4. SeenRuns(f) = {}
    BY <2>2 DEF SeenRuns
  <2> QED
    BY <2>1, <2>2, <2>3, <2>4 DEF FreshEntry, Entry
<1> QED
  BY <1>2, <1>3

\* With the segment's share in it, it sums that up too.
LEMMA UpdatedFacts ==
  ASSUME Given, TypeOK, InStep, Entries, n \in Segments, Seg.live,
         NEW f, f = FileOf(n, Seg)
  PROVE  /\ Updated \in Entry
         /\ Updated.dirty <=> \/ f \in DirtySegments(opts)
                              \/ \E s \in SeenParts(f) \cup {n} : Suspect(s)
         /\ Updated.skip => Excluded(f)
         /\ Updated.multisegment <=> \E s \in SeenParts(f) \cup {n} : Spread(s)
         /\ Updated.runs = SeenRuns(f) \cup Seg.runs
<1>1. n \in Live(vol.src) /\ Seg = vol.src[n]
  BY SegmentFacts DEF Seg
<1>2. Seg.runs \subseteq Clusters
  BY VolumeFacts DEF Seg, Segment, Segments
<1>3. SkipByName => Excluded(f)
  <2>1. n \in PartsOf(f)
    BY <1>1, FileIsFile
  <2> QED
    BY <1>1, <2>1 DEF SkipByName, Excluded, BelowSkipRoot
<1>4. (BaseOf(n, Seg) # None) <=> Spread(n)
  BY <1>1 DEF Spread
<1>5. /\ Updated.dirty <=> Found.dirty \/ SegmentDirty
      /\ Updated.skip <=> Found.skip \/ SkipByName
      /\ Updated.multisegment <=> Found.multisegment \/ Spread(n)
      /\ Updated.runs = Found.runs \cup Seg.runs
  BY <1>4 DEF Updated
<1>6. Updated \in Entry
  <2>1. Found.runs \subseteq Clusters
    BY FoundFacts DEF Entry
  <2> QED
    BY <1>2, <2>1 DEF Updated, Entry
<1>7. Updated.dirty <=> \/ f \in DirtySegments(opts)
                        \/ \E s \in SeenParts(f) \cup {n} : Suspect(s)
  BY <1>5, FoundFacts, DirtyIsSuspect
<1> QED
  BY <1>3, <1>5, <1>6, <1>7, FoundFacts

-----------------------------------------------------------------------------
(* The invariant is kept.                                                  *)

\* A file in one segment is settled with it, and has no clusters but those.
LEMMA SettledFacts ==
  ASSUME Given, NEW f \in Live(vol.src), ~ Spread(f)
  PROVE  /\ f \in Files /\ FileOf(f, vol.src[f]) = f
         /\ PartsOf(f) = {f} /\ RunsOf(f) = vol.src[f].runs
<1>1. FileOf(f, vol.src[f]) = f
  BY FileFacts
<1>2. f \in Files
  BY <1>1, FileIsFile
<1> QED
  BY <1>1, <1>2, FilesAre

LEMMA InitHolds == Init => IInv
<1> SUFFICES ASSUME Init
             PROVE  IInv
  OBVIOUS
<1>1. Given
  BY DEF Init, Given
<1>2. /\ n = 0 /\ destAt = 0 /\ pc = "init"
      /\ filemap = Presets(opts) /\ srcUsed = {} /\ srcDiff = {} /\ srcDiffSkipped = {}
  BY DEF Init
<1>3. Seen = {}
  <2>1. \A s \in Live(vol.src) : s \in Nat
    BY <1>1, SegmentFacts
  <2> QED
    BY <1>2, <2>1 DEF Seen
<1>4. \A f : SeenParts(f) = {} /\ SeenRuns(f) = {}
  BY <1>3 DEF SeenParts, SeenRuns
<1>5. DOMAIN filemap = DirtySegments(opts) \cup opts.skipSegments
  BY <1>2 DEF Presets
<1>6. \A f \in DOMAIN filemap :
        /\ filemap[f] \in Entry
        /\ filemap[f].dirty <=> f \in DirtySegments(opts)
        /\ filemap[f].skip <=> f \in opts.skipSegments
        /\ filemap[f].multisegment = FALSE /\ filemap[f].runs = {}
  <2> TAKE f \in DOMAIN filemap
  <2>1. PICK dirty \in BOOLEAN : dirty <=> f \in DirtySegments(opts)
    OBVIOUS
  <2>2. PICK skip \in BOOLEAN : skip <=> f \in opts.skipSegments
    OBVIOUS
  <2>3. (f \in DirtySegments(opts)) = dirty /\ (f \in opts.skipSegments) = skip
    BY <2>1, <2>2
  <2>4. filemap[f] = [FreshEntry EXCEPT !.dirty = f \in DirtySegments(opts),
                                        !.skip  = f \in opts.skipSegments]
    BY <1>2, <1>5 DEF Presets
  <2>5. filemap[f] = [FreshEntry EXCEPT !.dirty = dirty, !.skip = skip]
    BY <2>3, <2>4
  <2>6. filemap[f] = [dirty |-> dirty, skip |-> skip, multisegment |-> FALSE, runs |-> {}]
    BY <2>5 DEF FreshEntry
  <2>7. /\ filemap[f].dirty = dirty /\ filemap[f].skip = skip
        /\ filemap[f].multisegment = FALSE /\ filemap[f].runs = {}
    BY <2>6
  <2>8. filemap[f] \in Entry
    BY <2>6 DEF Entry
  <2> QED
    BY <2>1, <2>2, <2>7, <2>8
<1>7. TypeOK
  <2>1. DOMAIN filemap \subseteq Nat
    BY <1>1, <1>5, SettingsAssumption DEF Given, DirtySegments
  <2>2. n \in 0 .. Cardinality(Segments) /\ destAt \in 0 .. Cardinality(DOMAIN vol.dst)
    <3>1. Cardinality(Segments) \in Nat /\ Cardinality(DOMAIN vol.dst) \in Nat
      BY <1>1, VolumeFacts, VolumeSizes
    <3> QED
      BY <1>2, <3>1
  <2> QED
    BY <1>2, <1>6, <2>1, <2>2 DEF TypeOK
<1>8. InStep
  BY <1>2 DEF InStep
<1>9. Entries
  <2>1. ASSUME NEW f \in DOMAIN filemap
        PROVE  Exact(f)
    BY <1>4, <1>6 DEF Exact, Excluded
  <2> QED
    BY <1>3, <1>5, <2>1 DEF Entries
<1>10. SeenOnce
  BY <1>2, <1>3 DEF SeenOnce
<1>11. Selection
  <2>1. Settled = {}
    BY <1>2, <1>3 DEF Settled
  <2> QED
    BY <1>2, <2>1 DEF Selection, AllRuns
<1>12. SamePlaces /\ AtEnd
  BY <1>2 DEF SamePlaces, AtEnd
<1>13. Listing
  <2>1. IsFiniteSet(SystemFiles) /\ IsFiniteSet(opts.dirtySegments \cup opts.skipSegments)
    BY <1>1, SettingsAssumption DEF Given
  <2>2. DOMAIN filemap = SystemFiles \cup (opts.dirtySegments \cup opts.skipSegments)
    BY <1>5 DEF DirtySegments
  <2>3. IsFiniteSet(DOMAIN filemap)
    BY <2>1, <2>2, FS_Union
  <2>4. Settled = {}
    BY <1>2, <1>3 DEF Settled
  <2> QED
    BY <2>3, <2>4 DEF Listing
<1> QED
  BY <1>1, <1>7, <1>8, <1>9, <1>10, <1>11, <1>12, <1>13 DEF IInv

\* A step that only says whether the pass goes on.
LEMMA VerdictStep ==
  ASSUME IInv, pc # "done", pc' \in {"scan", "thrown"},
         UNCHANGED <<vol, opts, n, destAt, filemap, srcUsed, srcDiff, srcDiffSkipped>>,
         SamePlaces'
  PROVE  IInv'
<1>1. Seen' = Seen
  BY Constant DEF Seen
<1>2. \A f : SeenParts(f)' = SeenParts(f)
  BY <1>1 DEF SeenParts
<1>3. \A f : SeenRuns(f)' = SeenRuns(f)
  BY <1>2 DEF SeenRuns
<1>4. TypeOK'
  BY DEF IInv, TypeOK, Segments, Entry
<1>5. Given' /\ InStep' /\ AtEnd'
  BY DEF IInv, Given, InStep, AtEnd
<1>6. Entries'
  <2>1. ASSUME NEW f \in DOMAIN filemap
        PROVE  Exact(f)'
    BY <1>2, <1>3, Constant DEF IInv, Entries, Exact, DirtySegments
  <2> QED
    BY <1>1, <2>1, Constant DEF IInv, Entries, DirtySegments
<1>7. SeenOnce'
  BY <1>1 DEF IInv, SeenOnce
<1>8. Settled' = Settled
  BY <1>1, Constant DEF Settled
<1>9. \A f : OneSide(f)' <=> OneSide(f)
  BY Constant DEF OneSide
<1>10. Selection'
  BY <1>8, <1>9, Constant DEF IInv, Selection
<1>11. Listing'
  BY <1>8, Constant DEF IInv, Listing
<1> QED
  BY <1>4, <1>5, <1>6, <1>7, <1>10, <1>11 DEF IInv

LEMMA ScanInitStep == IInv /\ ScanInit => IInv'
<1> SUFFICES ASSUME IInv, ScanInit
             PROVE  IInv'
  OBVIOUS
<1>1. UNCHANGED <<vol, opts, n, destAt, filemap, srcUsed, srcDiff, srcDiffSkipped>>
  BY DEF ScanInit
<1>2. pc # "done" /\ pc' \in {"scan", "thrown"}
  BY DEF ScanInit
<1>3. SamePlaces'
  <2>1. pc' = "scan" => MftRunsCompatible
    BY DEF ScanInit
  <2> QED
    BY <1>1, <1>2, <2>1, CompatiblePlaces DEF IInv, SamePlaces, Segments
<1> QED
  BY <1>1, <1>2, <1>3, VerdictStep

LEMMA AssertionFailsStep == IInv /\ AssertionFails => IInv'
<1> SUFFICES ASSUME IInv, AssertionFails
             PROVE  IInv'
  OBVIOUS
<1>1. UNCHANGED <<vol, opts, n, destAt, filemap, srcUsed, srcDiff, srcDiffSkipped>>
  BY DEF AssertionFails
<1>2. pc # "done" /\ pc' \in {"scan", "thrown"} /\ SamePlaces'
  BY DEF AssertionFails, Scanning, SamePlaces
<1> QED
  BY <1>1, <1>2, VerdictStep

\* Both iterators take their step. (MftScan::scan)
LEMMA Advance ==
  ASSUME IInv, Scanning, n' = n + 1, destAt' = DestNow, UNCHANGED <<vol, opts, pc>>
  PROVE  /\ Given' /\ InStep' /\ SamePlaces' /\ AtEnd'
         /\ n' \in 0 .. Cardinality(Segments) /\ destAt' \in 0 .. Cardinality(DOMAIN vol.dst)
<1>1. /\ End(vol.srcMap) \in Nat /\ End(vol.dstMap) \in Nat
      /\ Segments = 0 .. End(vol.srcMap) - 1 /\ DOMAIN vol.dst = 0 .. End(vol.dstMap) - 1
  BY VolumeFacts DEF IInv, Segments
<1>2. n \in Nat /\ n < End(vol.srcMap) /\ n \in Segments
  BY <1>1 DEF Scanning
<1>3. Cardinality(Segments) = End(vol.srcMap) /\ Cardinality(DOMAIN vol.dst) = End(vol.dstMap)
  BY <1>1, VolumeSizes DEF IInv
<1>4. destAt' = IF n <= End(vol.dstMap) THEN n ELSE End(vol.dstMap)
  BY <1>2, DirtyIsSuspect DEF IInv
<1>5. InStep'
  <2>1. n' # 0 /\ (n' <= End(vol.dstMap) <=> n < End(vol.dstMap)) /\ n' - 1 = n
    BY <1>1, <1>2
  <2>2. destAt' = IF n' = 0 THEN 0
                  ELSE IF n' <= End(vol.dstMap) THEN n' - 1 ELSE End(vol.dstMap)
    BY <1>1, <1>2, <1>4, <2>1
  <2> QED
    BY <2>2 DEF InStep
<1>6. n' \in 0 .. Cardinality(Segments) /\ destAt' \in 0 .. Cardinality(DOMAIN vol.dst)
  BY <1>1, <1>2, <1>3, <1>4
<1>7. Given' /\ SamePlaces' /\ AtEnd'
  BY DEF IInv, Given, Scanning, SamePlaces, AtEnd, Segments
<1> QED
  BY <1>5, <1>6, <1>7

LEMMA PassSegmentStep == IInv /\ PassSegment => IInv'
<1> SUFFICES ASSUME IInv, PassSegment
             PROVE  IInv'
  OBVIOUS
<1>1. /\ Scanning /\ ~ Seg.live /\ n' = n + 1 /\ destAt' = DestNow
      /\ UNCHANGED <<vol, opts, filemap, srcUsed, srcDiff, srcDiffSkipped, pc>>
  BY DEF PassSegment
<1>2. n \in Segments /\ pc = "scan"
  BY <1>1 DEF Scanning
<1>3. Seen' = Seen /\ \A f : SeenParts(f)' = SeenParts(f)
  BY <1>1, <1>2, NextSeen DEF IInv
<1>4. \A f : SeenRuns(f)' = SeenRuns(f)
  BY <1>1, <1>3 DEF SeenRuns
<1>5. Given' /\ InStep' /\ SamePlaces' /\ AtEnd'
  BY <1>1, Advance
<1>6. TypeOK'
  <2>1. n' \in 0 .. Cardinality(Segments) /\ destAt' \in 0 .. Cardinality(DOMAIN vol.dst)
    BY <1>1, Advance
  <2> QED
    BY <1>1, <2>1 DEF IInv, TypeOK, Segments, Entry
<1>7. Entries'
  <2>1. ASSUME NEW f \in DOMAIN filemap
        PROVE  Exact(f)'
    BY <1>1, <1>3, <1>4, Constant DEF IInv, Entries, Exact, DirtySegments
  <2> QED
    BY <1>1, <1>3, <2>1, Constant DEF IInv, Entries, DirtySegments
<1>8. SeenOnce'
  BY <1>1, <1>3 DEF IInv, SeenOnce
<1>9. Settled' = Settled
  BY <1>1, <1>3, Constant DEF Settled
<1>10. \A f : OneSide(f)' <=> OneSide(f)
  BY <1>1, Constant DEF OneSide
<1>11. Selection'
  BY <1>1, <1>9, <1>10, Constant DEF IInv, Selection
<1>12. Listing'
  BY <1>1, <1>9, Constant DEF IInv, Listing
<1> QED
  BY <1>5, <1>6, <1>7, <1>8, <1>11, <1>12 DEF IInv

\* The segment's cluster are new, or the pass stops. (processAttributes)
LEMMA SeenOnceStep ==
  ASSUME SeenOnce, Given, n \in Live(vol.src), n \notin Seen, Seen' = Seen \cup {n},
         UNCHANGED vol, srcUsed \cap vol.src[n].runs = {},
         srcUsed' = srcUsed \cup vol.src[n].runs
  PROVE  SeenOnce'
<1>1. srcUsed' = UNION {vol.src[s].runs : s \in Seen \cup {n}}
  <2>1. \A c : c \in srcUsed <=> \E s \in Seen : c \in vol.src[s].runs
    BY DEF SeenOnce
  <2> QED
    BY <2>1
<1>2. ASSUME NEW s \in Seen
      PROVE  vol.src[s].runs \cap vol.src[n].runs = {}
  <2>1. vol.src[s].runs \subseteq srcUsed
    BY DEF SeenOnce
  <2> QED
    BY <2>1
<1>3. \A s, t \in Seen \cup {n} : s # t => vol.src[s].runs \cap vol.src[t].runs = {}
  BY <1>2 DEF SeenOnce
<1> QED
  BY <1>1, <1>3 DEF SeenOnce

\* The entry that is kept, if one is. (selectSegmentEntry)
LEMMA EntriesStep ==
  ASSUME IInv, Scanning, Seg.live, n' = n + 1, filemap' = Stored(Updated),
         UNCHANGED <<vol, opts>>
  PROVE  /\ Entries' /\ \A f \in DOMAIN filemap' : filemap'[f] \in Entry
         /\ DOMAIN filemap' \subseteq Nat /\ DOMAIN filemap' \subseteq DOMAIN filemap \cup {FileOf(n, Seg)}
         /\ \A f \in DOMAIN filemap' :
              filemap'[f] = IF f = FileOf(n, Seg) THEN Updated ELSE filemap[f]
<1> DEFINE file == FileOf(n, Seg)
<1>1. n \in Segments /\ n \in Live(vol.src) /\ Seg = vol.src[n]
  BY SegmentFacts DEF Scanning, Seg, IInv
<1>2. file \in Live(vol.src) /\ file \in Nat
  BY <1>1, FileFacts, SegmentFacts DEF IInv
<1>3. Seen' = Seen \cup {n}
  BY <1>1, NextSeen DEF IInv
<1>4. \A f : SeenParts(f)' = IF f = file THEN SeenParts(f) \cup {n} ELSE SeenParts(f)
  BY <1>1, NextSeen DEF IInv
<1>5. \A f : SeenRuns(f)' = IF f = file THEN SeenRuns(f) \cup Seg.runs ELSE SeenRuns(f)
  <2> TAKE f
  <2>1. CASE f = file
    <3>1. SeenParts(f)' = SeenParts(f) \cup {n}
      BY <1>4, <2>1
    <3>2. SeenRuns(f)' = UNION {vol.src[s].runs : s \in SeenParts(f) \cup {n}}
      BY <3>1 DEF SeenRuns
    <3>3. SeenRuns(f)' = SeenRuns(f) \cup vol.src[n].runs
      BY <3>2 DEF SeenRuns
    <3> QED
      BY <1>1, <2>1, <3>3
  <2>2. CASE f # file
    <3>1. SeenParts(f)' = SeenParts(f)
      BY <1>4, <2>2
    <3> QED
      BY <2>2, <3>1 DEF SeenRuns
  <2> QED
    BY <2>1, <2>2
<1>6. Updated \in Entry
  BY <1>1, UpdatedFacts DEF IInv
<1>7. /\ Permanent => /\ DOMAIN filemap' = DOMAIN filemap \cup {file}
                      /\ filemap'[file] = Updated
                      /\ \A f \in DOMAIN filemap : f # file => filemap'[f] = filemap[f]
      /\ ~ Permanent => filemap' = filemap
  <2> HIDE DEF file
  <2>1. filemap' = IF Permanent
                   THEN [s \in DOMAIN filemap \cup {file} |->
                           IF s = file THEN Updated ELSE filemap[s]]
                   ELSE filemap
    BY DEF Stored, file
  <2> QED
    BY <2>1
<1>8. ~ Permanent => file \notin DOMAIN filemap
  <2>1. BaseOf(n, Seg) = None => file = n
    BY DEF FileOf
  <2> QED
    BY <2>1 DEF Permanent
<1>9. ASSUME NEW f \in DOMAIN filemap'
      PROVE  Exact(f)' /\ filemap'[f] \in Entry
  <2>1. CASE f = file
    <3>1. filemap'[f] = Updated
      BY <1>7, <1>8, <2>1
    <3>2. SeenParts(f)' = SeenParts(f) \cup {n} /\ SeenRuns(f)' = SeenRuns(f) \cup Seg.runs
      BY <1>4, <1>5, <2>1
    <3>3. /\ Updated.dirty <=> \/ f \in DirtySegments(opts)
                               \/ \E s \in SeenParts(f) \cup {n} : Suspect(s)
          /\ Updated.skip => Excluded(f)
          /\ Updated.multisegment <=> \E s \in SeenParts(f) \cup {n} : Spread(s)
          /\ Updated.runs = SeenRuns(f) \cup Seg.runs
      BY <1>1, <2>1, UpdatedFacts DEF IInv
    <3> QED
      BY <1>6, <3>1, <3>2, <3>3, Constant DEF Exact, DirtySegments
  <2>2. CASE f # file
    <3>1. f \in DOMAIN filemap /\ filemap'[f] = filemap[f]
      BY <1>7, <2>2
    <3>2. SeenParts(f)' = SeenParts(f) /\ SeenRuns(f)' = SeenRuns(f)
      BY <1>4, <1>5, <2>2
    <3>3. Exact(f) /\ filemap[f] \in Entry
      BY <3>1 DEF IInv, Entries, TypeOK
    <3> QED
      BY <3>1, <3>2, <3>3, Constant DEF Exact, DirtySegments
  <2> QED
    BY <2>1, <2>2
<1>10. DOMAIN filemap \subseteq DOMAIN filemap' /\ DOMAIN filemap' \subseteq DOMAIN filemap \cup {file}
  BY <1>7
<1>11. ASSUME NEW s \in Seen',
              Spread(s) \/ opts.listAll \/ (opts.listDirty /\ Suspect(s))
       PROVE  FileOf(s, vol.src[s]) \in DOMAIN filemap'
  <2>1. CASE s \in Seen
    BY <1>10, <1>11, <2>1 DEF IInv, Entries
  <2>2. CASE s = n
    <3>1. Spread(n) <=> BaseOf(n, Seg) # None
      BY <1>1 DEF Spread
    <3>2. Suspect(n) => SegmentDirty
      BY <1>1, DirtyIsSuspect DEF IInv
    <3>3. Permanent
      BY <1>11, <2>2, <3>1, <3>2 DEF Permanent
    <3> QED
      BY <1>1, <1>7, <2>2, <3>3
  <2> QED
    BY <1>3, <2>1, <2>2
<1>12. Entries'
  <2>1. DirtySegments(opts) \cup opts.skipSegments \subseteq DOMAIN filemap'
    BY <1>10 DEF IInv, Entries
  <2> QED
    BY <1>9, <1>11, <2>1, Constant DEF Entries, DirtySegments
<1>13. DOMAIN filemap' \subseteq Nat
  BY <1>2, <1>10 DEF IInv, TypeOK
<1>14. \A f \in DOMAIN filemap' : filemap'[f] = IF f = file THEN Updated ELSE filemap[f]
  BY <1>7, <1>8
<1> QED
  BY <1>9, <1>10, <1>12, <1>13, <1>14

\* The clusters that a set of entries gives to one of the two sides.
LEMMA MarkedOne ==
  ASSUME NEW e, NEW b \in BOOLEAN
  PROVE  /\ Marked({}, b) = {}
         /\ Marked({e}, b) = IF e.dirty /\ e.skip = b THEN e.runs ELSE {}
BY DEF Marked

LEMMA MoreRuns ==
  ASSUME NEW S, NEW f
  PROVE  AllRuns(S \cup {f}) = AllRuns(S) \cup RunsOf(f)
<1>1. \A c : c \in AllRuns(S \cup {f}) <=> c \in AllRuns(S) \/ c \in RunsOf(f)
  BY DEF AllRuns
<1> QED
  BY <1>1

\* A segment of a file in several leaves the selection as it is, one that is a
\* file of its own settles it. (finalizeFileEntry)
LEMMA SelectionStep ==
  ASSUME IInv, ProcessSegment
  PROVE  /\ Selection' /\ Listing'
         /\ srcDiff' \subseteq srcUsed' /\ srcDiffSkipped' \subseteq srcUsed'
<1> DEFINE final == IF Updated.multisegment THEN {} ELSE {Updated}
<1>1. /\ n \in Segments /\ pc = "scan" /\ Seg.live /\ n' = n + 1
      /\ UNCHANGED <<vol, opts, pc>>
      /\ srcUsed' = srcUsed \cup Seg.runs
      /\ srcDiff' = srcDiff \cup Marked(final, FALSE)
      /\ srcDiffSkipped' = srcDiffSkipped \cup Marked(final, TRUE)
      /\ srcUsed \cap Seg.runs = {}
  BY DEF ProcessSegment, Scanning, AssertionsHold
<1>2. n \in Live(vol.src) /\ Seg = vol.src[n]
  BY <1>1, SegmentFacts DEF Seg, IInv
<1>3. Seen' = Seen \cup {n} /\ n \notin Seen
  BY <1>1, NextSeen DEF IInv
<1>4. /\ Updated \in Entry
      /\ Updated.multisegment <=>
           \E s \in SeenParts(FileOf(n, Seg)) \cup {n} : Spread(s)
  BY <1>1, UpdatedFacts DEF IInv
<1>5. Settled = {f \in Seen : ~ Spread(f)} /\ Settled' = {f \in Seen \cup {n} : ~ Spread(f)}
  BY <1>1, <1>3, Constant DEF Settled
<1>6. srcDiff \subseteq srcUsed /\ srcDiffSkipped \subseteq srcUsed
  BY DEF IInv, TypeOK
<1> DEFINE file == FileOf(n, Seg)
<1>7. /\ DOMAIN filemap' \subseteq DOMAIN filemap \cup {file}
      /\ \A f \in DOMAIN filemap' : filemap'[f] = IF f = file THEN Updated ELSE filemap[f]
  BY <1>1, EntriesStep DEF ProcessSegment, Scanning
<1>8. IsFiniteSet(DOMAIN filemap')
  <2>1. IsFiniteSet(DOMAIN filemap \cup {file})
    BY FS_AddElement DEF IInv, Listing
  <2> QED
    BY <1>7, <2>1, FS_Subset
<1>9. \A f \in Settled : f # file
  <2>1. \A f \in Settled : f \in Live(vol.src) /\ ~ Spread(f) /\ f # n
    BY <1>3, <1>5 DEF Seen
  <2>2. Spread(n) => Spread(file)
    BY <1>2, FileFacts DEF IInv
  <2>3. ~ Spread(n) => file = n
    BY <1>2, FileFacts DEF IInv
  <2> QED
    BY <2>1, <2>2, <2>3
<1>10. ASSUME NEW f \in DOMAIN filemap', f \in Settled, filemap'[f].dirty
       PROVE  RunsOf(f) \subseteq IF filemap'[f].skip THEN srcDiffSkipped' ELSE srcDiff'
  <2>1. f \in DOMAIN filemap /\ filemap'[f] = filemap[f]
    BY <1>7, <1>9, <1>10
  <2>2. RunsOf(f) \subseteq IF filemap[f].skip THEN srcDiffSkipped ELSE srcDiff
    BY <1>10, <2>1 DEF IInv, Listing
  <2> QED
    BY <1>1, <2>1, <2>2
<1>11. CASE Spread(n)
  <2>1. Updated.multisegment
    BY <1>4, <1>11
  <2>2. srcDiff' = srcDiff /\ srcDiffSkipped' = srcDiffSkipped
    BY <1>1, <2>1, MarkedOne
  <2>3. Settled' = Settled
    BY <1>5, <1>11
  <2>4. \A f : OneSide(f)' <=> OneSide(f)
    BY <1>1, <2>2, Constant DEF OneSide
  <2>5. Selection'
    BY <1>1, <2>2, <2>3, <2>4, Constant DEF IInv, Selection
  <2>6. Listing'
    BY <1>1, <1>8, <1>10, <2>3, Constant DEF Listing
  <2> QED
    BY <1>1, <1>6, <2>2, <2>5, <2>6
<1>12. CASE ~ Spread(n)
  <2>1. /\ n \in Files /\ FileOf(n, Seg) = n /\ PartsOf(n) = {n}
        /\ RunsOf(n) = Seg.runs
    BY <1>2, <1>12, SettledFacts DEF IInv
  <2>2. SeenParts(n) = {}
    <3>1. \A s \in SeenParts(n) : s \in PartsOf(n) /\ s \in Seen
      BY SeenOf
    <3> QED
      BY <1>3, <2>1, <3>1
  <2>3. /\ ~ Updated.multisegment
        /\ Updated.dirty <=> n \in DirtyFiles
        /\ Updated.skip => Excluded(n)
        /\ Updated.runs = Seg.runs
    <3>1. SeenRuns(n) = {}
      BY <2>2 DEF SeenRuns
    <3>2. n \in DirtyFiles <=> n \in DirtySegments(opts) \/ Suspect(n)
      BY <2>1 DEF DirtyFiles
    <3>3. /\ Updated.dirty <=> n \in DirtySegments(opts) \/ \E s \in SeenParts(n) \cup {n} : Suspect(s)
          /\ Updated.skip => Excluded(n)
          /\ Updated.runs = SeenRuns(n) \cup Seg.runs
      BY <1>1, <2>1, UpdatedFacts DEF IInv
    <3> QED
      BY <1>4, <1>12, <2>1, <2>2, <3>1, <3>2, <3>3
  <2>4. /\ srcDiff' = srcDiff \cup IF Updated.dirty /\ Updated.skip = FALSE THEN RunsOf(n) ELSE {}
        /\ srcDiffSkipped' = srcDiffSkipped
                               \cup IF Updated.dirty /\ Updated.skip = TRUE THEN RunsOf(n) ELSE {}
    BY <1>1, <2>1, <2>3, MarkedOne
  <2>5. \/ n \in DirtyFiles /\ srcDiff' = srcDiff \cup RunsOf(n) /\ srcDiffSkipped' = srcDiffSkipped
        \/ /\ n \in DirtyFiles /\ Excluded(n)
           /\ srcDiff' = srcDiff /\ srcDiffSkipped' = srcDiffSkipped \cup RunsOf(n)
        \/ n \notin DirtyFiles /\ srcDiff' = srcDiff /\ srcDiffSkipped' = srcDiffSkipped
    BY <1>4, <2>3, <2>4 DEF Entry
  <2>6. Settled' = Settled \cup {n}
    BY <1>5, <1>12
  <2>7. srcUsed \cap RunsOf(n) = {}
    BY <1>1, <2>1
  <2>8. \A f \in Settled : RunsOf(f) \subseteq srcUsed /\ f # n
    <3> TAKE f \in Settled
    <3>1. f \in Seen /\ f \in Live(vol.src) /\ ~ Spread(f)
      BY <1>5 DEF Seen
    <3>2. RunsOf(f) = vol.src[f].runs
      BY <3>1, SettledFacts DEF IInv
    <3> QED
      BY <1>3, <3>1, <3>2 DEF IInv, SeenOnce
  <2>9. srcDiff' \cup srcDiffSkipped' = AllRuns(Settled' \cap DirtyFiles)
    <3>1. srcDiff \cup srcDiffSkipped = AllRuns(Settled \cap DirtyFiles)
      BY DEF IInv, Selection
    <3>2. CASE n \in DirtyFiles
      <4>1. Settled' \cap DirtyFiles = (Settled \cap DirtyFiles) \cup {n}
        BY <2>6, <3>2
      <4>2. AllRuns(Settled' \cap DirtyFiles) = AllRuns(Settled \cap DirtyFiles) \cup RunsOf(n)
        BY <4>1, MoreRuns
      <4> QED
        BY <2>5, <3>1, <3>2, <4>2
    <3>3. CASE n \notin DirtyFiles
      <4>1. Settled' \cap DirtyFiles = Settled \cap DirtyFiles
        BY <2>6, <3>3
      <4> QED
        BY <2>5, <3>1, <3>3, <4>1
    <3> QED
      BY <3>2, <3>3
  <2>10. srcDiff' \cap srcDiffSkipped' = {}
    <3>1. srcDiff \cap srcDiffSkipped = {}
      BY DEF IInv, Selection
    <3> QED
      BY <1>6, <2>5, <2>7, <3>1
  <2>11. ASSUME NEW f \in Settled' \cap DirtyFiles
         PROVE  OneSide(f)'
    <3>1. \/ RunsOf(f) \subseteq srcDiff' /\ RunsOf(f) \cap srcDiffSkipped' = {}
          \/ /\ Excluded(f)
             /\ RunsOf(f) \subseteq srcDiffSkipped' /\ RunsOf(f) \cap srcDiff' = {}
      <4>1. CASE f = n
        BY <1>6, <2>5, <2>7, <4>1
      <4>2. CASE f # n
        <5>1. f \in Settled /\ OneSide(f)
          BY <2>6, <4>2 DEF IInv, Selection
        <5>2. RunsOf(f) \cap RunsOf(n) = {}
          BY <2>7, <2>8, <5>1
        <5> QED
          BY <2>5, <5>1, <5>2 DEF OneSide
      <4> QED
        BY <4>1, <4>2
    <3> QED
      BY <1>1, <3>1, Constant DEF OneSide
  <2>12. Selection'
    BY <1>1, <2>9, <2>10, <2>11, Constant DEF Selection
  <2>13. srcDiff' \subseteq srcUsed' /\ srcDiffSkipped' \subseteq srcUsed'
    BY <1>1, <1>6, <2>1, <2>5
  <2>14. ASSUME NEW f \in DOMAIN filemap', f = n, filemap'[f].dirty
         PROVE  RunsOf(f) \subseteq IF filemap'[f].skip THEN srcDiffSkipped' ELSE srcDiff'
    <3>1. filemap'[f] = Updated
      BY <1>7, <2>1, <2>14
    <3>2. CASE Updated.skip = TRUE
      BY <2>4, <2>14, <3>1, <3>2
    <3>3. CASE Updated.skip = FALSE
      BY <2>4, <2>14, <3>1, <3>3
    <3> QED
      BY <1>4, <3>2, <3>3 DEF Entry
  <2>15. Listing'
    BY <1>1, <1>8, <1>10, <2>6, <2>14, Constant DEF Listing
  <2> QED
    BY <2>12, <2>13, <2>15
<1> QED
  BY <1>11, <1>12

LEMMA ProcessSegmentStep == IInv /\ ProcessSegment => IInv'
<1> SUFFICES ASSUME IInv, ProcessSegment
             PROVE  IInv'
  OBVIOUS
<1>1. /\ Scanning /\ Seg.live /\ n' = n + 1 /\ destAt' = DestNow
      /\ filemap' = Stored(Updated) /\ srcUsed' = srcUsed \cup Seg.runs
      /\ UNCHANGED <<vol, opts, pc>> /\ srcUsed \cap Seg.runs = {}
  BY DEF ProcessSegment, AssertionsHold
<1>2. n \in Segments /\ n \in Live(vol.src) /\ Seg = vol.src[n] /\ Seg \in Segment
  BY <1>1, SegmentFacts, VolumeFacts DEF IInv, Scanning, Seg, Segments
<1>3. Seen' = Seen \cup {n} /\ n \notin Seen
  BY <1>1, <1>2, NextSeen DEF IInv
<1>4. Given' /\ InStep' /\ SamePlaces' /\ AtEnd'
  BY <1>1, Advance
<1>5. SeenOnce'
  BY <1>1, <1>2, <1>3, SeenOnceStep DEF IInv
<1>6. Entries'
  BY <1>1, EntriesStep
<1>7. Selection' /\ Listing'
  BY SelectionStep
<1>8. TypeOK'
  <2>1. n' \in 0 .. Cardinality(Segments) /\ destAt' \in 0 .. Cardinality(DOMAIN vol.dst)
    BY <1>1, Advance
  <2>2. DOMAIN filemap' \subseteq Nat /\ \A f \in DOMAIN filemap' : filemap'[f] \in Entry
    BY <1>1, EntriesStep
  <2>3. srcUsed' \subseteq Clusters
    BY <1>1, <1>2 DEF IInv, TypeOK, Segment
  <2>4. srcDiff' \subseteq srcUsed' /\ srcDiffSkipped' \subseteq srcUsed'
    BY SelectionStep
  <2>5. pc' \in {"init", "scan", "done", "thrown"} /\ Segments' = Segments /\ Entry' = Entry
    BY <1>1 DEF Scanning, Segments, Entry
  <2> QED
    BY <1>1, <2>1, <2>2, <2>3, <2>4, <2>5 DEF TypeOK
<1> QED
  BY <1>4, <1>5, <1>6, <1>7, <1>8 DEF IInv

\* When every segment was met, so was every one of a file.
LEMMA AllSeen ==
  ASSUME Given, TypeOK, n \notin Segments
  PROVE  /\ Seen = Live(vol.src)
         /\ \A f : SeenParts(f) = PartsOf(f) /\ SeenRuns(f) = RunsOf(f)
<1>1. \A s \in Live(vol.src) : s < n
  <2>1. /\ End(vol.srcMap) \in Nat /\ Segments = 0 .. End(vol.srcMap) - 1
        /\ Cardinality(Segments) = End(vol.srcMap)
    BY VolumeFacts, VolumeSizes DEF Segments
  <2>2. n \in Nat
    BY <2>1 DEF TypeOK
  <2> QED
    BY <2>1, <2>2 DEF Live, Segments
<1>2. Seen = Live(vol.src)
  BY <1>1 DEF Seen
<1>3. \A f : SeenParts(f) = PartsOf(f)
  BY <1>2 DEF SeenParts, PartsOf
<1> QED
  BY <1>2, <1>3 DEF SeenRuns, RunsOf

\* No two files share a cluster, if no two segments do.
LEMMA FilesApart ==
  ASSUME Given, TypeOK, SeenOnce, n \notin Segments,
         NEW f, NEW g, f # g
  PROVE  RunsOf(f) \cap RunsOf(g) = {}
<1>1. SUFFICES ASSUME NEW c \in RunsOf(f), c \in RunsOf(g)
               PROVE  FALSE
  OBVIOUS
<1>2. PICK s \in PartsOf(f) : c \in vol.src[s].runs
  BY DEF RunsOf
<1>3. PICK t \in PartsOf(g) : c \in vol.src[t].runs
  BY <1>1 DEF RunsOf
<1>4. s \in Seen /\ t \in Seen /\ s # t
  BY <1>2, <1>3, AllSeen DEF PartsOf
<1> QED
  BY <1>2, <1>3, <1>4 DEF SeenOnce

\* The entries that are finalized at the end are those of the files in several
\* segments, each complete. (finalizeMultiSegmentFiles)
LEMMA LastEntries ==
  ASSUME IInv, n \notin Segments
  PROVE  /\ \A f \in DOMAIN filemap :
              filemap[f].multisegment =>
                /\ f \in Files /\ Spread(f) /\ filemap[f].runs = RunsOf(f)
                /\ filemap[f].dirty <=> f \in DirtyFiles
                /\ filemap[f].skip => Excluded(f)
                /\ filemap[f].skip \in BOOLEAN
         /\ \A f \in Files : Spread(f) => f \in DOMAIN filemap /\ filemap[f].multisegment
<1>1. ASSUME NEW f \in DOMAIN filemap, filemap[f].multisegment
      PROVE  /\ f \in Files /\ Spread(f) /\ filemap[f].runs = RunsOf(f)
             /\ filemap[f].dirty <=> f \in DirtyFiles
             /\ filemap[f].skip => Excluded(f)
             /\ filemap[f].skip \in BOOLEAN
  <2>1. Exact(f) /\ filemap[f] \in Entry
    BY DEF IInv, Entries, TypeOK
  <2>2. SeenParts(f) = PartsOf(f) /\ SeenRuns(f) = RunsOf(f)
    BY AllSeen DEF IInv
  <2>3. PICK s \in PartsOf(f) : Spread(s)
    BY <1>1, <2>1, <2>2 DEF Exact
  <2>4. f \in Files
    BY <2>3 DEF PartsOf, Files
  <2>5. Spread(f)
    BY <2>3, <2>4, FilesAre DEF IInv
  <2>6. filemap[f].dirty <=> f \in DirtyFiles
    BY <2>1, <2>2, <2>4 DEF Exact, DirtyFiles
  <2>7. filemap[f].skip \in BOOLEAN
    BY <2>1 DEF Entry
  <2> QED
    BY <2>1, <2>2, <2>4, <2>5, <2>6, <2>7 DEF Exact
<1>2. ASSUME NEW f \in Files, Spread(f)
      PROVE  f \in DOMAIN filemap /\ filemap[f].multisegment
  <2>1. f \in PartsOf(f) /\ f \in Live(vol.src) /\ FileOf(f, vol.src[f]) = f
    BY FilesAre DEF IInv, PartsOf
  <2>2. f \in Seen /\ f \in SeenParts(f)
    BY <2>1, AllSeen DEF IInv
  <2>3. f \in DOMAIN filemap
    BY <1>2, <2>1, <2>2 DEF IInv, Entries
  <2>4. Exact(f)
    BY <2>3 DEF IInv, Entries
  <2> QED
    BY <1>2, <2>2, <2>3, <2>4 DEF Exact
<1> QED
  BY <1>1, <1>2

\* The files in several segments on one side of the selection.
Sided(skipped) ==
  {f \in DOMAIN filemap :
     filemap[f].multisegment /\ filemap[f].dirty /\ filemap[f].skip = skipped}

LEMMA MarkedLast ==
  ASSUME IInv, n \notin Segments, NEW b \in BOOLEAN
  PROVE  Marked({e \in {filemap[s] : s \in DOMAIN filemap} : e.multisegment}, b)
           = AllRuns(Sided(b))
<1> DEFINE final == {e \in {filemap[s] : s \in DOMAIN filemap} : e.multisegment}
<1>1. \A f \in Sided(b) : filemap[f].runs = RunsOf(f)
  BY LastEntries DEF Sided
<1>2. ASSUME NEW c \in Marked(final, b)
      PROVE  c \in AllRuns(Sided(b))
  <2>1. PICK e \in final : e.dirty /\ e.skip = b /\ c \in e.runs
    BY <1>2 DEF Marked
  <2>2. PICK f \in DOMAIN filemap : e = filemap[f]
    BY <2>1
  <2>3. f \in Sided(b)
    BY <2>1, <2>2 DEF Sided
  <2> QED
    BY <1>1, <2>1, <2>2, <2>3 DEF AllRuns
<1>3. ASSUME NEW c \in AllRuns(Sided(b))
      PROVE  c \in Marked(final, b)
  <2>1. PICK f \in Sided(b) : c \in filemap[f].runs
    BY <1>1 DEF AllRuns
  <2>2. /\ f \in DOMAIN filemap /\ filemap[f].multisegment
        /\ filemap[f].dirty /\ filemap[f].skip = b
    BY DEF Sided
  <2>3. filemap[f] \in final
    BY <2>2
  <2> QED
    BY <2>1, <2>2, <2>3 DEF Marked
<1> QED
  BY <1>2, <1>3

LEMMA FinishScanStep == IInv /\ FinishScan => IInv'
<1> SUFFICES ASSUME IInv, FinishScan
             PROVE  IInv'
  OBVIOUS
<1> DEFINE taken == Sided(FALSE)
           aside == Sided(TRUE)
<1>1. /\ pc = "scan" /\ n \notin Segments /\ pc' = "done"
      /\ UNCHANGED <<vol, opts, n, destAt, filemap, srcUsed>>
  BY DEF FinishScan
<1>2. srcDiff' = srcDiff \cup AllRuns(taken) /\ srcDiffSkipped' = srcDiffSkipped \cup AllRuns(aside)
  BY <1>1, MarkedLast DEF FinishScan
<1>3. /\ taken \cup aside = {f \in Files : Spread(f)} \cap DirtyFiles
      /\ taken \cap aside = {}
      /\ \A f \in aside : Excluded(f)
  <2>1. \A f \in taken \cup aside : f \in Files /\ Spread(f) /\ f \in DirtyFiles
    BY <1>1, LastEntries DEF Sided
  <2>2. \A f \in Files : Spread(f) /\ f \in DirtyFiles => f \in taken \cup aside
    BY <1>1, LastEntries DEF Sided
  <2>3. \A f \in aside : Excluded(f)
    BY <1>1, LastEntries DEF Sided
  <2>4. taken \cap aside = {}
    BY DEF Sided
  <2> QED
    BY <2>1, <2>2, <2>3, <2>4
<1>4. Settled = {f \in Files : ~ Spread(f)}
  <2>1. Settled = {f \in Live(vol.src) : ~ Spread(f)}
    BY <1>1, AllSeen DEF IInv, Settled
  <2>2. \A f \in Live(vol.src) : ~ Spread(f) => f \in Files
    BY SettledFacts DEF IInv
  <2>3. \A f \in Files : f \in Live(vol.src)
    BY FilesAre DEF IInv
  <2> QED
    BY <2>1, <2>2, <2>3
<1>5. Settled' = Files
  BY <1>1, Constant DEF Settled
<1>6. \A f, g : f # g => RunsOf(f) \cap RunsOf(g) = {}
  BY <1>1, FilesApart DEF IInv
<1>7. /\ srcDiff \cup srcDiffSkipped = AllRuns(Settled \cap DirtyFiles)
      /\ srcDiff \cap srcDiffSkipped = {}
      /\ \A f \in Settled \cap DirtyFiles : OneSide(f)
  BY DEF IInv, Selection
<1> HIDE DEF taken, aside
<1>8. srcDiff' \cup srcDiffSkipped' = AllRuns(Files \cap DirtyFiles)
  <2>1. \A c : c \in AllRuns(Files \cap DirtyFiles) <=>
               \/ c \in AllRuns(Settled \cap DirtyFiles)
               \/ c \in AllRuns(taken) \/ c \in AllRuns(aside)
    <3>1. Files \cap DirtyFiles = (Settled \cap DirtyFiles) \cup taken \cup aside
      BY <1>3, <1>4
    <3> QED
      BY <3>1 DEF AllRuns
  <2> QED
    BY <1>2, <1>7, <2>1
<1>9. AllRuns(taken) \cap AllRuns(aside) = {}
  BY <1>3, <1>6 DEF AllRuns
<1>10. ASSUME NEW S, S \subseteq taken \cup aside
       PROVE  AllRuns(S) \cap (srcDiff \cup srcDiffSkipped) = {}
  <2>1. \A f \in S : f \notin Settled \cap DirtyFiles
    BY <1>3, <1>4, <1>10
  <2> QED
    BY <1>6, <1>7, <2>1 DEF AllRuns
<1>11. /\ AllRuns(taken) \cap (srcDiff \cup srcDiffSkipped) = {}
       /\ AllRuns(aside) \cap (srcDiff \cup srcDiffSkipped) = {}
  BY <1>10
<1>12. srcDiff' \cap srcDiffSkipped' = {}
  BY <1>2, <1>7, <1>9, <1>11
<1>13. ASSUME NEW f \in Files \cap DirtyFiles
       PROVE  OneSide(f)'
  <2>1. \/ RunsOf(f) \subseteq srcDiff'
        \/ Excluded(f) /\ RunsOf(f) \subseteq srcDiffSkipped'
    <3>1. CASE f \in Settled
      BY <1>2, <1>7, <3>1 DEF OneSide
    <3>2. CASE f \in taken
      BY <1>2, <3>2 DEF AllRuns
    <3>3. CASE f \in aside
      BY <1>2, <1>3, <3>3 DEF AllRuns
    <3> QED
      BY <1>3, <1>4, <3>1, <3>2, <3>3
  <2> QED
    BY <1>1, <1>12, <2>1, Constant DEF OneSide
<1>14. Selection'
  BY <1>1, <1>5, <1>8, <1>12, <1>13, Constant DEF Selection
<1>15. Seen' = Seen /\ \A f : SeenParts(f)' = SeenParts(f) /\ SeenRuns(f)' = SeenRuns(f)
  BY <1>1, Constant DEF Seen, SeenParts, SeenRuns
<1>16. TypeOK'
  <2>1. \A f : RunsOf(f) \subseteq srcUsed
    <3>1. \A f : \A s \in PartsOf(f) : s \in Seen
      BY <1>1, AllSeen DEF IInv, PartsOf
    <3> QED
      BY <3>1 DEF RunsOf, IInv, SeenOnce
  <2>2. AllRuns(taken) \subseteq srcUsed /\ AllRuns(aside) \subseteq srcUsed
    BY <2>1 DEF AllRuns
  <2> QED
    BY <1>1, <1>2, <2>2 DEF IInv, TypeOK, Segments, Entry
<1>17. Entries'
  <2>1. ASSUME NEW f \in DOMAIN filemap
        PROVE  Exact(f)'
    BY <1>1, <1>15, Constant DEF IInv, Entries, Exact, DirtySegments
  <2> QED
    BY <1>1, <1>15, <2>1, Constant DEF IInv, Entries, DirtySegments
<1>18. SeenOnce'
  BY <1>1, <1>15 DEF IInv, SeenOnce
<1>19. Given' /\ InStep' /\ SamePlaces' /\ AtEnd'
  BY <1>1 DEF IInv, Given, InStep, SamePlaces, AtEnd, Segments
<1>20. Listing'
  <2>1. ASSUME NEW f \in DOMAIN filemap, f \in Files, filemap[f].dirty
        PROVE  RunsOf(f) \subseteq IF filemap[f].skip THEN srcDiffSkipped' ELSE srcDiff'
    <3>1. CASE f \in Settled
      <4>1. RunsOf(f) \subseteq IF filemap[f].skip THEN srcDiffSkipped ELSE srcDiff
        BY <2>1, <3>1 DEF IInv, Listing
      <4> QED
        BY <1>2, <4>1
    <3>2. CASE f \notin Settled
      <4>1. Spread(f)
        BY <1>4, <2>1, <3>2
      <4>2. filemap[f].multisegment /\ filemap[f].skip \in BOOLEAN
        BY <1>1, <2>1, <4>1, LastEntries
      <4>3. CASE filemap[f].skip = TRUE
        <5>1. f \in aside
          BY <2>1, <4>2, <4>3 DEF aside, Sided
        <5> QED
          BY <1>2, <4>3, <5>1 DEF AllRuns
      <4>4. CASE filemap[f].skip = FALSE
        <5>1. f \in taken
          BY <2>1, <4>2, <4>4 DEF taken, Sided
        <5> QED
          BY <1>2, <4>4, <5>1 DEF AllRuns
      <4> QED
        BY <4>2, <4>3, <4>4
    <3> QED
      BY <3>1, <3>2
  <2>2. IsFiniteSet(DOMAIN filemap')
    BY <1>1 DEF IInv, Listing
  <2> QED
    BY <1>1, <1>5, <2>1, <2>2, Constant DEF Listing
<1> QED
  BY <1>14, <1>16, <1>17, <1>18, <1>19, <1>20 DEF IInv

LEMMA StutterStep == IInv /\ UNCHANGED vars => IInv'
<1> SUFFICES ASSUME IInv, UNCHANGED vars
             PROVE  IInv'
  OBVIOUS
<1>1. UNCHANGED <<vol, opts, n, destAt, filemap, srcUsed, srcDiff, srcDiffSkipped, pc>>
  BY DEF vars
<1>2. Seen' = Seen /\ \A f : SeenParts(f)' = SeenParts(f) /\ SeenRuns(f)' = SeenRuns(f)
  BY <1>1, Constant DEF Seen, SeenParts, SeenRuns
<1>3. Entries'
  <2>1. ASSUME NEW f \in DOMAIN filemap
        PROVE  Exact(f)'
    BY <1>1, <1>2, Constant DEF IInv, Entries, Exact, DirtySegments
  <2> QED
    BY <1>1, <1>2, <2>1, Constant DEF IInv, Entries, DirtySegments
<1>4. Selection'
  <2>1. Settled' = Settled /\ \A f : OneSide(f)' <=> OneSide(f)
    BY <1>1, <1>2, Constant DEF Settled, OneSide
  <2> QED
    BY <1>1, <2>1, Constant DEF IInv, Selection
<1>5. Listing'
  <2>1. Settled' = Settled
    BY <1>1, <1>2, Constant DEF Settled
  <2> QED
    BY <1>1, <2>1, Constant DEF IInv, Listing
<1>6. TypeOK' /\ Given' /\ InStep' /\ SeenOnce' /\ SamePlaces' /\ AtEnd'
  BY <1>1, <1>2 DEF IInv, TypeOK, Segments, Entry, Given, InStep, SeenOnce, SamePlaces, AtEnd
<1> QED
  BY <1>3, <1>4, <1>5, <1>6 DEF IInv

LEMMA StepHolds == IInv /\ [Next]_vars => IInv'
BY ScanInitStep, PassSegmentStep, ProcessSegmentStep, AssertionFailsStep, FinishScanStep,
   StutterStep DEF Next

LEMMA InvariantHolds == Spec => []IInv
BY InitHolds, StepHolds, PTL DEF Spec

-----------------------------------------------------------------------------
(* The theorems.                                                           *)

\* The iterators, the filemap and the sets of clusters are what they should be,
\* the two $MFTs lie in the same places as far as the destination's goes, and
\* the pass ends only on a volume where no two segments share a cluster, with
\* srcUsed what $Bitmap should say. (MftScan::scan, verifyMftRunsCompatible)
THEOREM PassHolds == Spec => []PassInv
<1>1. IInv => PassInv
  <2> SUFFICES ASSUME IInv
               PROVE  PassInv
    OBVIOUS
  <2>1. ASSUME pc = "done"
        PROVE  Seen = Live(vol.src)
    BY <2>1, AllSeen DEF IInv, AtEnd
  <2>2. UsedExact
    BY <2>1 DEF UsedExact, Used, IInv, SeenOnce
  <2> QED
    BY <2>2 DEF IInv, PassInv
<1> QED
  BY <1>1, InvariantHolds, PTL

\* When the pass ends, exactly the clusters of suspect files are selected or set
\* aside, each file whole, and set aside only if it is excluded: in whatever
\* order its segments were met, wherever the reason was. (MftDiff)
THEOREM SelectionExact == Spec => []DirtyExact
<1>1. IInv => DirtyExact
  <2> SUFFICES ASSUME IInv, pc = "done"
               PROVE  SuspectsSelected /\ WholeFiles
    BY DEF DirtyExact, SuspectsSelected, WholeFiles
  <2>1. n \notin Segments /\ Settled = Files
    BY DEF IInv, AtEnd, Settled
  <2>2. DirtyFiles \subseteq Files
    BY DEF DirtyFiles
  <2>3. /\ srcDiff \cup srcDiffSkipped = AllRuns(DirtyFiles)
        /\ srcDiff \cap srcDiffSkipped = {}
        /\ \A f \in DirtyFiles : OneSide(f)
    <3>1. Settled \cap DirtyFiles = DirtyFiles
      BY <2>1, <2>2
    <3> QED
      BY <3>1 DEF IInv, Selection
  <2>4. SuspectsSelected
    BY <2>3 DEF SuspectsSelected, AllRuns
  <2>5. ASSUME NEW f \in Files
        PROVE  /\ RunsOf(f) \subseteq srcDiff \/ RunsOf(f) \cap srcDiff = {}
               /\ RunsOf(f) \cap srcDiffSkipped # {} =>
                    Excluded(f) /\ RunsOf(f) \subseteq srcDiffSkipped
    <3>1. CASE f \in DirtyFiles
      BY <2>3, <3>1 DEF OneSide
    <3>2. CASE f \notin DirtyFiles
      <4>1. \A g \in DirtyFiles : RunsOf(f) \cap RunsOf(g) = {}
        BY <2>1, <3>2, FilesApart DEF IInv
      <4>2. RunsOf(f) \cap (srcDiff \cup srcDiffSkipped) = {}
        BY <2>3, <4>1 DEF AllRuns
      <4> QED
        BY <4>2
    <3> QED
      BY <3>1, <3>2
  <2> QED
    BY <2>4, <2>5 DEF WholeFiles
<1> QED
  BY <1>1, InvariantHolds, PTL

\* A cluster that came into use since the destination was made is selected or
\* set aside, so the check of the caller finds nothing missing on a sound
\* volume. (verifySelectionContainsNewClusters)
THEOREM NewClustersFound == Spec => []NewClustersSelected
<1>1. IInv => NewClustersSelected
  <2> SUFFICES ASSUME IInv, pc = "done",
                      NEW c \in Used(vol.src), c \notin Used(vol.dst)
               PROVE  c \in srcDiff \cup srcDiffSkipped
    BY DEF NewClustersSelected
  <2>1. PICK s \in Live(vol.src) : c \in vol.src[s].runs
    BY DEF Used
  <2> DEFINE f == FileOf(s, vol.src[s])
  <2>2. f \in Files /\ s \in PartsOf(f)
    BY FileIsFile DEF IInv
  <2>3. Suspect(s)
    <3>1. SUFFICES ASSUME s \in DOMAIN vol.dst,
                          vol.src[s] = [vol.dst[s] EXCEPT !.usn = vol.src[s].usn]
                   PROVE  FALSE
      BY DEF Suspect
    <3>2. vol.dst[s] \in Segment /\ vol.src[s].live
      BY <3>1, VolumeFacts, SegmentFacts DEF IInv
    <3>3. vol.dst[s].runs = vol.src[s].runs /\ vol.dst[s].live = vol.src[s].live
      BY <3>1, <3>2 DEF Segment
    <3>4. s \in Live(vol.dst)
      BY <3>1, <3>2, <3>3 DEF Live
    <3> QED
      BY <2>1, <3>3, <3>4 DEF Used
  <2>4. f \in DirtyFiles /\ c \in RunsOf(f)
    BY <2>1, <2>2, <2>3 DEF DirtyFiles, RunsOf
  <2>5. srcDiff \cup srcDiffSkipped = AllRuns(Settled \cap DirtyFiles) /\ Settled = Files
    BY DEF IInv, Selection, Settled
  <2> QED
    BY <2>2, <2>4, <2>5 DEF AllRuns
<1> QED
  BY <1>1, InvariantHolds, PTL



-----------------------------------------------------------------------------
(* The totals of the listed files.                                         *)

\* The sum of the sizes of sets that are apart is the size of their union. The
\* recursive function of the fold is the only one with its equation.
LEMMA SumOfSizes ==
  ASSUME NEW listed, IsFiniteSet(listed), IsFiniteSet(Clusters),
         \A s \in listed : filemap[s].runs \subseteq Clusters,
         \A s, t \in listed : s # t => filemap[s].runs \cap filemap[t].runs = {}
  PROVE  MapThenSumSet(LAMBDA s : Cardinality(filemap[s].runs), listed)
           = Cardinality(UNION {filemap[s].runs : s \in listed})
<1> DEFINE pick(S) == CHOOSE x \in S : TRUE
           all(S) == UNION {filemap[s].runs : s \in S}
           size(s) == Cardinality(filemap[s].runs)
           sum == [S \in SUBSET listed |-> Cardinality(all(S))]
           IsSum(f) == f = [S \in SUBSET listed |->
                              IF S = {} THEN 0 ELSE size(pick(S)) + f[S \ {pick(S)}]]
           iter == CHOOSE f : IsSum(f)
<1>1. \A S \in SUBSET listed : S # {} => /\ pick(S) \in S /\ S \ {pick(S)} \in SUBSET listed
                                         /\ Cardinality(S \ {pick(S)}) = Cardinality(S) - 1
  <2> TAKE S \in SUBSET listed
  <2> HAVE S # {}
  <2>1. pick(S) \in S
    OBVIOUS
  <2>2. IsFiniteSet(S)
    BY FS_Subset
  <2> HIDE DEF pick
  <2> QED
    BY <2>1, <2>2, FS_RemoveElement
<1> HIDE DEF pick
<1>2. \A S \in SUBSET listed :
        sum[S] = IF S = {} THEN 0 ELSE size(pick(S)) + sum[S \ {pick(S)}]
  <2> TAKE S \in SUBSET listed
  <2>1. CASE S = {}
    <3>1. all(S) = {}
      BY <2>1
    <3> QED
      BY <2>1, <3>1, FS_EmptySet
  <2>2. CASE S # {}
    <3> DEFINE x == pick(S)
               rest == S \ {x}
    <3>1. x \in S /\ x \in listed /\ rest \in SUBSET listed
      BY <1>1, <2>2
    <3>2. all(S) = filemap[x].runs \cup all(rest)
      <4>1. \A c : c \in all(S) <=> c \in filemap[x].runs \/ c \in all(rest)
        BY <3>1
      <4> QED
        BY <4>1
    <3>3. filemap[x].runs \cap all(rest) = {}
      <4>1. \A s \in rest : filemap[x].runs \cap filemap[s].runs = {}
        BY <3>1
      <4> QED
        BY <4>1
    <3>4. filemap[x].runs \subseteq Clusters /\ all(rest) \subseteq Clusters
      BY <3>1
    <3>5. sum[S] = Cardinality(all(S)) /\ sum[rest] = Cardinality(all(rest))
      BY <3>1
    <3> HIDE DEF rest, x, all, sum
    <3>6. /\ IsFiniteSet(filemap[x].runs) /\ IsFiniteSet(all(rest))
          /\ Cardinality(filemap[x].runs) \in Nat /\ Cardinality(all(rest)) \in Nat
      BY <3>4, FS_Subset, FS_CardinalityType
    <3>7. Cardinality(all(S)) = Cardinality(filemap[x].runs) + Cardinality(all(rest))
      <4>1. Cardinality(filemap[x].runs \cap all(rest)) = 0
        BY <3>3, FS_EmptySet
      <4>2. Cardinality(filemap[x].runs \cup all(rest)) =
              Cardinality(filemap[x].runs) + Cardinality(all(rest))
                - Cardinality(filemap[x].runs \cap all(rest))
        BY <3>6, FS_Union
      <4> QED
        BY <3>2, <3>6, <4>1, <4>2
    <3>8. sum[S] = size(x) + sum[rest]
      BY <3>5, <3>7
    <3> QED
      BY <2>2, <3>8 DEF rest, x
  <2> QED
    BY <2>1, <2>2
<1>3. IsSum(sum)
  <2> HIDE DEF size
  <2>1. sum = [S \in SUBSET listed |-> sum[S]]
    OBVIOUS
  <2> HIDE DEF sum
  <2> QED
    BY <1>2, <2>1
<1> HIDE DEF sum, size
<1>4. IsSum(iter)
  <2> HIDE DEF IsSum
  <2> QED
    BY <1>3
<1>5. \A S \in SUBSET listed :
        iter[S] = IF S = {} THEN 0 ELSE size(pick(S)) + iter[S \ {pick(S)}]
  <2> HIDE DEF iter
  <2> QED
    BY <1>4
<1> HIDE DEF iter, IsSum
<1>6. \A S \in SUBSET listed : iter[S] = sum[S]
  <2> DEFINE Bad == {S \in SUBSET listed : iter[S] # sum[S]}
             T   == {Cardinality(S) : S \in Bad}
  <2>1. SUFFICES ASSUME Bad # {}
                 PROVE  FALSE
    OBVIOUS
  <2>2. \A S \in Bad : Cardinality(S) \in Nat
    BY FS_Subset, FS_CardinalityType
  <2>3. T \subseteq Nat /\ T # {}
    BY <2>1, <2>2
  <2>4. PICK k \in T : \A m \in T : k <= m
    <3> HIDE DEF T
    <3> QED
      BY <2>3, LeastNumber
  <2>5. PICK S \in Bad : Cardinality(S) = k
    BY <2>4
  <2>6. S # {}
    BY <1>2, <1>5, <2>5
  <2>7. /\ S \ {pick(S)} \in SUBSET listed
        /\ Cardinality(S \ {pick(S)}) = k - 1 /\ k \in Nat
    BY <1>1, <2>2, <2>5, <2>6
  <2>8. S \ {pick(S)} \notin Bad
    BY <2>4, <2>7
  <2>9. iter[S \ {pick(S)}] = sum[S \ {pick(S)}]
    BY <2>7, <2>8
  <2>10. iter[S] = sum[S]
    BY <1>2, <1>5, <2>5, <2>6, <2>9
  <2> QED
    BY <2>5, <2>10
<1>7. MapThenSumSet(LAMBDA s : Cardinality(filemap[s].runs), listed) = iter[listed]
  BY DEF MapThenSumSet, MapThenFoldSet, iter, IsSum, pick, size
<1>8. listed \in SUBSET listed
  OBVIOUS
<1> QED
  BY <1>6, <1>7, <1>8 DEF sum

\* When dirty files are to be listed, each of them has its entry with all of its
\* clusters, and those that are not skipped add up to the selection: the caller's
\* comparison of the totals never fails. (main2, ntfsdd.cpp:900-908)
THEOREM ListingIsComplete == Spec => []ListingCovers
<1>1. IInv => ListingCovers
  <2> DEFINE listed == {s \in DOMAIN filemap : filemap[s].dirty /\ ~ filemap[s].skip}
  <2> SUFFICES ASSUME IInv, pc = "done", opts.listDirty \/ opts.listAll
               PROVE  /\ \A f \in DirtyFiles : f \in DOMAIN filemap /\ filemap[f].runs = RunsOf(f)
                      /\ MapThenSumSet(LAMBDA s : Cardinality(filemap[s].runs), listed)
                           = Cardinality(srcDiff)
    BY DEF ListingCovers
  <2>1. n \notin Segments /\ Settled = Files
    BY DEF IInv, AtEnd, Settled
  <2>2. /\ Seen = Live(vol.src)
        /\ \A f : SeenParts(f) = PartsOf(f) /\ SeenRuns(f) = RunsOf(f)
    BY <2>1, AllSeen DEF IInv
  <2>3. \A f \in DOMAIN filemap : Exact(f) /\ filemap[f] \in Entry
    BY DEF IInv, Entries, TypeOK
  <2>4. \A f \in DOMAIN filemap : filemap[f].runs = RunsOf(f)
    BY <2>2, <2>3 DEF Exact
  <2>5. ASSUME NEW f \in DirtyFiles
        PROVE  f \in DOMAIN filemap /\ filemap[f].dirty
    <3>1. CASE f \in DirtySegments(opts)
      <4>1. f \in DOMAIN filemap
        BY <3>1 DEF IInv, Entries
      <4> QED
        BY <2>3, <3>1, <4>1 DEF Exact
    <3>2. CASE \E s \in PartsOf(f) : Suspect(s)
      <4>1. PICK s \in PartsOf(f) : Suspect(s)
        BY <3>2
      <4>2. s \in Seen /\ FileOf(s, vol.src[s]) = f
        BY <2>2 DEF PartsOf
      <4>3. f \in DOMAIN filemap
        BY <4>1, <4>2 DEF IInv, Entries
      <4> QED
        BY <2>2, <2>3, <4>1, <4>3 DEF Exact
    <3> QED
      BY <3>1, <3>2 DEF DirtyFiles
  <2>6. UNION {filemap[s].runs : s \in listed} = srcDiff
    <3>1. ASSUME NEW s \in listed, NEW c \in filemap[s].runs
          PROVE  c \in srcDiff
      <4>1. c \in RunsOf(s)
        BY <2>4, <3>1
      <4>2. s \in Files
        BY <4>1 DEF RunsOf, PartsOf, Files
      <4> QED
        BY <2>1, <4>1, <4>2 DEF IInv, Listing
    <3>2. ASSUME NEW c \in srcDiff
          PROVE  \E s \in listed : c \in filemap[s].runs
      <4>1. PICK f \in DirtyFiles : c \in RunsOf(f)
        BY <2>1 DEF IInv, Selection, AllRuns
      <4>2. f \in DOMAIN filemap /\ filemap[f].dirty /\ c \in filemap[f].runs /\ f \in Files
        BY <2>4, <2>5, <4>1 DEF DirtyFiles
      <4>3. ~ filemap[f].skip
        BY <2>1, <3>2, <4>1, <4>2 DEF IInv, Listing, Selection
      <4> QED
        BY <4>2, <4>3
    <3> QED
      BY <3>1, <3>2
  <2>7. IsFiniteSet(listed)
    BY FS_Subset DEF IInv, Listing
  <2>8. \A s \in listed : filemap[s].runs \subseteq Clusters
    BY <2>3 DEF Entry
  <2>9. \A s, t \in listed : s # t => filemap[s].runs \cap filemap[t].runs = {}
    BY <2>1, <2>4, FilesApart DEF IInv
  <2>10. IsFiniteSet(Clusters)
    BY SettingsAssumption
  <2>11. \A f \in DirtyFiles : f \in DOMAIN filemap /\ filemap[f].runs = RunsOf(f)
    BY <2>4, <2>5
  <2> HIDE DEF listed
  <2>12. MapThenSumSet(LAMBDA s : Cardinality(filemap[s].runs), listed)
           = Cardinality(UNION {filemap[s].runs : s \in listed})
    BY <2>7, <2>8, <2>9, <2>10, SumOfSizes
  <2> QED
    BY <2>6, <2>11, <2>12
<1> QED
  BY <1>1, InvariantHolds, PTL
=============================================================================
