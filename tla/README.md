# Verification of ntfsdd

ntfsdd (NTFS Disk Destroyer) clones an NTFS volume and keeps the clone up to
date: it selects clusters of the source that may differ from the destination,
checks the selection, and compares or copies those clusters. A mistake here is
silent: a cluster that is not selected, compared with the wrong data, or
written from a buffer already reused, leaves a clone that looks complete.

This directory holds TLA+ models of the program's core, written from its
source, the TLC configurations that check them, and proofs checked by TLAPS.
Paths below are relative to the repository; `PROJECT.json` links every
definition to the lines it stands for, every property to a mutation of the code
that breaks it, and every hazard found to the properties that cover it.

Run a model with `tlc -config X.cfg M`, the proofs with `tlapm M.tla`.

## 1. The system

| Component | Source | State it keeps | Operations | Modelled by |
|---|---|---|---|---|
| Overlapped I/O queues | `core/ntfsvolume.h:160-242`, `core/ntfsvolume.cpp:466-605` | a ring of slots (buffer, `OVERLAPPED`, `is_pending`), `head`, `tail`, `pending_count` | `try_push_back`, `finalize_front`, `pop_front` (reader); `push_back`, `try_pop_front` (writer) | AsyncSlots, AsyncReader, AsyncWriter, FifoService |
| Cluster processors | `core/clusterdiff.*`, `SlicedRunIterator` in `core/util.h` | selection, two read rings, a write ring, progress within a chunk, difference map, statistics | `process()` of the comparer, the writer (rcw) and the copier | ClusterDiff, ClusterUpdate |
| MFT scan and comparison | `core/mftdiff.*` | two segment iterators, the filemap, `srcUsed`, `srcDiff`, `srcDiffSkipped` | `scan`, `processSegment`, `onDirtyFile`, the add-rules | MftDiff |
| Clone session | `main2` in `ntfsdd.cpp` | options, the two volumes, the selection | lock or snapshot, select, verify, invert (antimft), process, exit code | CloneSession |
| Volumes and locks | `Volume`, `VolumeLock` in `core/ntfsvolume.*`, `ntfsdd.cpp:130-252` | a handle, the layout read at opening, a lock | resolve a name, mount points, open, read and verify the layout, lock, unlock, close | VolumeAccess |
| MFT segment iterators | `core/ntfsmft.cpp:572-876` | position in the run list, one chunk lent by a reader | `advance`, `readCurrent` | SegmentIter |
| MFT loading | `core/ntfsmft.cpp:1-527`, `core/mftutil.*` | attribute chunks by VCN, VCN → LCN runs, the segments to load | collect, decode mapping pairs, `tryReadMore`, `getFirstMissingVcn`, `load` | DataRuns, AttrCollector, MftLoader |
| Directory trees, inclusion rules | `core/mftdir.*` | index blocks and their bitmap, cache of directories, worklist | load the index, `traverse`, `resolve` | DirLoader, InclusionResolve |
| Bitmaps | `core/bitmap.*`, `SlicedRunIterator` in `core/util.h` | a buffer of bits; a position in it | set and clear ranges, and/or/xor/and-not/complement, copy, count, `isZero`, spans, slices | BitmapOps, BitmapWork |
| VSS snapshots | `core/vssutil.*` | COM objects, snapshot id | construct, create, release | VssShadow, VolumeAccess |
| NTFS structures | `core/ntfs.*` | none | parsing | abstracted into the records of MftDiff |
| Command line, printing, tests | `ntfsdd.cpp:1-605`, `ntfscmd.cpp`, `printers/`, `tests/`, `tools/` | none | | not modelled |

### How the parts interact

`main2` opens both volumes, locks the source or makes a snapshot of it, and
builds a selection: everything (`all`), the clusters of `$Bitmap` (`bitmap`),
or the clusters that `MftDiff` gathers in a pass over both `$MFT`s (`mft`,
`antimft`). It verifies that the selection has every cluster newly in use
(`verifySelectionContainsNewClusters`) and, when files are listed, that the
files account for every selected cluster. It then gives the selection to a
cluster processor. The processors and the segment iterators are clients of the
overlapped queues: one thread pushes requests and waits for the oldest, while
the operating system completes any outstanding request at any time.

### What is hard

* **Ordering of completions.** Up to three rings are in flight; two are paired
  chunk by chunk, the third writes to the volume one of the others reads.
* **Reuse of memory.** `finalize_front` lends the slot's own buffer; zeroing or
  reissuing it early corrupts data without any error.
* **Failure in the middle.** Every call may throw after part of its effect.
* **Lockstep passes.** The destination's iterator must move for every segment
  of the source, those which are skipped included; a file's segments come in any
  order and what is learnt from a late one must reach the clusters of an early
  one.
* **Data that describes where it is.** `$MFT` has its own map in segments which
  are found with that map; a directory comes in three attributes in any of its
  segments. Each piece is read as far as the others allow.
* **Others use the volumes too.** Until a volume is locked, files on it are
  opened, its `$MFT` grows and it is mounted and dismounted between any two calls
  of `main2`; a shadow copy is a dozen calls to a service, each of which may fail.
* **Trusting metadata.** In mft mode equal records stand for equal data. Changes
  during a session, system files that change without their record, and
  interrupted sessions put that at risk.
* **Off by one.** Ranges of system segments, spans at chunk ends, masks at block
  ends, holes between VCN ranges.

### What makes each component correct

* *Queues*: first in, first out, each request with its own data; no slot in
  flight is reused; flushing leaves nothing behind or throws.
* *Processors*: the difference map is exact; every selected cluster ends up
  equal; only differing clusters are written by rcw; no cluster is read and
  written at once; success is reported only at the end.
* *Segment iterator*: every segment once, in order, from its own place; the loop
  over it ends when all were handed out.
* *Loading*: with a partial map a segment is read from its own place or not at
  all; list entries and index blocks are read once each, up to the exact end; a
  sound volume is not refused.
* *Inclusion rules*: the parents left to look at reach exactly what lies below
  the given paths.
* *Bitmaps*: operations on words have the effect of the operation on sets, and
  leave alone what lies behind the bitmap; the slices are the 1s.
* *Volumes, locks, shadow copies*: what is read stands still while it is used;
  nothing is written that a switch or a check should have prevented; whatever
  throws, nothing is left behind.
* *MFT comparison*: the pass starts only over two `$MFT`s in the same places;
  exactly the clusters of files with a reason to be suspected
  are selected, whole files at a time; newly used clusters are among them; the
  totals agree with what `main2` verifies.
* *Session*: a session that ends well leaves a mirror of what it saw; checks
  refuse only a damaged destination; what updates cannot see, antimft does.

## 2. Modules

```
AsyncSlots ──┬── AsyncReader ── AsyncReader_proofs
             │        └─ implements FifoService
             ├── AsyncWriter ── AsyncWriter_proofs
             ├── SegmentIter ── SegmentIter_proofs
             │        └─ implements AsyncReader (as its client)
             └── ClusterDiff ── ClusterDiff_proofs
                      └─ implements ClusterUpdate
DataRuns ── AttrCollector ──┬── MftLoader ──┐
                            └── DirLoader ──┼── Loading
                        InclusionResolve ───┘
BitmapOps ── BitmapWork
VssShadow ── VolumeAccess ── VolumeAccess_proofs
MftDiff ── MftDiff_proofs
CloneSession ── CloneSession_proofs (uses the results of MftDiff and ClusterUpdate)
ModArith (lemmas about numbers, for the proofs of the rings, SegmentIter and MftDiff)
```

**AsyncSlots** has the ring as a record and its operations as operators:
`PushBack` takes the slot at `head` and hands it to the operating system,
`PopFront` releases the slot at `tail`, `FrontIs` is `GetOverlappedResult(...,
TRUE)` having returned. `CompleteIo` is the operating system. `is_pending` and
`OVERLAPPED` are separate fields, as in the code.

**AsyncReader** has one action for each way a call can end: `TryPushBack`,
`PushThrows` (`ReadFile` failed; the buffer was zeroed already),
`FinalizeFront`, `FinalizeThrows`, `PopLent`. A `try_push_back` that returns
false changes nothing and is no action. `ReadDone(i)` finishes any read in
flight, also after the program gave up. The data of request `r` is `r`: a buffer
tells whose data it holds. The client may push while it holds the lent buffer,
as the segment iterator does.

**FifoService** is what the reader promises: a bounded line, entered at the
back, answered at the front, that may break down. `ImplementsFifo` is the
refinement: the line is the requests in the slots from `tail` on.

**AsyncWriter** is the same for writes: `PushFull` is `push_back` waiting for
and retiring the oldest write and taking the slot in the same call; `PopThrows`
leaves the slot taken after a failed write and released after a short one, as
`try_pop_front` does.

**ClusterDiff** composes three rings with the loops of `process()`.
`PushSlice` is part 1 of the loop (push until the ring is full or the slices
end), `OpenChunk` part 2, `ReportSpan` a call of `onDirtySpan` (with the write
of rcw or copy), `CloseChunk` the pops and the statistics, `FlushOne` /
`FlushEnd` the loop after `process`. Slices are operators on the selection: the
next run, cut at `BatchLen`. The source is stable and cluster `c` of it holds
`c`, so a write of the wrong buffer, or from a wrong offset, is seen.

**ClusterUpdate** is what a processor promises: selected clusters take the
source's content in any order, nothing else changes, `done` is said only when
nothing is left. `ImplementsUpdate` is the refinement.

**SegmentIter** is `SegmentIteratorOverlapped` over a fragmented `$MFT`, one
action for each way a part of `advance()` goes: push while there are runs
(`Push`, `PassRun`, `PushEnds`), the next segment of the buffer (`NextInBuffer`),
give it back (`ReturnBuffer`), wait for the next (`TakeBuffer`, `TakeThrows`),
apply fixups. `UsesReader` is a refinement: with "a segment is being looked at"
for `lent`, every behaviour of the iterator is one of AsyncReader, so what is
proved of the reader holds here.

**DataRuns** is `DataRunIterator`: mapping pairs, with lengths and signed
differences of up to three octets, become runs. The runs that AttrCollector
follows are those it decodes; the encoder that the instances use is MCPairs.

**AttrCollector** has `NonResidentData` and `AttributeCollectorProcessor` as
operators on a record: the sorted map, the header of the first chunk, the
position and the buffer. `ReadMore` reads a cluster and cuts it at the file size,
`Advanced` is `tryReadMore` having returned false.

**MftLoader** is `Mft::load`: `LoadSegment` finds a segment by the map so far
(`PlaceOf`), takes in its chunks and its resident list; `ReadEntry`, `ReadCluster`
and `AdvanceReturns` are `attrList.advance()`; `Finish` has the assertions.

**DirLoader** is `DirEntryLoader`: after every segment the bitmap is advanced and
then the index; a block waits for `$INDEX_ROOT` and for its bit.

**InclusionResolve** has `traverse` as a fold over the tokens of a path and
`resolve()` as actions: `Start` moves the roots to the worklist, `Walk(d)` takes
any of its directories, as the order of a hash table is not known.

**Loading** puts these three in the order in which main2 comes to them: `$MFT`, then
the rules, for which directories are loaded. InclusionResolve takes the load of a
directory as one step that may throw; in Loading one such load is before it, in all
its steps. Whatever throws ends the program. MCDirectories and MCTrees hold the
directories and the trees of the instance.

**MftDiff** is the pass, one action for a segment. A segment is what the pass
looks at (in use, base segment, has an attribute list, has an index, parents,
clusters, body, update sequence number). `filemap` has the permanent entries
alone; the temporary one of a plain file lives within `ProcessSegment`.
`ScanInit` is `verifyMftRunsCompatible`: the pass begins only if the runs of the
two `$MFT`s agree, but for a longer last run and further ones in the source.

**BitmapOps** has the operations of `bitmap.cpp` on words, as the code does them:
the masks at both ends of a range, the partial last word, the lookups of
`BitmapSpans::Iterator` word by word, and `SlicedRunIterator` over it. A word is
the set of its bits, so that a mask is a set; the word behind the end of the
buffer is there, as the code reads and writes it. **BitmapWork** is a client that
fills a bitmap run by run, combines it with another and walks it; beside each
bitmap stands the set it is meant to hold, so the invariants compare the words
with the definition on sets.

**VssShadow** is `VssShadowCopy`. `Calls` are the calls of `create()` in order,
`Call` and `CallThrows` how the next one ends, `Destroy` the destructor with
`release()`. An operation of the service that was waited for may have failed
without a sign (`Outcome`), since `QueryStatus` is not asked.

**VolumeAccess** is `main2` around the work (ntfsdd.cpp:606-672): one action for
each thing it does to a volume, from the shadow copy to the locks, then `Load`,
`Write` and `Return`. `Fail` is an exception at any of these places, `Trap` the
division that ends the process, `Unwind(o)` the destructors one by one.
`Others(v)` is the rest of the computer: it uses a volume unless it is locked,
makes `$MFT` of the source grow, and mounts the destination. That a name
cannot be resolved (`Resolutions`), and what follows from it (no look at mount
points, line 181; a failed lock is a warning, lines 660 and 662), is as in the
code.

**CloneSession** runs `ntfsdd` again and again. Volumes are functions from
clusters to contents; a file's record says when it was last changed and where
its data is; `Write`, `Delete` and `WriteSilently` are the applications and
NTFS, which are kept out by a lock and not by a snapshot. `Begin`, `Select`,
`Refuse`, `Process(c)`, `End` are the stages of `main2`; `Interrupt` stops it at
any moment. Selection is that of MftDiff and processing that of ClusterUpdate:
selected clusters are processed one by one in any order.

`MC*.tla` give constants their values. Operators whose comment starts with
"Mutant" are wrong versions of the definition after them; each is a plausible
slip, and the property it is paired with in `PROJECT.json` fails under it.

## 3. Runs

| Run | Shows | Instance |
|---|---|---|
| reader_ring | the ring's counters, slots and history agree; reads come out in order with their own data; a lent buffer is stable; a slot in flight is not reissued; FifoService is implemented | 3 slots, 2 requests, 5 calls |
| writer_ring | the same for writes; after the flush all is on the medium, once; the flush ends | 2 slots, 2 requests, 4 writes |
| segment_iterator | every segment of `$MFT` once and in order, from a lent buffer; the end when it is the end; the reader is used as it asks to be | 2 slots, chunks of 2, up to 3 runs of up to 7 clusters, an empty one among them, 2 segments to a cluster, all flags |
| cluster_processors | exact comparison, only necessary writes and none over a read in flight, nothing lost, quiet end, ClusterUpdate implemented, termination | 5 clusters, chunks of 3, 2 slots, all selections and all sets of differences, all three processors, failing I/O |
| loading | `$MFT`: mapping pairs become the runs they stand for; segments are read from their own place with any part of the map; the list is read in step; loaded means whole; refused means damaged. A directory: entries of used blocks once each; all of them when its attributes come in one piece each and the blocks not before what they wait for. Rules: the two sets reach what was given and all below, and nothing else, in any order. An end to all three | `$MFT` of 5 clusters in up to 3 chunks over up to 4 segments, differences of one and two octets and either sign, 17 lists, resident or in 4 clusters with entries across borders, and one `$MFT` in a single run; directories of up to 5 blocks, smaller than, equal to and larger than a cluster, the attributes in any of 3 segments; two trees of 6 segments, one with a cycle, and 8 command lines |
| mft_diff | only volumes with `$MFT` in the same places are compared; exact selection of whole suspect files, totals that agree with the caller's checks | 8 layouts of 5 segments, every segment unchanged, new, changed or with another update sequence number, destination shorter or not; 7 destinations whose `$MFT` lies apart; 5 settings |
| sessions | what a finished session guarantees; no change of an ordinary file goes unseen between whole sessions; refusals mean damage; antimft tells; updates catch up | a system file and an ordinary one, 2 data clusters, 3 changes, 1 interruption, 5 command lines |
| bitmaps | ranges, operations, copies, counts and comparisons change and see the bits that are meant; nothing behind the buffer changes, and the unused bits of the last byte only by copying; the slices are the 1s | 5 to 9 bits in words of 4 and bytes of 2, every first bitmap, three second ones, 1s or 0s behind the end of each, slices of 3 |
| access | the source stands still while it is used, writes need their switches and checks, nothing is left at the end | 6 command lines, volumes and other things at either path, every call failing, other programs at any time, `$MFT` growing twice |
| interrupted_update | a disagreement of code and documentation (section 6) | the sessions in mft mode, with one interruption |
| multi_segment_directories | another | the directories of `loading` |
| changed_below_skip_root | another | the volumes and settings of `mft_diff` |

The type invariant of a module is a conjunct of its main invariant
(`ReaderInv`, `WriterInv`, `IteratorInv`, `TransferInv`, `PassInv`, `SessionInv`,
`LoaderInv`, `DirInv`, `RulesInv`, `BitmapInv`, `AccessInv`).

Why the bounds are enough to be worth something:

* *Rings.* With 5 requests in 3 slots (4 in 2) the indices wrap and every slot
  is reused while others are in flight. The proofs of section 5 remove the bounds
  for both rings.
* *Processors.* Five clusters in chunks of three give full and short chunks,
  runs that are cut and runs with gaps, chunks with two dirty spans and spans at
  either end; two slots make readers refuse slices and the writer wait in
  `push_back`.
* *MFT.* The layouts have plain files, files with the base segment before and
  after its extension, a directory in two segments, a file named in two
  directories, an unused segment and a cross-linked pair. The settings have
  every option, dirty and skip roots, and preset segments that do not exist.
* *Iterator.* Runs of none to seven clusters in chunks of two give whole and
  short chunks and buffers given back with reads behind them. Section 5 removes
  the bounds.
* *Loading.* The chunks of `$MFT` are in one segment, in an order other than that
  of their VCNs, in segments found by the map of others or only by the flat guess;
  a list skips, repeats or reorders segments. Blocks lie within a cluster and
  across several, before and after the bitmap's border, free and not leaf. What is
  loaded first has no part in what is loaded next, so images, directories and rules
  vary one at a time.
* *Bitmaps.* A bitmap of 5 or 6 bits has a word that reaches past the buffer, one of
  5 or 7 ends within a byte, one of 8 ends with a word, one of 9 has a single bit in
  its third word, with unused bits of its byte and of its word behind it; behind the
  end each of the two has 1s or 0s.
  All contents are initial states, so one change from each of them (`MaxOps` = 1)
  is every change there is; the longest run is cut three times.
* *Access.* The command lines give and leave out every switch that guards the
  destination, each with and without a shadow copy. Growing twice lets `$MFT`
  grow both between the layout and the lock and before the shadow copy is taken.
  Section 5 removes both bounds.
* *Inclusion rules.* The root is its own child, a file has two parents, a
  directory is empty, an index leads back up; paths have `.`, `..` and empty parts.
* *Sessions.* Three changes are enough to write a file, write it again during a
  session and move, delete or silently change it after; two data clusters let
  a cluster change its owner. One interruption is enough to set records and
  data apart. The command lines have all four modes, three actions, lock and
  snapshot, blank target, listing.

Deadlock is checked wherever a run that ended stutters explicitly (`Resting`,
`Finished`, `Ended`, `Done`) and in the runs of CloneSession. It is off where the
system really stops: a client that made all its requests (AsyncReader,
AsyncWriter), and a pass that ended (MftDiff).

### Fairness

* *Operating system*: every outstanding read or write ends, well or not
  (`WF(ReadDone)`, `WF(WriteDone)`): `GetOverlappedResult` with `bWait` relies
  on it.
* *Program*: one thread that goes on unless it must wait (`WF(Program)`, and in
  AsyncWriter the steps of the flush loop; `Iterator` and `LoadingStep` are the
  whole program of SegmentIter and Loading).
* *User*: for the liveness of sessions, the tool is run again and again
  (`WF(Begin)`), which README.md:355 takes for granted by "next time". Changes of the
  source have no fairness: they may stop. `EveryChangeCaught` also has to say
  that sessions which write end well infinitely often, as nothing obliges a user to
  run those; `CaughtOrReported` is checked with command lines that all write.

## 4. Assumptions of the models

* The queue has at least one slot and slices have at least one cluster. The
  command line does not check `--queue-depth` and `--batch-len`
  (ntfsdd.cpp:512-517).
* A read that ended well has the volume's content at some moment between push
  and completion; a write is all or nothing at cluster granularity, and no two
  in flight overlap (`NoOverlap` shows that order between the rings does not
  matter).
* A handle without the right to write fails every write; a lock on a volume
  keeps every other program from opening it, and fails while one has it open. A
  volume is frozen while its shadow copy is taken, and a call of VSS after an
  operation that failed notices it (VolumeAccess).
* A snapshot is one atomic copy; the volume it shows is consistent: the records
  and `$Bitmap` agree (README.md, "crash consistency").
* A change of an ordinary file changes its record; a system file may change
  alone (README.md, "Is the MFT comparison system safe?").
* CloneSession starts from a clone or a blank destination, and the destination
  is changed by nobody else. Boot sector, `$Bitmap`, files and clusters of data
  are different things (`ClustersAssumption`).
* In MftDiff a segment that names a base segment names one in use, with an
  `$ATTRIBUTE_LIST` and no base of its own, and the runs of each `$MFT` are
  contiguous in VCNs and cover its segments (`VolumesAssumption`); there are
  finitely many clusters, and the options name finitely many files
  (`SettingsAssumption`).
* A segment is not larger than a cluster (SegmentIter; the code allows either),
  and the runs of `$MFT` are runs of clusters, of any number and length, empty
  ones included (`IteratorAssumption`; `MaxClusters` is a name for the length of
  the longest `$MFT`, so that the requests are a set).
* `$ATTRIBUTE_LIST` of `$MFT` is in one chunk, `$INDEX_ALLOCATION` fills whole
  blocks, each with a bit (the code asserts the latter two); there are no sparse
  runs (ntfsmft.h:29), so that this branch of DataRuns is written but not
  reached. An LCN has three octets (`LcnOctets`), and VCNs in attributes are
  numbers, not octets. Which segments a directory has is given; MftLoader has how
  they are found.
* The bounds `MaxRequests`, `MaxChanges`, `MaxFailures`, `MaxOps`, `MaxGrowth`
  limit behaviours, not the code.

## 5. Proofs

`AsyncReader_proofs` proves, for every depth, every set of requests, and any
number of them:

| Theorem | States |
|---|---|
| `RingInvariant` | `Spec => []ReaderInv`, which is `TypeOK /\ RingInv` |
| `FifoOrder` | `Spec => []Fifo` |
| `PendingSlots` | `Spec => []PendingExact` |
| `SlotsNotReissued` | `Spec => [][InFlightStays]_vars`, an action property |
| `LentBufferStable` | `Spec => [][BorrowedStays]_vars`, an action property |
| `SlotsStayKept` | `Spec => SlotsKept`, which is both |
| `ReaderImplementsFifo` | `Spec => ImplementsFifo`, the refinement |

The argument. A request is known by its number in the order of acceptance, and
number `n` waits in slot `(n - 1) % Depth`. `RingInv` ties the counters to the
histories: `head` and `tail` are the lengths of `accepted` and `delivered`
modulo `Depth`, `pendingCount` is their difference, each number in the window
between them has its own request in its slot, and its own data once the read
ended. It is inductive together with `TypeOK`. Without the histories the type
invariant and the order of deliveries are not inductive: nothing would say that
`head` does not run into a slot in flight. The core are two facts about the
window: it is never wider than `Depth`, so no two of its numbers share a slot
(`SlotsDistinct`), and the slot at `head` is outside of it unless the ring is
full (`HeadIsFree`). Both rest on **ModArith**, where the facts about `%` that
the solver does not know are derived from the definition (uniqueness of
remainders, the step `(a + 1) % d`, distinctness within `d` consecutive
numbers, quotients). For the refinement `LineIsHistory` shows that the line of FifoService
is the part of `accepted` in the window, so that each action of the reader maps
to an action of the line, and completions to stuttering.

The assumptions are those of the modules: `Depth` is positive, `None` is no
request.

`VolumeAccess_proofs` proves the four invariants of the run `access`, for all
command lines and a source that grows any number of times:

| Theorem | States |
|---|---|
| `AccessSafe` | `Spec => []AccessInv` |
| `SourceIsStable` | `Spec => []StableSource` |
| `WritesAreGuarded` | `Spec => []WriteGuards` |
| `EverythingReleased` | `Spec => []NothingLeft` |

The argument. None of the four is inductive: that the shadow copy exists while
the source is open rests on how far `create()` came, and that the source does not
grow rests on a lock taken many steps before. `IInv` has five parts.
`ShadowInv` says what the object of the shadow copy holds at every call of
`create()` (`Alive`) or after it is gone (`Gone`), and at which steps of `main2`
it is which; `LockInv` that a lock belongs to an object, excludes other users,
and is there from the lock to the end of the work on every path that was
resolved as a volume; `GuardInv` what each check before the work lets through,
from the step after it on; `SourceInv` that the layout and the loaded `$MFT`
are the size that the source shows; `TypeOK` is the types. Facts about the order
of the calls (`CallsOrder`: an operation that was started is waited for by the next
call, the shadow copy comes with the last but one) are proved from the two
sequences; `CallAlive`, `CallThrowsAlive` and `DestroyGone` are what the calls and
the destructor do to the object, `ShadowSteps` lifts that to the steps of `main2`,
and one lemma for each part of `IInv` goes through all actions. `VssShadow` and
`VolumeAccess` count calls by the length of the sequence (`CallCount`), so no
number of calls is written into the invariant.

Its assumption is `AccessAssumption`: the command lines have the switches of
`CommandLine`, and `MaxGrowth` is a number, whichever.

`AsyncWriter_proofs` proves the invariant of the run `writer_ring`, for every depth
and any number of writes, whichever fail:

| Theorem | States |
|---|---|
| `WriterInvariant` | `Spec => []WriterInv` |

The argument is that of the reader: a write is known by its number in the order of
acceptance. `push_back` retires and accepts in one call, so its two halves are two
lemmas about the ring (`PopRing`, `PushRing`), composed for `PushFull`; a third is
the completion. What is added is the medium: `MediumExact` says that it holds each
request as often as writes of it ended well, whether they were retired or not.
When the flush ended the window is empty, so that those are all.

`ClusterDiff_proofs` proves the safety properties and the refinement of the run
`cluster_processors`, for volumes of any size, chunks of any length, rings of any depth, in every mode:

| Theorem | States |
|---|---|
| `TransfersAccounted` | `Spec => []TransferInv` |
| `WritesStayInPlace` | `Spec => []WritesInPlace` |
| `ComparisonExact` | `Spec => []DiffExact` |
| `ProcessorsImplementUpdate` | `Spec => ImplementsUpdate`, the refinement of ClusterUpdate |

The argument. `Waiting` is the set of clusters not yet compared: above the slice
iterator, in the slots of the source's ring, and in the chunk at hand from `lcn`
on. `IInv` says that they hold what they held before the run and that no write in
flight touches them (`Untouched`), since a cluster is handed to the writer in the
step in which it stops waiting. So a read of the destination returns the
old content whenever it is done, although writes to the same volume are in flight
(`InStep`, which also pairs the slots of both rings); the comparison is that of the
volumes before the run (`Kept`, `Counted`); what is in flight differs, is selected,
and is in flight once (`Writes`). Nothing changes a cluster away from the source's
content, so what neither waits nor is in a write is equal, and at the end that is
everything. The spans are the first run of a set of numbers; that a set has a
least number is `LeastNumber` of ModArith, from the well-foundedness of the
numbers. The refinement maps the completion of a write to the step of ClusterUpdate
that changes clusters, and every other step to its end or to stuttering.

`CloneSession_proofs` proves the four invariants of the run `sessions`, for any
number of files, sessions and changes of the source between and during them:

| Theorem | States |
|---|---|
| `SessionInvariant` | `Spec => []SessionInv` |
| `SessionsMirror` | `Spec => []SessionMirrors` |
| `RefusalsMeanDamage` | `Spec => []RefusalMeansDamage` |
| `AntiMftFindsSlips` | `Spec => []AntiMftDetects` |

The argument. That the records decide what to copy is right only if the
destination is an older state of the source. `SourceInv` says that the source and
the view a session took of it are sound (`$Boot` points at the MFT, files have
clusters of their own, `$Bitmap` has all of them), that no stamp is from the
future, and that the view is older than the source and agrees with it (equal
stamps mean equal records, and equal records equal data). `DestInv` says that the
destination is older than the view and, while no session was cut short
(`healthy`) and none is in its writes (`MidWrite`), agrees with it. `ProgressInv` is
what is true at each step of a session: a full selection holds all clusters in use,
what is no longer to do is equal to the view, what `mft` did not choose was equal
already, and an `antimft` comparison collects what differs. Writing clusters of the
view one by one keeps the agreement only when all of them are written, hence
`MidWrite` and `healthy`.

`SegmentIter_proofs` proves both invariants of the run `segment_iterator` and the
refinement, for rings of any depth, batches and clusters of any size, `$MFT` in any
number of runs of any length, and any set of segments to skip:

| Theorem | States |
|---|---|
| `IteratorSound` | `Spec => []IteratorInv` |
| `IteratorComplete` | `Spec => []Complete` |
| `IteratorUsesReader` | `Spec => UsesReader`, the iterator as a client of AsyncReader |

The argument. That the next segment handed out is the right one (`InStep`) depends
on reads pushed many calls ago, so it is not inductive, and neither is `Complete`.
What links a segment to its place in `$MFT` is two counts: how far the reads that
were pushed go, and how many segments were looked at. `ReadAhead` says that the
reads pushed, one after another, are `$MFT` up to the place where the next one
starts, so the n-th read holds the segments that follow those of the reads before
it (`ReadSegments`). `InRing` says, as for the reader, in which slot the n-th read
is and that its data is its own; the oldest in the ring is the first that was not
returned (`FrontIsNext`). `OnLentBuffer` gives the position in its buffer. So the
current segment is number `LookedAt` of `$MFT` (`LentSegments`), and `Walked`,
that what was handed out is what the flags leave of the first `LookedAt`, goes on
from one segment to the next, skipped or not (`ReadCurrentHolds`). `Walked` is
about what is wanted of both, because the flags are not looked at any more once
all reads were pushed. At the end the ring is empty and `LookedAt` is everything.
`MaxClusters` bounds the requests, as none of them is empty: this is what the
refinement needs beyond the guards. The lemmas on the way are about sequences of
sequences: `FlattenValue`, `FlattenAppend` and `FlattenPrefix` on the recursive
function of `FlattenSeq`, by a least length at which it goes wrong, and from them
`SegmentsInAppend`, `RunInParts` (a run cut in two is the segments of its parts)
and `WantedAppend`.

With `IteratorUsesReader`, the theorems of `AsyncReader_proofs` hold for the reads
of `$MFT`.

`MftDiff_proofs` proves all four invariants of the run `mft_diff`, for $MFTs of any
length in any number of runs, files in any number of segments in any order, and
all options:

| Theorem | States |
|---|---|
| `PassHolds` | `Spec => []PassInv` |
| `SelectionExact` | `Spec => []DirtyExact` |
| `NewClustersFound` | `Spec => []NewClustersSelected` |
| `ListingIsComplete` | `Spec => []ListingCovers` |

The argument. `InStep` gives the place of the destination's iterator, so that each
segment is compared with that of its own number, and what makes it dirty is what
makes it suspect (`DirtyIsSuspect`; a name behind a dirty one is not looked at, which
is why the least of them matters). `Entries` says that the entry of a file sums up
the segments of it that were met, and which files must have one. A file in several
segments has an entry since the first of them was met, a file in one is settled at
once (`NoneBefore`: no entry means that nothing of it was met). As no cluster is
seen twice (`SeenOnce`), each settled file is on one side of the selection with all
its clusters (`Selection`), its entry says on which (`Listing`), and at the end all
files are settled. That compatible runs mean the same places needs that each
segment is in one run (`RunOf`). The totals of the listing are a fold over a set:
`SumOfSizes` shows that the recursive function of the fold is the size of the
union, by a least set on which they differ.

The assumptions of these are the named ones of the modules (section 4).

Only model-checked: liveness (`FlushEnds`, `Terminates`, `EveryChangeCaught`, `Ends`, `DirEnds`, `RulesEnd`),
which depends on fairness, and the safety of MftLoader, DirLoader,
InclusionResolve and BitmapWork. What these compute is a fold or a selection from
a sequence for every input (the runs that mapping pairs stand for, the pieces of a
list cut at cluster borders, a path walked token by token, bits found word by
word), so nearly all of their correctness is in the data. The library's induction
theorems cannot be used here; an argument by a least counterexample can, as in
`SumOfSizes` and `FlattenFunction`, but it is a proof of its own for each recursion.

## 6. Where code and documentation disagree

Runs that TLC finishes with a counterexample:

* `interrupted_update` — "every change gets caught eventually" (README.md:355).
  An update in mft mode that stops after it wrote `$MFT` and before the data
  leaves equal records over different data, and later updates end with success
  without touching it. `antimft`, `bitmap` and `all` do see it
  (`AntiMftDetects`, `SessionMirrors`).
* `multi_segment_directories` — "Multi-segment entries will still be parsed fine"
  (mftdir.cpp:331). `tryReadMore` (ntfsmft.cpp:155) takes `HighestVcn` of the chunk
  with `LowestVcn` 0 for the last VCN of the attribute; it is that of the chunk alone
  (ntfsmft.h:18-21), and when it is reached `m_vcnEof` is set for good, whether the
  blocks in the buffer were taken or not. Two things follow for a sound directory.
  The entries in later chunks of `$INDEX_ALLOCATION` are lost without an error, so
  that rules for paths below them are not applied. And when `$INDEX_ROOT` or
  `$BITMAP` comes in a later segment than the first chunk, or that chunk ends within
  a block, blocks are left waiting, which `assert_all_processed` reports: the program
  ends. `DirParsedInOrder` says for which directories the loading is right; those in
  a single segment are among them.
* `changed_below_skip_root` — "Any backreference to a skipRoot means the
  (multi)segment should be skipped" (mftdiff.cpp:425), a path is excluded "with all
  its contents recursively" (README.md:202). Parents are looked at only while the
  segment is not dirty (mftdiff.cpp:414), so a file below a skip root whose record
  changed or is new is selected nonetheless. `NameSeen` of MftDiff has it so;
  `WholeFiles` says what does hold.

Noted while reading, and modelled as the code has it, without a run of its own:

* A volume that cannot be resolved, for whatever reason, counts as no volume:
  `err = ERROR_INVALID_NAME` (ntfsdd.cpp:138) assigns where it should compare.
  Then mount points are not looked at, the layout is not checked against the
  system's, and a failed lock is only a warning. The same branch is what lets
  files and shadow copies be sources. `WriteGuards` and `Exclusive` therefore
  speak of paths that were recognised, and no property covers the others.
* The layout is read before the lock (ntfsdd.cpp:635, 660). On a volume in use
  `$MFT` may grow in between, which verifyPhysicalVolumeParams reports as a
  disagreement if it falls between the two reads, and nobody sees if it comes
  later; the table of file names is sized by the old length
  (mftdiff.cpp:44-46). `StableSource` promises an exact layout for shadow copies
  only.
* When both queries for the sector size fail it stays 0, and newAlignedBuffer
  divides by it (`Trap`). readLayout overwrites the size that was queried
  with the logical one of the boot sector.
* A constructor of VssShadowCopy that throws leaves CoInitialize without its
  counterpart, a wait that throws leaves its IVssAsync (`NothingLeft` has both as
  exceptions); BackupComplete is never called, and the result of DeleteSnapshots
  is ignored, which the release of the backup components makes up for.
* `Bitmap::memcmp` masks the last block by `& rem` where `& mask` is meant; only
  tests call it. Operations on words read and write past a buffer whose size is
  in bytes; they put back what was there, the unused bits of the last byte included
  (`ForeignKept`). BitmapSpans of a bitmap
  without bits would look at a word that is not there; no caller has one. The unit
  tests of ranges begin at bit 0 of 64.
* `segmentNumber()` shifts the high part by `sizeof(ULONG)`, 4 and not 32 bits
  (ntfs.h:69), harmless while it is 0.
* "On exit: Pop the remainder of the requests until false" (ntfsvolume.h:228)
  holds on a normal end only (`FlushComplete`, `QuietEnd`). After an exception the
  slots are freed with I/O in flight.
* ClusterCopier counts `bytesRead % BytesPerCluster` (clusterdiff.cpp:231) where
  clusters are meant; its progress stays 0. `CloseChunk` has it as the code does.
* `--exit-code` is documented for rvw and copy (ntfsdd.cpp:568), but only list and
  compare return it (1001-1007). `ExitCode` has it as the code does.
* "System files 0-35 are automatically added to this" (mftdiff.h:167); the
  constructor stops after 32, so that an unchanged record of segment 33, which
  mftdiff.cpp:218 names, leaves its clusters out.
* `compare --select all ... --print-files-to` (README.md:53) trips the assertion
  at ntfsdd.cpp:904 on a healthy volume with a free cluster; the comment at
  791-793 foresaw it. `RefusalMeansDamage` states it as the exception it is.
* `getFirstMissingVcn` (ntfsmft.cpp:30) allows a hole of one VCN, and the end of
  the map of `$MFT` is compared with nothing; `LoadedMeansWhole` says what is left.
* `addAttrChunk` (ntfsmft.cpp:40) drops sparse runs without counting their VCNs.
* The flags of a segment iterator are not looked at once all reads were pushed
  (ntfsmft.cpp:641 loops while runs are left); no caller passes any.
* The result of `sectorsCheckSignature` at mftdir.cpp:154 is not used, and blocks
  that are not leaves are passed over although their entries are files.
* `assert_leq` tests `>=` (util.h:118), which its use at mftdiff.cpp:307 needs:
  `LongEnough` has it, and its mutant is the name taken at its word.

## 7. Not modelled

* *The composition of sessions with bitmaps, locks and shadow copies*: MftDiff,
  ClusterDiff and CloneSession take bitmaps as sets, slices as what they should
  be, and a created shadow copy as an atomic one; BitmapWork and VolumeAccess
  show that they may.
* *Other iterators and loaders*: SegmentIteratorBuffered (unused), readAll,
  NtfsBitmapFile, SegmentIndexesLoader (printing), FilenameMap (names). Attribute
  and run iterators are taken as the sequences they yield.
* *Volumes*: the fields of the layout but for the size of `$MFT`, and which of them
  compareVolumeParams compares (`alike`).
* *`verifybitmap`, command line, printing*: no state beyond the session, or pure
  input and output.
* *Fixups* beyond being accepted or rejected, and attribute parsing
  (`core/ntfs.h`): declarations of structures.
* *Short reads and writes* are told apart from failed ones in the ring modules
  and joined with them in ClusterDiff, where both throw.
* *The event handle of an OVERLAPPED and 64-bit offsets*: no property depends on
  them.

## 8. Plan

Done: AsyncSlots, AsyncReader, FifoService, AsyncWriter, ClusterDiff,
ClusterUpdate, MftDiff, CloneSession, SegmentIter, DataRuns, AttrCollector,
MftLoader, DirLoader, InclusionResolve, Loading, BitmapOps, BitmapWork, VssShadow,
VolumeAccess, and the proofs of AsyncReader, AsyncWriter, ClusterDiff, MftDiff,
CloneSession, VolumeAccess and SegmentIter: the rings first
since everything reads and writes through them, then what changes the
destination, then what decides on it, then the sessions around it all, then where
the decisions get their data from, then what the sessions stand on.

Next, in this order:

1. Proofs: `ResolveInv` and `ResolvedExact` of InclusionResolve, then `LoaderInv` of
   MftLoader over lemmas about AttrCollector.
2. **verifybitmap** and the statistics of the processors, the remaining actions
   of `main2`; MftScan without a destination.
3. ClusterDiff over the slices of BitmapOps, and CloneSession with the shadow copy
   of VolumeAccess in the place of its atomic one.
