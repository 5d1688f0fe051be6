----------------------------- MODULE DirLoader -----------------------------
(***************************************************************************)
(* DirEntryLoader (core/mftdir.h:133-160, core/mftdir.cpp:66-332): reads   *)
(* the entries of a directory out of $INDEX_ROOT and the index blocks of   *)
(* $INDEX_ALLOCATION that $BITMAP says are used. The three attributes come *)
(* in the segments of the directory in any arrangement, the latter two in  *)
(* chunks; after every segment as much is read as can be.                  *)
(*                                                                         *)
(* A unit of $INDEX_ALLOCATION is a part of a block; blocks are smaller or *)
(* larger than clusters. A unit of $BITMAP has BitsPerUnit bits.           *)
(***************************************************************************)
EXTENDS AttrCollector

CONSTANTS Directories,  \* the directories to load
          BitsPerUnit,
          Children      \* what an entry of an index refers to

LOCAL SX == INSTANCE SequencesExt

\* A directory: its segments in the order they are loaded, each a sequence of
\* attributes; the size of a block; the blocks and the root, with the flag that
\* tells leaves and the entries; the blocks in use; the clusters. The loader
\* asserts that the blocks fill $INDEX_ALLOCATION and have a bit each.
DirectoriesWhole ==
  /\ BitsPerUnit \in Nat \ {0}
  /\ \A d \in Directories :
       /\ d.blockLen \in Nat \ {0}
       /\ d.used \subseteq 0 .. Len(d.blocks) - 1
       /\ \A n \in DOMAIN d.segments : \A a \in SX!ToSet(d.segments[n]) :
            /\ a.type = "alloc" => a.size = Len(d.blocks) * d.blockLen
            /\ a.type = "bitmap" => a.size * BitsPerUnit >= Len(d.blocks)

VARIABLES dir,        \* the directory
          idx,        \* segmentIdx
          rooted,     \* haveIndexRoot()
          bitmap,     \* m_bitmapLoader
          bitsRead,   \* its bytesProcessed
          index,      \* this as AttributeCollectorProcessor
          blockNo,    \* m_blockNo
          entries,    \* entries of DirIndexReader
          pc          \* where load() is, or how it ended

vars == <<dir, idx, rooted, bitmap, bitsRead, index, blockNo, entries, pc>>

Unit == [block : Nat, part : Nat]

TypeOK ==
  /\ idx \in 0 .. Len(dir.segments)
  /\ rooted \in BOOLEAN
  /\ bitmap.map \in Seq(Span) /\ bitmap.eof \in BOOLEAN
  /\ index.map \in Seq(Span) /\ index.eof \in BOOLEAN
  /\ index.buf \in Seq(Unit)
  /\ bitsRead \in Nat
  /\ blockNo \in 0 .. Len(dir.blocks)
  /\ entries \in Seq(Children)
  /\ pc \in {"load", "bitmap", "index", "loaded", "refused", "ioError"}

Init ==
  /\ dir \in Directories
  /\ idx = 0
  /\ rooted = FALSE
  /\ bitmap = EmptyData /\ bitsRead = 0
  /\ index = EmptyData /\ blockNo = 0
  /\ entries = <<>>
  /\ pc = "load"

\* readIndexEntries: a node that is not a leaf is passed over.
EntriesOf(node) == IF node.leaf THEN node.entries ELSE <<>>

-----------------------------------------------------------------------------
(* loadSegment: processAttr on each attribute, then advance()              *)

Of(segment, type) == SelectSeq(segment, LAMBDA a : a.type = type)
Chunks(d, attrs) == SX!FoldLeft(LAMBDA c, a : AddAttrChunk(c, a), d, attrs)

\* processResidentAttr reads a resident bitmap on the spot.
Resident(attrs) == \E n \in DOMAIN attrs : attrs[n].resident

LoadSegment ==
  /\ pc = "load" /\ idx < Len(dir.segments)
  /\ LET segment == dir.segments[idx + 1]
         bitmaps == Of(segment, "bitmap")
     IN /\ rooted' = (rooted \/ Of(segment, "root") # <<>>)
        /\ entries' = IF Of(segment, "root") # <<>>
                      THEN entries \o EntriesOf(dir.root) ELSE entries
        /\ index' = Chunks(index, Of(segment, "alloc"))
        /\ bitmap' = IF Resident(bitmaps) THEN [bitmap EXCEPT !.eof = TRUE]
                     ELSE Chunks(bitmap, bitmaps)
        /\ bitsRead' = IF Resident(bitmaps) THEN Head(bitmaps).size ELSE bitsRead
  /\ idx' = idx + 1
  /\ pc' = "bitmap"
  /\ UNCHANGED <<dir, blockNo>>

-----------------------------------------------------------------------------
(* m_bitmapLoader.advance()                                                *)

TakeBits ==
  /\ pc = "bitmap" /\ ~bitmap.eof
  /\ bitmap.buf # <<>>
  /\ bitsRead' = bitsRead + Len(bitmap.buf)
  /\ bitmap' = Consumed(bitmap, Len(bitmap.buf))
  /\ UNCHANGED <<dir, idx, rooted, index, blockNo, entries, pc>>

ReadBitmap ==
  /\ pc = "bitmap" /\ ~bitmap.eof
  /\ bitmap.buf = <<>> /\ CanReadMore(bitmap)
  /\ bitmap' = ReadMore(bitmap, dir.disk)
  /\ UNCHANGED <<dir, idx, rooted, bitsRead, index, blockNo, entries, pc>>

BitmapReturns ==
  /\ pc = "bitmap"
  /\ bitmap.eof \/ (bitmap.buf = <<>> /\ ~CanReadMore(bitmap))
  /\ bitmap' = IF bitmap.eof THEN bitmap ELSE Advanced(bitmap)
  /\ pc' = "index"
  /\ UNCHANGED <<dir, idx, rooted, bitsRead, index, blockNo, entries>>

-----------------------------------------------------------------------------
(* AttributeCollectorProcessor::advance() with IndexProcessor::tryReadEntry *)

\* Mutant: a block is taken without its bit being there.
BitKnownAlways == TRUE

BitKnown == bitsRead >= blockNo \div BitsPerUnit + 1
\* m_bitmap.get; bits that were not read yet are clear.
BitSet == blockNo \in dir.used /\ blockNo < bitsRead * BitsPerUnit

HasBlock == ~index.eof /\ rooted /\ BitKnown /\ Len(index.buf) >= dir.blockLen

TakeBlock ==
  /\ pc = "index" /\ HasBlock
  /\ index' = Consumed(index, dir.blockLen)
  /\ blockNo' = blockNo + 1
  /\ entries' = IF BitSet
                THEN entries \o EntriesOf(dir.blocks[Head(index.buf).block + 1])
                ELSE entries
  /\ UNCHANGED <<dir, idx, rooted, bitmap, bitsRead, pc>>

ReadIndex ==
  /\ pc = "index" /\ ~index.eof
  /\ ~HasBlock /\ CanReadMore(index)
  /\ index' = ReadMore(index, dir.disk)
  /\ UNCHANGED <<dir, idx, rooted, bitmap, bitsRead, blockNo, entries, pc>>

\* Mutant: advance() goes on when tryReadMore has nothing for it.
IndexSpins ==
  /\ pc = "index"
  /\ index.eof \/ ~(HasBlock \/ CanReadMore(index))
  /\ index' = IF index.eof THEN index ELSE Advanced(index)
  /\ pc' = IF index'.eof THEN "load" ELSE pc
  /\ UNCHANGED <<dir, idx, rooted, bitmap, bitsRead, blockNo, entries>>

IndexReturns ==
  /\ pc = "index"
  /\ index.eof \/ ~(HasBlock \/ CanReadMore(index))
  /\ index' = IF index.eof THEN index ELSE Advanced(index)
  /\ pc' = "load"
  /\ UNCHANGED <<dir, idx, rooted, bitmap, bitsRead, blockNo, entries>>

ReadFails ==
  /\ \/ pc = "load" /\ idx < Len(dir.segments)
     \/ pc = "bitmap" /\ ~bitmap.eof /\ bitmap.buf = <<>> /\ CanReadMore(bitmap)
     \/ pc = "index" /\ ~index.eof /\ ~HasBlock /\ CanReadMore(index)
  /\ pc' = "ioError"
  /\ UNCHANGED <<dir, idx, rooted, bitmap, bitsRead, index, blockNo, entries>>

\* DirectoryTreeLoader::load asserts that all was processed.
Finish ==
  /\ pc = "load" /\ idx = Len(dir.segments)
  /\ pc' = IF AllProcessed(index) THEN "loaded" ELSE "refused"
  /\ UNCHANGED <<dir, idx, rooted, bitmap, bitsRead, index, blockNo, entries>>

Ended == pc \in {"loaded", "refused", "ioError"}
Resting == Ended /\ UNCHANGED vars

Load == \/ LoadSegment \/ TakeBits \/ ReadBitmap \/ BitmapReturns
        \/ TakeBlock \/ ReadIndex \/ IndexReturns \/ ReadFails \/ Finish
Next == Load \/ Resting

Spec == Init /\ [][Next]_vars
FairSpec == Spec /\ WF_vars(Load)

-----------------------------------------------------------------------------
\* The entries of the root and of the first n blocks: what the directory has in
\* its leaves.
Leaves(n) ==
  EntriesOf(dir.root) \o
  SX!FlattenSeq([b \in 1 .. n |-> IF b - 1 \in dir.used THEN EntriesOf(dir.blocks[b])
                                 ELSE <<>>])

\* The entries at any time are those of the blocks passed so far, each block
\* with its own bit, none twice; those in free blocks are stale and left out.
\* (IndexProcessor::tryReadEntry)
EntriesExact == entries = IF rooted THEN Leaves(blockNo) ELSE <<>>

\* The loader at any time. (IndexProcessor)
LoaderInv == TypeOK /\ EntriesExact

\* The directory is accepted, with the entries of every leaf that is in use.
Parsed ==
  /\ pc # "refused"
  /\ pc = "loaded" => entries = Leaves(Len(dir.blocks))

\* No attribute is cut into chunks, and none that the blocks wait for comes after
\* them: so it is in a directory of a single segment.
SegmentsWith(type) == {n \in DOMAIN dir.segments : Of(dir.segments[n], type) # <<>>}
OnePiece ==
  \A n \in DOMAIN dir.segments : \A a \in SX!ToSet(dir.segments[n]) :
    ~a.resident => a.lowest = 0
BlocksLast ==
  \A n \in SegmentsWith("alloc") :
    \A m \in SegmentsWith("root") \cup SegmentsWith("bitmap") : m <= n

\* "This way if this is a single-segment entry, we simply process it"
\* (mftdir.cpp:330): whatever the order within a segment and the size of blocks,
\* clusters and bitmap, nothing is left waiting and no entry is missed.
\* (IndexProcessor::advance, tryReadMore, assert_all_processed)
ParsedInOrder == OnePiece /\ BlocksLast => Parsed

\* "Multi-segment entries will still be parsed fine." (mftdir.cpp:331)
MultiSegmentParsed == Parsed

\* Loading comes to an end. (the loops of advance and load)
Ends == <>[]Ended
=============================================================================
