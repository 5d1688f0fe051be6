------------------------------ MODULE MCMftDiff ------------------------------
(***************************************************************************)
(* Volumes of five segments - $MFT, $Extend, a directory and two that are  *)
(* two files, one file in two segments in either order, or one file and a  *)
(* part of the directory - before and after changes of every kind.         *)
(***************************************************************************)
EXTENDS MftDiff, TLC

MCSystemFiles == {0}
MCExtendDir == 1

RecordOf(live, base, list, index, parents, runs) ==
  [live |-> live, base |-> base, list |-> list, index |-> index,
   parents |-> parents, runs |-> runs, body |-> 0, usn |-> 0]

Plain(parents, runs) == RecordOf(TRUE, None, FALSE, FALSE, parents, runs)
Base(parents, runs)  == RecordOf(TRUE, None, TRUE, FALSE, parents, runs)
Dir(list, runs)      == RecordOf(TRUE, None, list, TRUE, <<>>, runs)
Part(base, parents, runs) == RecordOf(TRUE, base, FALSE, FALSE, parents, runs)
Unused(runs)         == RecordOf(FALSE, None, FALSE, FALSE, <<>>, runs)

\* Directory 2, then what segments 3 and 4 hold. The last layout is cross-linked.
Layouts ==
  LET Volume(dirList, three, four) ==
        (0 :> Plain(<<>>, {0})) @@ (1 :> Dir(FALSE, {1}))
        @@ (2 :> Dir(dirList, {2})) @@ (3 :> three) @@ (4 :> four)
  IN { Volume(FALSE, Plain(<<2>>, {3}), Plain(<<1>>, {4})),
       Volume(FALSE, Plain(<<2, 1>>, {3}), Plain(<<1, 2>>, {})),
       Volume(FALSE, Base(<<2>>, {3}), Part(3, <<>>, {4})),
       Volume(FALSE, Part(4, <<1>>, {3}), Base(<<2>>, {4})),
       Volume(FALSE, Part(4, <<2>>, {3}), Base(<<>>, {4})),
       Volume(TRUE, Part(2, <<>>, {3}), Plain(<<2>>, {4})),
       Volume(FALSE, Unused({3}), Plain(<<2>>, {3})),
       Volume(FALSE, Plain(<<2>>, {3}), Plain(<<2>>, {3})) }

\* What a segment may have been on the destination.
Before(seg, change) ==
  CASE change = "none" -> seg
    [] change = "usn"  -> [seg EXCEPT !.usn = 1]
    [] change = "body" -> [seg EXCEPT !.body = 1, !.runs = {}]
    [] change = "new"  -> [seg EXCEPT !.live = FALSE, !.body = 1]

Changes(len) == [1 .. len -> {"none", "usn", "body", "new"}]

Pair(src, dst, srcMap, dstMap) ==
  [src |-> src, dst |-> dst, srcMap |-> srcMap, dstMap |-> dstMap]

\* Two fragments of $MFT, the second of which may have grown since.
Run(vcn, lcn, len) == [vcn |-> vcn, lcn |-> lcn, len |-> len]
Map(len) == <<Run(0, 20, 2), Run(2, 30, len - 2)>>

\* $MFTs that lie apart, are cut in other places, or have shrunk.
Apart ==
  LET src == CHOOSE layout \in Layouts : TRUE
      dst(len) == [s \in 0 .. len - 1 |-> IF s \in DOMAIN src THEN src[s] ELSE Unused({})]
  IN {Pair(src, dst(map[2]), Map(5), map[1]) : map \in
        { <<<<Run(0, 21, 2), Run(2, 30, 2)>>, 4>>, <<<<Run(0, 20, 2), Run(2, 31, 2)>>, 4>>,
          <<<<Run(0, 20, 1), Run(1, 30, 3)>>, 4>>, <<<<Run(0, 20, 3)>>, 3>>, <<Map(6), 6>>,
          <<Map(5) \o <<Run(5, 40, 1)>>, 6>>, <<<<Run(0, 20, 2)>>, 2>> }}

MCVolumes ==
  {Pair(src, (0 :> src[0]) @@ [s \in DOMAIN change |-> Before(src[s], change[s])],
        Map(5), Map(Cardinality(DOMAIN change) + 1))
     : src \in Layouts, change \in UNION {Changes(len) : len \in 2 .. 4}} \cup Apart

Setting(ignoreFixup, markAllIndex, listDirty) ==
  [ignoreFixup |-> ignoreFixup, markAllIndex |-> markAllIndex,
   listAll |-> FALSE, listDirty |-> listDirty,
   dirtySegments |-> {}, skipSegments |-> {}, dirtyRoots |-> {}, skipRoots |-> {}]

MCOptions ==
  { Setting(TRUE, FALSE, FALSE),
    Setting(FALSE, TRUE, TRUE),
    [Setting(TRUE, FALSE, TRUE) EXCEPT !.skipRoots = {2}],
    [Setting(TRUE, TRUE, TRUE) EXCEPT !.skipSegments = {0, 3}, !.dirtyRoots = {2}],
    [Setting(TRUE, FALSE, FALSE) EXCEPT !.listAll = TRUE, !.dirtySegments = {4, 7}] }
=============================================================================
