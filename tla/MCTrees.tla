------------------------------ MODULE MCTrees ------------------------------
(* A volume whose root is its own child, with a directory in a directory, an *)
(* empty one and a file in two directories; and one where a damaged index    *)
(* leads back up.                                                            *)
EXTENDS Integers, Sequences, TLC

E(name, segment) == [name |-> name, segment |-> segment]

\* 5 = the root, 10 = docs, 11 = docs\old, 12 = empty, 20 = both, 21 = note
Volume(up) ==
  (5 :> <<E(".", 5), E("docs", 10), E("empty", 12), E("link", 20)>>) @@
  (10 :> <<E("old", 11), E("note", 21)>>) @@
  (11 :> <<E("both", 20)>> \o up) @@
  (12 :> <<>>) @@ (20 :> <<>>) @@ (21 :> <<>>)

AllTrees == {Volume(<<>>), Volume(<<E("up", 10)>>)}

Docs == <<"docs">>
Old == <<"", "docs", ".", "old">>
Note == <<"empty", "..", "docs", "note">>

Line(direct, roots, paths, files) ==
  [segments |-> direct, segmentRoots |-> roots, paths |-> paths, files |-> files]

AllOptions ==
  { Line({}, {}, <<>>, <<>>),
    Line({}, {}, <<<<"">>>>, <<>>),
    Line({}, {}, <<Docs>>, <<Note>>),
    Line({12}, {}, <<Old, Docs>>, <<<<"link">>>>),
    Line({}, {11}, <<<<"empty">>, <<"note", "x">>>>, <<<<>>>>),
    Line({21}, {5, 10}, <<>>, <<Docs>>),
    Line({}, {12, 11}, <<<<"docs", "..", "..">>>>, <<>>),
    Line({20}, {20}, <<Note>>, <<Old>>) }
=============================================================================
