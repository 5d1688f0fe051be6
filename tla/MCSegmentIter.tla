--------------------------- MODULE MCSegmentIter ---------------------------
(* $MFTs in up to three fragments, one of them empty, shorter and longer    *)
(* than a chunk and than the ring; two segments to a cluster.               *)
EXTENDS SegmentIter

Fragment(lcn, len) == [lcn |-> lcn, len |-> len]

MCRunLists ==
  { <<>>,
    <<Fragment(10, 1)>>,
    <<Fragment(10, 7)>>,
    <<Fragment(20, 2), Fragment(10, 3)>>,
    <<Fragment(10, 3), Fragment(20, 0), Fragment(30, 4)>>,
    <<Fragment(10, 1), Fragment(30, 1), Fragment(20, 1)>> }

\* Unformatted segments and unused ones, among them the first and the last.
MCUnwanted(fs) ==
  { [lcn |-> l, at |-> a] : l \in {10, 20, 33}, a \in
      (IF "invalid" \in fs THEN {0} ELSE {})
        \cup (IF "notInUse" \in fs THEN {1} ELSE {}) }
=============================================================================
