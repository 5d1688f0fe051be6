--------------------------- MODULE MCDirectories ---------------------------
(* Directories of up to five blocks, one of them free with stale entries    *)
(* and one that is no leaf. $INDEX_ROOT, $BITMAP and the one or two chunks  *)
(* of $INDEX_ALLOCATION are in any of three segments, two chunks in         *)
(* different ones.                                                          *)
EXTENDS Integers, Sequences, MCPairs

CONSTANT ClusterLen

Leaf(names) == [leaf |-> TRUE, entries |-> names]
Node(names) == [leaf |-> FALSE, entries |-> names]

Blocks == <<Leaf(<<"a">>), Leaf(<<"stale">>), Node(<<"inner">>), Leaf(<<"b">>),
            Leaf(<<"c">>)>>
AllChildren == {"a", "b", "c", "r", "inner", "stale"}

UnitAt(blocks, blockLen, n) ==
  IF n < Len(blocks) * blockLen
  THEN [block |-> n \div blockLen, part |-> n % blockLen]
  ELSE [block |-> 0, part |-> 0]

\* $INDEX_ALLOCATION lies at LCN 10 on, $BITMAP at 30 on.
Disk(blocks, blockLen) ==
  [lcn \in (10 .. 19) \cup (30 .. 31) |->
     [u \in 1 .. ClusterLen |->
        UnitAt(blocks, blockLen, (lcn - 10) * ClusterLen + u - 1)]]

Chunk(type, lowest, len, size, lcn) ==
  [type |-> type, resident |-> FALSE, lowest |-> lowest, highest |-> lowest + len - 1,
   size |-> size, pairs |-> Pairs(<<[lcn |-> lcn + lowest, len |-> len]>>)]

IndexRoot == [type |-> "root", resident |-> TRUE]
SmallBitmap(units) == [type |-> "bitmap", resident |-> TRUE, size |-> units]
LargeBitmap(units) == Chunk("bitmap", 0, 2, units, 30)

\* The chunks of len clusters, cut before cluster cut.
Alloc(len, cut, size) ==
  IF len = 0 THEN <<>>
  ELSE IF cut = 0 THEN <<Chunk("alloc", 0, len, size, 10)>>
  ELSE <<Chunk("alloc", 0, cut, size, 10), Chunk("alloc", cut, len - cut, size, 10)>>

\* Attribute n is in segment at[n], and the attributes of a segment are in order.
Placed(attrs, at) ==
  [s \in 1 .. 3 |->
     LET here == SelectSeq([n \in DOMAIN attrs |-> n], LAMBDA n : at[n] = s)
     IN [k \in DOMAIN here |-> attrs[here[k]]]]

Clusters(n, blockLen) == (n * blockLen + ClusterLen - 1) \div ClusterLen

Directory(n, blockLen, root, bits, cut, at) ==
  LET blocks == SubSeq(Blocks, 1, n)
      attrs == <<IndexRoot>> \o Alloc(Clusters(n, blockLen), cut, n * blockLen) \o
               IF n = 0 THEN <<>> ELSE <<bits>>
  IN [segments |-> Placed(attrs, at), blockLen |-> blockLen, blocks |-> blocks,
      root |-> root, used |-> (0 .. n - 1) \ {1}, disk |-> Disk(blocks, blockLen)]

Small == {Directory(0, 1, Leaf(<<"r">>), SmallBitmap(1), 0, at) : at \in [1 .. 1 -> 1 .. 2]}

Whole ==
  UNION {{Directory(n, blockLen, Node(<<"inner">>), bits, 0, at) :
            bits \in {SmallBitmap(3), LargeBitmap(3)}, at \in [1 .. 3 -> 1 .. 3]} :
          n \in {3, 5}, blockLen \in {1, 2, 4}}

Split ==
  UNION {{Directory(5, blockLen, Leaf(<<"r">>), SmallBitmap(3), cut, at) :
            cut \in 1 .. (IF blockLen = 1 THEN 2 ELSE 3),
            at \in {a \in [1 .. 4 -> 1 .. 3] : a[2] # a[3]}} :
          blockLen \in {1, 2, 4}}

\* One that is in one segment.
PlainDirectory == Directory(3, 1, Leaf(<<"r">>), SmallBitmap(3), 0, [n \in 1 .. 3 |-> 1])

AllDirectories == {PlainDirectory} \cup Small \cup Whole \cup Split
=============================================================================
