----------------------------- MODULE MCLoading -----------------------------
(* A $MFT of five clusters in three chunks, two segments to a cluster. The  *)
(* chunks are in segment 0 and in up to three further segments that lie in  *)
(* different clusters; the list that names these is resident or has four    *)
(* clusters, with an entry across a border; damaged ones leave out a        *)
(* segment. Offsets between the runs have one octet or two and either sign. *)
(* Images, directories and rules vary one at a time, as they share no data. *)
EXTENDS Loading, MCPairs, TLC

Clusters == <<200, 201, 500, 501, 5>>

\* The chunk of len clusters from VCN lowest on; size is not looked at.
Chunk(lowest, len) ==
  [type |-> "data", resident |-> FALSE, lowest |-> lowest,
   highest |-> lowest + len - 1, size |-> 5 * SegmentsPerCluster,
   pairs |-> Pairs(IF lowest = 0 /\ len = 3
                   THEN <<[lcn |-> 200, len |-> 2], [lcn |-> 500, len |-> 1]>>
                   ELSE IF lowest = 3 /\ len = 2
                   THEN <<[lcn |-> 501, len |-> 1], [lcn |-> 5, len |-> 1]>>
                   ELSE <<[lcn |-> Clusters[lowest + 1], len |-> len]>>)]

Units(listing) ==
  [n \in 1 .. Len(listing) * EntryLen |->
     [seg |-> listing[(n - 1) \div EntryLen + 1], part |-> ((n - 1) % EntryLen) + 1]]

Slack == [seg |-> 0, part |-> 0]
Cluster(units, n) ==
  [u \in 1 .. ClusterLen |->
     IF n * ClusterLen + u <= Len(units) THEN units[n * ClusterLen + u] ELSE Slack]

List(units, resident) ==
  IF resident THEN [type |-> "list", resident |-> TRUE, value |-> units]
  ELSE [type |-> "list", resident |-> FALSE, lowest |-> 0,
        highest |-> 3, size |-> Len(units),
        pairs |-> Pairs(<<[lcn |-> 43, len |-> 1], [lcn |-> 40, len |-> 3]>>)]

\* chunks[s] are the chunks in segment s.
Image(chunks, listing, resident) ==
  LET own(s) == IF s \in DOMAIN chunks THEN chunks[s] ELSE <<>>
      lists == IF listing = <<>> THEN <<>> ELSE <<List(Units(listing), resident)>>
  IN [clusters |-> Clusters, listing |-> listing,
      attrs |-> [s \in 0 .. 9 |-> IF s = 0 THEN lists \o own(0) ELSE own(s)],
      disk |-> [lcn \in 40 .. 43 |->
                  Cluster(Units(listing), IF lcn = 43 THEN 0 ELSE lcn - 39)]]

A == Chunk(0, 2)
B == Chunk(2, 2)
C == Chunk(4, 1)

Layouts ==
  { [chunks |-> (0 :> <<A, B, C>>), listings |-> {<<>>}],
    [chunks |-> (0 :> <<Chunk(0, 3), Chunk(3, 2)>>), listings |-> {<<>>}],
    [chunks |-> (0 :> <<Chunk(0, 3)>>) @@ (1 :> <<Chunk(3, 2)>>),
     listings |-> {<<0, 1>>, <<0>>}],
    \* the third is in what the second describes, or the other way round
    [chunks |-> (0 :> <<A>>) @@ (3 :> <<B>>) @@ (5 :> <<C>>),
     listings |-> {<<0, 3, 5>>, <<0, 5, 3>>, <<0, 3, 3, 5, 5>>, <<0, 3, 3, 3, 5, 5, 5, 5>>,
                  <<0, 3>>, <<0, 0>>}],
    [chunks |-> (0 :> <<A>>) @@ (3 :> <<B>>) @@ (2 :> <<C>>),
     listings |-> {<<0, 3, 2>>, <<0, 2, 3>>, <<0, 2>>, <<0, 3>>}],
    \* a hole of a single cluster
    [chunks |-> (0 :> <<A>>) @@ (1 :> <<Chunk(3, 2)>>), listings |-> {<<0, 1>>}],
    \* segment 0 has no chunk, or only the second
    [chunks |-> (1 :> <<A>>) @@ (2 :> <<B, C>>), listings |-> {<<0, 1, 2>>, <<0, 2, 1>>}],
    [chunks |-> (0 :> <<B>>) @@ (4 :> <<A>>) @@ (1 :> <<C>>),
     listings |-> {<<4, 0, 1>>, <<1, 0, 4>>, <<0, 4>>}] }

\* One in a single run.
FlatImage ==
  [Image(0 :> <<>>, <<>>, TRUE) EXCEPT
     !.clusters = [n \in 1 .. 5 |-> 199 + n],
     !.attrs[0] = <<[Chunk(0, 5) EXCEPT !.pairs = Pairs(<<[lcn |-> 200, len |-> 5]>>)]>>]

MCImages ==
  {FlatImage} \cup
  UNION {{Image(l.chunks, listing, resident) :
            listing \in l.listings, resident \in BOOLEAN} : l \in Layouts}

IndexData == INSTANCE MCDirectories WITH ClusterLen <- IndexClusterLen
TreeData == INSTANCE MCTrees

MCDirectories == IndexData!AllDirectories
MCChildren == IndexData!AllChildren
MCTrees == TreeData!AllTrees
MCOptions == TreeData!AllOptions

Volume(img, directory, t, o) ==
  [image |-> img, dir |-> directory, tree |-> t, options |-> o]

MCVolumes ==
  LET directory == IndexData!PlainDirectory
      t == CHOOSE u \in MCTrees : TRUE
      o == CHOOSE l \in MCOptions : l.paths = <<>> /\ l.files = <<>>
  IN {Volume(i, directory, t, o) : i \in MCImages}
     \cup {Volume(FlatImage, d, t, o) : d \in MCDirectories}
     \cup {Volume(FlatImage, directory, u, l) : u \in MCTrees, l \in MCOptions}
=============================================================================
