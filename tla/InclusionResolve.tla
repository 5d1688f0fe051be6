-------------------------- MODULE InclusionResolve --------------------------
(***************************************************************************)
(* DirectoryTreeLoader and SegmentInclusionOptions (core/mftdir.h:163-213, *)
(* core/mftdir.cpp:363-510): the paths and segments given on the command   *)
(* line become two sets, the segments meant directly and the directories   *)
(* whose children are meant (MftDiff looks at the parents of a segment     *)
(* only). The directories below those given are found by a worklist that   *)
(* takes them in the order of a hash table.                                *)
(*                                                                         *)
(* A path is a sequence of tokens: names, ".", ".." or "".                 *)
(***************************************************************************)
EXTENDS Integers, Sequences, FiniteSets

CONSTANTS Trees,     \* functions from segments to sequences of [name, segment]
          Options,   \* command lines: [segments, segmentRoots, paths, files]
          Root       \* segment 5

LOCAL SX == INSTANCE SequencesExt

SegmentNo == UNION {DOMAIN t : t \in Trees}

\* Root is a directory, and what an index names is there.
TreesWhole ==
  \A t \in Trees :
    /\ Root \in DOMAIN t
    /\ \A d \in DOMAIN t : \A e \in SX!ToSet(t[d]) : e.segment \in DOMAIN t

VARIABLES tree,          \* the directories of the volume
          options,       \* what the command line says
          todo,          \* the paths that traversePaths has not reached
          segments, segmentRoots,
          loadSubtrees, visited,
          loaded,        \* m_data: the directories in the cache
          pc             \* where resolve() is, or how it ended

vars == <<tree, options, todo, segments, segmentRoots, loadSubtrees, visited,
          loaded, pc>>

TypeOK ==
  /\ tree \in Trees /\ options \in Options
  /\ todo \in Seq([list : {"paths", "files"}, path : Seq(STRING)])
  /\ segments \subseteq SegmentNo /\ segmentRoots \subseteq SegmentNo
  /\ loadSubtrees \subseteq SegmentNo /\ visited \subseteq loaded
  /\ loaded \subseteq SegmentNo
  /\ pc \in {"paths", "walk", "resolved", "thrown"}

Listed(list, paths) == [n \in DOMAIN paths |-> [list |-> list, path |-> paths[n]]]

Init ==
  /\ tree \in Trees /\ options \in Options
  /\ todo = Listed("paths", options.paths) \o Listed("files", options.files)
  /\ segments = options.segments /\ segmentRoots = options.segmentRoots
  /\ loadSubtrees = {} /\ visited = {} /\ loaded = {}
  /\ pc = "paths"

-----------------------------------------------------------------------------
(* DirectoryTreeLoader                                                     *)

ChildrenOf(d) == {e.segment : e \in SX!ToSet(tree[d])}

\* The state of traverse: where it is, what is above, what it looked into and
\* how it went.
AtRoot == [at |-> Root, above |-> <<>>, read |-> {}, found |-> "yes"]

Lookup(w, token) ==
  LET named == {n \in DOMAIN tree[w.at] : tree[w.at][n].name = token}
      read == w.read \cup {w.at}
  IN IF named = {} THEN [w EXCEPT !.read = read, !.found = "no"]
     ELSE [w EXCEPT !.read = read, !.above = Append(w.above, w.at),
                    !.at = tree[w.at][CHOOSE n \in named :
                                        \A m \in named : n <= m].segment]

Token(w, token) ==
  IF w.found # "yes" \/ token \in {"", "."} THEN w
  ELSE IF token # ".." THEN Lookup(w, token)
  ELSE IF w.above = <<>> THEN [w EXCEPT !.found = "aboveRoot"]
  ELSE [w EXCEPT !.at = SX!Last(w.above), !.above = SX!Front(w.above)]

\* An empty path is not the root.
Traverse(path) ==
  IF path = <<>> THEN [AtRoot EXCEPT !.found = "no"]
  ELSE SX!FoldLeft(Token, AtRoot, path)

-----------------------------------------------------------------------------
(* SegmentInclusionOptions                                                 *)

\* resolvePaths: a path that is not found is warned about and left out.
ResolvePath ==
  /\ pc = "paths" /\ todo # <<>>
  /\ LET w == Traverse(Head(todo).path)
         goal == IF w.found = "yes" THEN {w.at} ELSE {}
     IN /\ w.found # "aboveRoot"
        /\ segmentRoots' = IF Head(todo).list = "paths" THEN segmentRoots \cup goal
                           ELSE segmentRoots
        /\ segments' = IF Head(todo).list = "files" THEN segments \cup goal
                       ELSE segments
        /\ loaded' = loaded \cup w.read
  /\ todo' = Tail(todo)
  /\ UNCHANGED <<tree, options, loadSubtrees, visited, pc>>

\* ".." above the root, or a directory that cannot be loaded.
PathThrows ==
  /\ pc = "paths" /\ todo # <<>>
  /\ LET w == Traverse(Head(todo).path)
     IN w.found = "aboveRoot" \/ ~(w.read \subseteq loaded)
  /\ pc' = "thrown"
  /\ UNCHANGED <<tree, options, todo, segments, segmentRoots, loadSubtrees,
                 visited, loaded>>

\* Mutant: the roots are not meant themselves.
StartWithoutRoots ==
  /\ pc = "paths" /\ todo = <<>>
  /\ loadSubtrees' = segmentRoots
  /\ segmentRoots' = {}
  /\ pc' = "walk"
  /\ UNCHANGED <<tree, options, todo, segments, visited, loaded>>

\* The roots are meant directly; they are moved to the worklist.
Start ==
  /\ pc = "paths" /\ todo = <<>>
  /\ segments' = segments \cup segmentRoots
  /\ loadSubtrees' = segmentRoots
  /\ segmentRoots' = {}
  /\ pc' = "walk"
  /\ UNCHANGED <<tree, options, todo, visited, loaded>>

\* Mutant: children are queued whether they were seen or not.
WalkUnchecked(segmentNo) ==
  /\ pc = "walk" /\ segmentNo \in loadSubtrees
  /\ loadSubtrees' = (loadSubtrees \ {segmentNo}) \cup ChildrenOf(segmentNo)
  /\ segmentRoots' = IF tree[segmentNo] = <<>> THEN segmentRoots
                     ELSE segmentRoots \cup {segmentNo}
  /\ loaded' = loaded \cup {segmentNo}
  /\ UNCHANGED <<tree, options, todo, segments, visited, pc>>

\* Mutant: only what lies below a root by one step is queued.
WalkShallow(segmentNo) ==
  /\ pc = "walk" /\ segmentNo \in loadSubtrees
  /\ loadSubtrees' = loadSubtrees \ {segmentNo}
  /\ segmentRoots' = IF tree[segmentNo] = <<>> THEN segmentRoots
                     ELSE segmentRoots \cup {segmentNo}
  /\ visited' = visited \cup {segmentNo}
  /\ loaded' = loaded \cup {segmentNo}
  /\ UNCHANGED <<tree, options, todo, segments, pc>>

\* The worklist: a directory is a root again when it has children, and these are
\* queued.
Walk(segmentNo) ==
  /\ pc = "walk" /\ segmentNo \in loadSubtrees \ visited
  /\ loadSubtrees' = (loadSubtrees \ {segmentNo})
                        \cup (ChildrenOf(segmentNo) \ segmentRoots)
  /\ segmentRoots' = IF tree[segmentNo] = <<>> THEN segmentRoots
                     ELSE segmentRoots \cup {segmentNo}
  /\ visited' = visited \cup {segmentNo}
  /\ loaded' = loaded \cup {segmentNo}
  /\ UNCHANGED <<tree, options, todo, segments, pc>>

\* Already processed.
WalkAgain(segmentNo) ==
  /\ pc = "walk" /\ segmentNo \in loadSubtrees \cap visited
  /\ loadSubtrees' = loadSubtrees \ {segmentNo}
  /\ UNCHANGED <<tree, options, todo, segments, segmentRoots, visited, loaded, pc>>

WalkThrows ==
  /\ pc = "walk" /\ loadSubtrees \ (visited \cup loaded) # {}
  /\ pc' = "thrown"
  /\ UNCHANGED <<tree, options, todo, segments, segmentRoots, loadSubtrees,
                 visited, loaded>>

Finish ==
  /\ pc = "walk" /\ loadSubtrees = {}
  /\ pc' = "resolved"
  /\ UNCHANGED <<tree, options, todo, segments, segmentRoots, loadSubtrees,
                 visited, loaded>>

Resting == pc \in {"resolved", "thrown"} /\ UNCHANGED vars

Resolve == \/ ResolvePath \/ PathThrows \/ Start \/ WalkThrows \/ Finish
           \/ \E segmentNo \in SegmentNo : Walk(segmentNo) \/ WalkAgain(segmentNo)
Next == Resolve \/ Resting

Spec == Init /\ [][Next]_vars
FairSpec == Spec /\ WF_vars(Resolve)

-----------------------------------------------------------------------------
\* The segments that a list of paths leads to, by the names alone.
Goals(paths) ==
  {Traverse(p).at : p \in {q \in SX!ToSet(paths) : Traverse(q).found = "yes"}}

Given == options.segmentRoots \cup Goals(options.paths)

\* Everything below a set of segments, the least set with all their children.
Below(roots) ==
  LET step[n \in Nat] == IF n = 0 THEN roots
                         ELSE step[n - 1] \cup UNION {ChildrenOf(d) : d \in step[n - 1]}
  IN UNION {ChildrenOf(d) : d \in step[Cardinality(DOMAIN tree)]}

Resolved == pc = "resolved"

\* A segment below a given path is reached by its parents: it is meant if one of
\* its directories is among the roots, or itself among the segments. Whoever lies
\* elsewhere is not. (resolve, and processValidSegment of MftDiff)
ParentsReach ==
  Resolved =>
    \A s \in DOMAIN tree :
      (\E d \in segmentRoots : s \in ChildrenOf(d)) <=> s \in Below(Given)

\* The given roots are meant themselves, and nothing else is added to what was
\* meant directly. (resolve)
DirectAsGiven ==
  Resolved => segments = options.segments \cup Goals(options.files) \cup Given

\* What resolve() leaves for MftDiff to look at.
ResolvedExact == ParentsReach /\ DirectAsGiven

\* While it runs: whoever was visited has its children in hand, no root is
\* forgotten, and nothing outside the subtrees is touched.
WorkInHand ==
  pc = "walk" =>
    /\ Given \subseteq visited \cup loadSubtrees
    /\ \A d \in visited : ChildrenOf(d) \subseteq visited \cup loadSubtrees
    /\ visited \cup loadSubtrees \subseteq Given \cup Below(Given)
    /\ segmentRoots = {d \in visited : tree[d] # <<>>}

\* The two sets, the worklist and the cache at any time. (resolve)
ResolveInv == TypeOK /\ WorkInHand

\* A tree with the root in itself and files in several directories does not keep
\* it running. (visited)
Ends == <>[](pc \in {"resolved", "thrown"})
=============================================================================
