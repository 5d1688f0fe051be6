------------------------------ MODULE Loading ------------------------------
(***************************************************************************)
(* What main2 loads before it selects clusters (ntfsdd.cpp:677-747): $MFT, *)
(* and then, for the rules of the command line, directories, which resolve *)
(* asks for as it goes. InclusionResolve takes the load of a directory as  *)
(* one step that may throw; here a load is before it in all its steps. An  *)
(* exception or a failed assertion at any place ends the program.          *)
(***************************************************************************)
EXTENDS MftLoader

CONSTANTS IndexClusterLen,                    \* units of $INDEX_ALLOCATION in a cluster
          Directories, BitsPerUnit, Children, \* those of DirLoader
          Trees, Options, Root,               \* those of InclusionResolve
          Volumes                             \* what is loaded from, and the rules

VARIABLES dir, dirIdx, rooted, bitmap, bitsRead, index, blockNo, entries, dirPc
VARIABLES tree, options, todo, inSegments, segmentRoots, loadSubtrees, visited,
          cached, rulesPc

dirVars == <<dir, dirIdx, rooted, bitmap, bitsRead, index, blockNo, entries, dirPc>>
rulesVars == <<tree, options, todo, inSegments, segmentRoots, loadSubtrees, visited,
               cached, rulesPc>>
loadingVars == <<vars, dirVars, rulesVars>>

Dir == INSTANCE DirLoader WITH ClusterLen <- IndexClusterLen, idx <- dirIdx, pc <- dirPc
Rules == INSTANCE InclusionResolve WITH
           segments <- inSegments, loaded <- cached, pc <- rulesPc

ASSUME DirectoryAssumption == Dir!DirectoriesWhole
ASSUME TreeAssumption == Rules!TreesWhole

LoadingInit ==
  /\ \E v \in Volumes : /\ image = v.image /\ dir = v.dir
                        /\ tree = v.tree /\ options = v.options
  /\ Init /\ Dir!Init /\ Rules!Init

MftStep   == UNCHANGED <<dirVars, rulesVars>>
DirStep   == pc = "loaded" /\ UNCHANGED <<vars, rulesVars>>
RulesStep == dirPc = "loaded" /\ UNCHANGED <<vars, dirVars>>

LoadingStep ==
  \/ MftStep /\ Unreachable
  \/ MftStep /\ ReadFails
  \/ MftStep /\ LoadSegment
  \/ MftStep /\ ReadEntry
  \/ MftStep /\ ReadCluster
  \/ MftStep /\ AdvanceReturns
  \/ MftStep /\ Finish
  \/ DirStep /\ Dir!ReadFails
  \/ DirStep /\ Dir!LoadSegment
  \/ DirStep /\ Dir!TakeBits
  \/ DirStep /\ Dir!ReadBitmap
  \/ DirStep /\ Dir!BitmapReturns
  \/ DirStep /\ Dir!TakeBlock
  \/ DirStep /\ Dir!ReadIndex
  \/ DirStep /\ Dir!IndexReturns
  \/ DirStep /\ Dir!Finish
  \/ RulesStep /\ Rules!ResolvePath
  \/ RulesStep /\ Rules!PathThrows
  \/ RulesStep /\ Rules!Start
  \/ \E segmentNo \in Rules!SegmentNo : RulesStep /\ Rules!Walk(segmentNo)
  \/ \E segmentNo \in Rules!SegmentNo : RulesStep /\ Rules!WalkAgain(segmentNo)
  \/ RulesStep /\ Rules!WalkThrows
  \/ RulesStep /\ Rules!Finish

Over == \/ pc \in {"refused", "ioError"}
        \/ dirPc \in {"refused", "ioError"}
        \/ rulesPc \in {"resolved", "thrown"}
LoadingOver == Over /\ UNCHANGED loadingVars

LoadingNext == LoadingStep \/ LoadingOver
LoadingSpec == LoadingInit /\ [][LoadingNext]_loadingVars /\ WF_loadingVars(LoadingStep)

-----------------------------------------------------------------------------
\* The entries of a directory at any time: those of the blocks passed so far,
\* each with its own bit, none twice. (IndexProcessor::tryReadEntry)
DirInv == Dir!LoaderInv

\* A directory whose attributes are in one piece, and in order, is read to the
\* end. (IndexProcessor::advance, assert_all_processed)
DirParsedInOrder == Dir!ParsedInOrder

\* So is any other, the comment at mftdir.cpp:331 says.
DirMultiSegmentParsed == Dir!MultiSegmentParsed

\* Loading a directory comes to an end. (the loops of advance and load)
DirEnds == pc = "loaded" ~> Dir!Ended

\* The two sets, the worklist and the cache of resolve at any time. (resolve)
RulesInv == Rules!ResolveInv

\* What resolve leaves for MftDiff to look at. (resolve)
RulesExact == Rules!ResolvedExact

\* resolve comes to an end, whatever leads back to where. (visited)
RulesEnd == dirPc = "loaded" ~> rulesPc \in {"resolved", "thrown"}
=============================================================================
