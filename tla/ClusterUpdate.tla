--------------------------- MODULE ClusterUpdate ---------------------------
(***************************************************************************)
(* What a cluster processor promises its caller, without queues, chunks or *)
(* outstanding I/O: selected clusters of the destination take the source's *)
(* content, in any order, nothing else changes, and "done" is said only    *)
(* when nothing is left to do.                                             *)
(***************************************************************************)
CONSTANTS Clusters,  \* the clusters of both volumes
          Source(_)  \* the content of a cluster of the source

VARIABLES writes,    \* the processor may change the destination at all
          selection, \* the clusters it was given
          target,    \* the content of the destination
          verdict    \* "open", "done" or "thrown"

uvars == <<writes, selection, target, verdict>>

UpdateInit ==
  /\ writes \in BOOLEAN
  /\ selection \in SUBSET Clusters
  /\ DOMAIN target = Clusters
  /\ verdict = "open"

\* A write ends; one that was outstanding when the processor gave up still may.
Update(S) ==
  /\ writes
  /\ verdict # "done"
  /\ target' = [c \in Clusters |-> IF c \in S THEN Source(c) ELSE target[c]]
  /\ UNCHANGED <<writes, selection, verdict>>

Finish ==
  /\ verdict = "open"
  /\ writes => \A c \in selection : target[c] = Source(c)
  /\ verdict' = "done"
  /\ UNCHANGED <<writes, selection, target>>

Fail ==
  /\ verdict = "open"
  /\ verdict' = "thrown"
  /\ UNCHANGED <<writes, selection, target>>

UpdateNext == (\E S \in SUBSET selection : Update(S)) \/ Finish \/ Fail

UpdateSpec == UpdateInit /\ [][UpdateNext]_uvars
=============================================================================
