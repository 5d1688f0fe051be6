---------------------------- MODULE CloneSession ----------------------------
(***************************************************************************)
(* ntfsdd run after run (ntfsdd.cpp:606-1009): a source volume in use, a   *)
(* destination that should follow it, and sessions that lock the source or *)
(* take a shadow copy of it, select clusters, verify the selection, and    *)
(* compare or copy them - until they end or are interrupted.               *)
(*                                                                         *)
(* A volume is a function from clusters to what they hold. Each file's     *)
(* MFT record is a cluster of its own, named by the file: [stamp, at] says *)
(* when the record was last changed and where the file's data is. $Boot    *)
(* and $Bitmap are a cluster each; the latter holds the set of data        *)
(* clusters in use. The other clusters hold the stamp of their last write. *)
(*                                                                         *)
(* Selection is that of MftDiff, processing that of ClusterUpdate: chosen  *)
(* clusters are written one by one in any order.                           *)
(***************************************************************************)
EXTENDS Integers, FiniteSets

CONSTANTS Files,          \* files with an MFT record
          SystemFiles,    \* of those, always dirty; their data may change alone
          DataClusters,   \* where data can be
          Boot, Bitmap,   \* the clusters of $Boot and $Bitmap
          None,           \* the place of a file without data
          Sessions,       \* the command lines that may be run
          MaxChanges,     \* bound: changes made to the source
          MaxFailures     \* bound: sessions that are interrupted

Modes   == {"all", "bitmap", "mft", "antimft"}
Actions == {"list", "compare", "copy", "rcw"}
Session == [mode : Modes, action : Actions, listing : BOOLEAN,
            shadow : BOOLEAN, blankOverwrite : BOOLEAN, exitCode : BOOLEAN]

ASSUME SessionAssumption ==
  /\ Sessions \subseteq Session
  /\ SystemFiles \subseteq Files
  /\ MaxChanges \in Nat /\ MaxFailures \in Nat

\* A cluster has one use, and no cluster is the absence of one.
ASSUME ClustersAssumption ==
  /\ Boot # Bitmap
  /\ {Boot, Bitmap} \cap (Files \cup DataClusters) = {}
  /\ Files \cap DataClusters = {}
  /\ None \notin DataClusters

VARIABLES src,      \* the source volume as the applications see it
          dest,     \* the destination
          clock,    \* the stamp of the last change to the source
          session,  \* the command line of the last session
          pc,       \* "idle", "locked", "processing"
          view,     \* the source as the session sees it
          chosen,   \* srcSelect
          todo,     \* the clusters of chosen not processed yet
          differ,   \* the clusters found to differ
          outcome,  \* of the last session: "none", "done", "refused", "failed"
          exit,     \* its exit code
          failures, \* how many sessions were interrupted
          healthy   \* history: the writes on the destination are a whole clone
                    \* and whole updates of it

outside == <<src, clock>>
vars == <<src, dest, clock, session, pc, view, chosen, todo, differ,
          outcome, exit, failures, healthy>>

Metadata == Files \cup {Boot, Bitmap}
Clusters == Metadata \cup DataClusters

\* The clusters whose content matters.
Used(v) == Metadata \cup v[Bitmap]
Differing(v, w) == {c \in Clusters : v[c] # w[c]}
Mirrors(v, w) == Used(v) \cap Differing(v, w) = {}

DataOf(v, F) == {v[f].at : f \in F} \ {None}

Volume(v) ==
  /\ DOMAIN v = Clusters
  /\ \A f \in Files : v[f] \in [stamp : 0 .. MaxChanges, at : DataClusters \cup {None}]
  /\ v[Boot] \in BOOLEAN
  /\ v[Bitmap] \subseteq DataClusters
  /\ \A c \in DataClusters : v[c] \in 0 .. MaxChanges

TypeOK ==
  /\ Volume(src) /\ Volume(dest) /\ Volume(view)
  /\ clock \in 0 .. MaxChanges
  /\ session \in Sessions
  /\ pc \in {"idle", "locked", "processing"}
  /\ todo \subseteq chosen /\ chosen \subseteq Clusters /\ differ \subseteq chosen
  /\ outcome \in {"none", "done", "refused", "failed"}
  /\ exit \in {0, 1}
  /\ failures \in 0 .. MaxFailures
  /\ healthy \in BOOLEAN

\* A new volume: no data yet.
Fresh == [c \in Clusters |->
            IF c \in Files THEN [stamp |-> 0, at |-> None]
            ELSE IF c = Boot THEN TRUE ELSE IF c = Bitmap THEN {} ELSE 0]

\* bBlankTarget: the destination is not looked at before it is overwritten.
BlankTarget(s) ==
  s.action = "copy" /\ s.mode \in {"all", "bitmap"} /\ s.blankOverwrite

\* The destination is a clone, or was never formatted.
Init ==
  /\ src = Fresh /\ view = Fresh
  /\ \/ dest = Fresh
     \/ dest = [Fresh EXCEPT ![Boot] = FALSE] /\ \E s \in Sessions : BlankTarget(s)
  /\ healthy = dest[Boot]
  /\ clock = 0
  /\ session \in Sessions
  /\ pc = "idle"
  /\ chosen = {} /\ todo = {} /\ differ = {}
  /\ outcome = "none" /\ exit = 0 /\ failures = 0

-----------------------------------------------------------------------------
(* Applications and NTFS change the source whenever it is not locked. A    *)
(* change on the volume is complete: NTFS's log sees to that.              *)

Changeable ==
  /\ clock < MaxChanges
  /\ pc = "idle" \/ session.shadow
  /\ clock' = clock + 1
  /\ UNCHANGED <<dest, session, pc, view, chosen, todo, differ,
                 outcome, exit, failures, healthy>>

\* File f gets its data at c, where it is or where nothing is.
Write(f, c) ==
  /\ Changeable
  /\ c = src[f].at \/ c \notin src[Bitmap]
  /\ src' = [src EXCEPT ![f] = [stamp |-> clock + 1, at |-> c],
                        ![c] = clock + 1,
                        ![Bitmap] = (@ \ {src[f].at}) \cup {c}]

Delete(f) ==
  /\ Changeable
  /\ src[f].at # None
  /\ src' = [src EXCEPT ![f] = [stamp |-> clock + 1, at |-> None],
                        ![Bitmap] = @ \ {src[f].at}]

\* "Some system files may get updated without the MFT entry changing at all."
WriteSilently(f) ==
  /\ Changeable
  /\ f \in SystemFiles /\ src[f].at # None
  /\ src' = [src EXCEPT ![src[f].at] = clock + 1]

-----------------------------------------------------------------------------
(* One session.                                                            *)

Writes(s) == s.action \in {"copy", "rcw"}

\* The source is locked, or the session works on a shadow copy of it.
Begin(s) ==
  /\ pc = "idle"
  /\ BlankTarget(s) \/ dest[Boot]
  /\ session' = s
  /\ view' = src
  /\ pc' = "locked"
  /\ outcome' = "none"
  /\ chosen' = {} /\ todo' = {} /\ differ' = {} /\ exit' = 0
  /\ UNCHANGED <<outside, dest, failures, healthy>>

\* Mutant: system files are not added to the changed ones.
DirtyFilesByRecord(v, w) == {f \in Files : v[f] # w[f]}

\* MftDiff: the files whose records differ and the system files, $MFT, $Bitmap
\* and $Boot among them.
DirtyFiles(v, w) == SystemFiles \cup {f \in Files : v[f] # w[f]}
MftSelection(v, w) == Metadata \cup DataOf(v, DirtyFiles(v, w))

\* The selection that is verified. It is inverted afterwards in antimft mode.
Selection(s) ==
  CASE s.mode = "all"    -> Clusters
    [] s.mode = "bitmap" -> Used(view)
    [] OTHER             -> MftSelection(view, dest)

\* Mutant: the operands of the inversion are swapped.
InvertedSwapped(s) ==
  IF s.mode = "antimft" THEN Selection(s) \ Used(view) ELSE Selection(s)

Inverted(s) == IF s.mode = "antimft" THEN Used(view) \ Selection(s) ELSE Selection(s)

\* Mutant: the two bitmaps are swapped.
OldClustersCovered(s) ==
  LET new == IF BlankTarget(s) THEN Used(view) ELSE Used(dest) \ Used(view)
  IN new \subseteq Selection(s)

\* verifySelectionContainsNewClusters.
NewClustersCovered(s) ==
  LET new == IF BlankTarget(s) THEN Used(view) ELSE Used(view) \ Used(dest)
  IN new \subseteq Selection(s)

\* "File map covers the entire cluster selection": the scan that lists files
\* takes every file for dirty where the selection did not come from it.
ListedClusters(s) ==
  Metadata \cup DataOf(view, IF s.mode \in {"all", "bitmap"} THEN Files
                             ELSE DirtyFiles(view, dest))
ListingCovers(s) ==
  s.listing => Cardinality(ListedClusters(s)) = Cardinality(Selection(s))

\* The selection is made and verified.
Select ==
  /\ pc = "locked"
  /\ NewClustersCovered(session) /\ ListingCovers(session)
  /\ chosen' = Inverted(session)
  /\ todo' = IF session.action = "list" THEN {} ELSE chosen'
  /\ pc' = "processing"
  /\ UNCHANGED <<outside, dest, session, view, differ, outcome, exit, failures, healthy>>

Refuse ==
  /\ pc = "locked"
  /\ ~(NewClustersCovered(session) /\ ListingCovers(session))
  /\ pc' = "idle"
  /\ outcome' = "refused"
  /\ UNCHANGED <<outside, dest, session, view, chosen, todo, differ, exit,
                 failures, healthy>>

\* Mutant: the volume is read instead of its shadow copy.
ProcessLive(c) ==
  /\ pc = "processing"
  /\ c \in todo
  /\ todo' = todo \ {c}
  /\ differ' = IF session.action # "copy" /\ src[c] # dest[c]
               THEN differ \cup {c} ELSE differ
  /\ dest' = IF Writes(session) THEN [dest EXCEPT ![c] = src[c]] ELSE dest
  /\ UNCHANGED <<outside, session, pc, view, chosen, outcome, exit, failures, healthy>>

\* One cluster is compared or copied. (ClusterDiffComparer, ClusterDiffWriter,
\* ClusterCopier)
Process(c) ==
  /\ pc = "processing"
  /\ c \in todo
  /\ todo' = todo \ {c}
  /\ differ' = IF session.action # "copy" /\ view[c] # dest[c]
               THEN differ \cup {c} ELSE differ
  /\ dest' = IF Writes(session) THEN [dest EXCEPT ![c] = view[c]] ELSE dest
  /\ UNCHANGED <<outside, session, pc, view, chosen, outcome, exit, failures, healthy>>

\* A whole clone makes the destination healthy, whatever it was before.
Heals(s) == Writes(s) /\ s.mode \in {"all", "bitmap"}

\* bReturnExitCode.
ExitCode ==
  IF session.exitCode /\ \/ session.action = "list" /\ chosen # {}
                         \/ session.action = "compare" /\ differ # {}
  THEN 1 ELSE 0

End ==
  /\ pc = "processing"
  /\ todo = {}
  /\ pc' = "idle"
  /\ outcome' = "done"
  /\ exit' = ExitCode
  /\ healthy' = (healthy \/ Heals(session))
  /\ UNCHANGED <<outside, dest, session, view, chosen, todo, differ, failures>>

\* A read or a write fails, the process is stopped, the power is lost.
Interrupt ==
  /\ pc # "idle"
  /\ failures < MaxFailures
  /\ failures' = failures + 1
  /\ pc' = "idle"
  /\ outcome' = "failed"
  /\ healthy' = (healthy /\ ~(pc = "processing" /\ Writes(session)))
  /\ UNCHANGED <<outside, dest, session, view, chosen, todo, differ, exit>>

Change == \/ \E f \in Files : Delete(f) \/ WriteSilently(f)
          \/ \E f \in Files, c \in DataClusters : Write(f, c)

Next == \/ Change
        \/ \E s \in Sessions : Begin(s)
        \/ Select
        \/ Refuse
        \/ \E c \in Clusters : Process(c)
        \/ End
        \/ Interrupt

\* The user runs the tool again and again, and a session comes to its end.
Fairness ==
  /\ WF_vars(\E s \in Sessions : Begin(s))
  /\ WF_vars(Select) /\ WF_vars(Refuse) /\ WF_vars(End)
  /\ \A c \in Clusters : WF_vars(Process(c))

Spec == Init /\ [][Next]_vars
FairSpec == Spec /\ Fairness

-----------------------------------------------------------------------------
Ended == pc = "idle" /\ outcome = "done"
FullSelection == session.mode \in {"all", "bitmap"}

\* A session that wrote and ended leaves a mirror of what it saw of the source:
\* always when it selected everything, and in mft mode when all writes since
\* the clone were whole sessions. (main2)
SessionMirrors ==
  Ended /\ Writes(session) /\ (FullSelection \/ (session.mode = "mft" /\ healthy))
    => Mirrors(view, dest)

\* Between whole sessions, no change of a file goes unseen: where the records
\* agree, so do the data, system files apart. (MftDiff::processValidSegment)
NothingUndetected ==
  pc = "idle" /\ healthy =>
    \A f \in Files \ SystemFiles :
      src[f] = dest[f] /\ src[f].at # None => src[src[f].at] = dest[src[f].at]

\* What a session starts from.
SessionInv == TypeOK /\ NothingUndetected

\* The safety checks refuse a session only when an interrupted one went before
\* - or when files are to be listed for a selection of all clusters.
\* (verifySelectionContainsNewClusters, ntfsdd.cpp:904)
RefusalMeansDamage ==
  outcome = "refused" => \/ ~healthy
                          \/ (session.mode = "all" /\ session.listing)

\* "do a compare --select antimft --exit-code scan from time to time to detect
\* any slippages" (README.md:322): one that ends with exit code 0 proves that an
\* update in mft mode would make a mirror.
AntiMftDetects ==
  Ended /\ session.mode = "antimft" /\ session.action = "compare"
        /\ session.exitCode /\ exit = 0
    => Used(view) \cap Differing(view, dest) \subseteq MftSelection(view, dest)

\* Updates that are never interrupted make up for every change: once the source
\* rests, the destination comes to mirror it and stays so, provided that the
\* user keeps running sessions that write.
EveryChangeCaught ==
  [](failures = 0) /\ []<>(Ended /\ Writes(session)) => <>[]Mirrors(src, dest)

\* "every change gets caught eventually" (README.md:355): sooner or later the
\* destination mirrors the source, or the last session said that it failed.
CaughtOrReported == []<>(Mirrors(src, dest) \/ outcome \in {"refused", "failed"})
=============================================================================
