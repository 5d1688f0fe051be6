------------------------ MODULE CloneSession_proofs ------------------------
(***************************************************************************)
(* Proofs about CloneSession, for any files, clusters and command lines,   *)
(* any number of changes and any number of interrupted sessions.           *)
(*                                                                         *)
(* The argument: the destination's records are never newer than those the  *)
(* session saw, and these never newer than the source's; a record's stamp  *)
(* says which version of the file it is (Older). Where the session's view  *)
(* and the source have the same record they have the same data (Agree), as *)
(* a change of an ordinary file gives it a new stamp and touches no other  *)
(* file's clusters. The destination agrees with the view, too, as long as  *)
(* it is healthy - except while a session writes records and data in any   *)
(* order. What ends such a session is that every cluster in use is then    *)
(* either written or left alone because its file was clean.                *)
(***************************************************************************)
EXTENDS CloneSession, TLAPS

USE SessionAssumption, ClustersAssumption

\* The clusters in use are those the files' records point to, each to its own.
Sound(v) ==
  /\ v[Boot]
  /\ \A f \in Files : v[f].at # None => v[f].at \in v[Bitmap]
  /\ \A c \in v[Bitmap] : \E f \in Files : v[f].at = c
  /\ \A f, g \in Files : v[f].at # None /\ v[f].at = v[g].at => f = g

\* Every record of v is that of w or an earlier version of it.
Older(v, w) ==
  \A f \in Files : /\ v[f].stamp <= w[f].stamp
                   /\ v[f].stamp = w[f].stamp => v[f] = w[f]

\* Where the records of an ordinary file agree, so do its data.
Agree(v, w) ==
  \A f \in Files \ SystemFiles :
    v[f] = w[f] /\ v[f].at # None => v[v[f].at] = w[v[f].at]

\* The records of v point to clusters its bitmap has in use.
InUse(v) == \A f \in Files : v[f].at # None => v[f].at \in v[Bitmap]

\* A session that writes records and data in any order is at work.
MidWrite == pc = "processing" /\ Writes(session) /\ session.mode # "antimft"

\* The session has a selection, or ended with it.
Selected == pc = "processing" \/ Ended

SourceInv ==
  /\ Sound(src) /\ Sound(view)
  /\ \A f \in Files : src[f].stamp <= clock
  /\ Older(view, src) /\ Agree(view, src)

DestInv ==
  /\ Older(dest, view)
  /\ healthy /\ ~MidWrite => Agree(dest, view) /\ InUse(dest)

\* How far the session has come.
ProgressInv ==
  /\ pc = "locked" => differ = {}
  /\ Ended => todo = {} /\ exit = ExitCode
  /\ Selected =>
       /\ FullSelection => Used(view) \subseteq chosen
       /\ session.mode = "antimft" => chosen \cap Metadata = {}
       /\ Writes(session) => \A c \in chosen \ todo : dest[c] = view[c]
       /\ Writes(session) /\ session.mode = "mft" /\ healthy =>
            \A c \in Used(view) \ chosen : dest[c] = view[c]
       /\ session.mode = "antimft" /\ session.action = "compare" =>
            /\ chosen = Used(view) \ MftSelection(view, dest)
            /\ \A c \in chosen \ todo : dest[c] # view[c] => c \in differ

IInv == TypeOK /\ SourceInv /\ DestInv /\ ProgressInv /\ RefusalMeansDamage

-----------------------------------------------------------------------------
(* Volumes and the relations between them.                                 *)

\* Where each cluster is of what kind. (MFT records, $Boot, $Bitmap, data)
LEMMA VolumeFacts ==
  ASSUME NEW v, Volume(v)
  PROVE  /\ DOMAIN v = Clusters
         /\ \A f \in Files : /\ f \in Clusters /\ v[f].stamp \in 0 .. MaxChanges
                             /\ v[f].at \in DataClusters \cup {None}
                             /\ v[f] = [stamp |-> v[f].stamp, at |-> v[f].at]
         /\ Used(v) \subseteq Clusters
         /\ Metadata \subseteq Clusters /\ DataClusters \subseteq Clusters
         /\ Boot \in Metadata /\ Bitmap \in Metadata
         /\ Boot \in Clusters /\ Bitmap \in Clusters
         /\ Files \subseteq Metadata
  BY DEF Volume, Clusters, Metadata, Used

\* Stamps are numbers.
LEMMA StampFacts ==
  ASSUME NEW v, Volume(v), NEW f \in Files
  PROVE  v[f].stamp \in Nat
  BY DEF Volume

\* Versions follow one another.
LEMMA OlderTrans ==
  ASSUME NEW u, NEW v, NEW w, Volume(u), Volume(v), Volume(w),
         Older(u, v), Older(v, w)
  PROVE  Older(u, w)
<1> SUFFICES ASSUME NEW f \in Files
             PROVE  /\ u[f].stamp <= w[f].stamp
                    /\ u[f].stamp = w[f].stamp => u[f] = w[f]
  BY DEF Older
<1>1. /\ u[f].stamp \in Nat /\ v[f].stamp \in Nat /\ w[f].stamp \in Nat
      /\ u[f].stamp <= v[f].stamp /\ v[f].stamp <= w[f].stamp
      /\ u[f].stamp = v[f].stamp => u[f] = v[f]
      /\ v[f].stamp = w[f].stamp => v[f] = w[f]
  BY StampFacts DEF Older
<1>2. u[f].stamp = w[f].stamp => u[f].stamp = v[f].stamp /\ v[f].stamp = w[f].stamp
  BY <1>1
<1> QED
  BY <1>1, <1>2

\* If u is older than v and v than w, what u has in common with w it has in
\* common with v: no change goes unseen from one session to the next.
\* (MftDiff::processValidSegment)
LEMMA AgreeTrans ==
  ASSUME NEW u, NEW v, NEW w, Volume(u), Volume(v), Volume(w),
         Older(u, v), Older(v, w), Agree(u, v), Agree(v, w)
  PROVE  Agree(u, w)
<1> SUFFICES ASSUME NEW f \in Files \ SystemFiles, u[f] = w[f], u[f].at # None
             PROVE  u[u[f].at] = w[u[f].at]
  BY DEF Agree
<1>1. /\ u[f].stamp \in Nat /\ v[f].stamp \in Nat /\ w[f].stamp \in Nat
      /\ u[f].stamp <= v[f].stamp /\ v[f].stamp <= w[f].stamp
      /\ u[f].stamp = w[f].stamp
  BY StampFacts DEF Older
<1>2. u[f] = v[f] /\ v[f] = w[f]
  <2>1. u[f].stamp = v[f].stamp /\ v[f].stamp = w[f].stamp
    BY <1>1
  <2> QED
    BY <2>1 DEF Older
<1>3. v[f].at = u[f].at /\ v[f].at # None
  BY <1>2
<1>4. u[u[f].at] = v[u[f].at]
  BY <1>2 DEF Agree
<1>5. v[v[f].at] = w[v[f].at]
  BY <1>2, <1>3 DEF Agree
<1> QED
  BY <1>3, <1>4, <1>5

\* Where w has what v uses, their records and bitmaps are the same, and so are
\* the files' data.
LEMMA MirrorAgrees ==
  ASSUME NEW v, NEW w, Volume(v), Volume(w), Sound(v),
         \A c \in Used(v) : w[c] = v[c]
  PROVE  Agree(w, v) /\ InUse(w) /\ Mirrors(v, w)
<1>1. ASSUME NEW f \in Files
      PROVE  w[f] = v[f] /\ (v[f].at # None => v[f].at \in Used(v))
  <2>1. f \in Used(v)
    BY DEF Used, Metadata
  <2>2. v[f].at # None => v[f].at \in v[Bitmap]
    BY DEF Sound
  <2> QED
    BY <2>1, <2>2 DEF Used
<1>2. w[Bitmap] = v[Bitmap]
  BY DEF Used, Metadata
<1>3. Agree(w, v)
  BY <1>1 DEF Agree
<1>4. InUse(w)
  BY <1>1, <1>2 DEF InUse, Sound
<1>5. Mirrors(v, w)
  BY DEF Mirrors, Differing
<1> QED
  BY <1>3, <1>4, <1>5

\* A cluster in use that MftDiff does not select holds the data of a file
\* whose records agree. (MftDiff, "dirty" files)
LEMMA UnselectedIsClean ==
  ASSUME NEW v, NEW w, Volume(v), Volume(w), Sound(v),
         NEW c \in Used(v) \ MftSelection(v, w)
  PROVE  \E f \in Files \ SystemFiles :
           v[f] = w[f] /\ v[f].at = c /\ v[f].at # None
<1>1. c \in v[Bitmap] /\ c \in DataClusters
  BY DEF Used, MftSelection, Volume
<1>2. PICK f \in Files : v[f].at = c
  BY <1>1 DEF Sound
<1>3. v[f].at # None
  BY <1>1, <1>2
<1>4. f \notin DirtyFiles(v, w)
  BY <1>2, <1>3 DEF MftSelection, DataOf
<1> QED
  BY <1>2, <1>3, <1>4 DEF DirtyFiles

-----------------------------------------------------------------------------
(* The source changes.                                                     *)

\* w is volume v after file f got a new version, or a system file its data.
Changed(v, w, f) ==
  /\ \A g \in Files \ {f} :
       /\ w[g] = v[g]
       /\ v[g].at # None => w[v[g].at] = v[v[g].at]
  /\ w[f].stamp = clock + 1 \/ (f \in SystemFiles /\ w[f] = v[f])

\* A change gives the file a new version or belongs to a system file, so what
\* the session saw stays an earlier state of the source. ("some system files
\* may get updated without the MFT entry changing at all")
LEMMA ChangedKeeps ==
  ASSUME TypeOK, SourceInv, NEW w, Volume(w), NEW f \in Files, Changed(src, w, f)
  PROVE  /\ Older(view, w) /\ Agree(view, w)
         /\ \A g \in Files : w[g].stamp <= clock + 1
<1>0. Volume(src) /\ Volume(view) /\ clock \in Nat
  BY DEF TypeOK
<1>1. ASSUME NEW g \in Files
      PROVE  /\ w[g].stamp <= clock + 1
             /\ view[g].stamp <= w[g].stamp
             /\ view[g].stamp = w[g].stamp => view[g] = w[g]
             /\ view[g].stamp = w[g].stamp => w[g] = src[g]
  <2>1. /\ view[g].stamp \in Nat /\ src[g].stamp \in Nat /\ w[g].stamp \in Nat
        /\ view[g].stamp <= src[g].stamp /\ src[g].stamp <= clock
        /\ view[g].stamp = src[g].stamp => view[g] = src[g]
    BY <1>0, StampFacts DEF SourceInv, Older
  <2>2. CASE w[g] = src[g]
    BY <1>0, <2>1, <2>2
  <2>3. CASE w[g].stamp = clock + 1
    <3>1. view[g].stamp < w[g].stamp
      BY <1>0, <2>1, <2>3
    <3> QED
      BY <1>0, <2>1, <2>3, <3>1
  <2> QED
    BY <2>2, <2>3 DEF Changed
<1>2. ASSUME NEW g \in Files \ SystemFiles, view[g] = w[g], view[g].at # None
      PROVE  view[view[g].at] = w[view[g].at]
  <2>1. w[g] = src[g]
    BY <1>1, <1>2
  <2>2. g # f
    <3>1. w[g].stamp # clock + 1
      <4>1. src[g].stamp \in Nat /\ src[g].stamp <= clock
        BY <1>0, StampFacts DEF SourceInv
      <4> QED
        BY <1>0, <2>1, <4>1
    <3> QED
      BY <1>2, <3>1 DEF Changed
  <2>3. view[g] = src[g] /\ src[g].at # None
    BY <1>2, <2>1
  <2>4. view[view[g].at] = src[view[g].at]
    BY <1>2, <2>3 DEF SourceInv, Agree
  <2>5. w[src[g].at] = src[src[g].at]
    BY <2>2, <2>3 DEF Changed
  <2> QED
    BY <2>3, <2>4, <2>5
<1> QED
  BY <1>1, <1>2 DEF Older, Agree

\* The data of different files are in different places, none of them the place
\* of a record. (clusters of the source volume)
LEMMA OwnPlaces ==
  ASSUME NEW v, Volume(v), Sound(v), NEW f \in Files, NEW g \in Files \ {f},
         v[g].at # None
  PROVE  /\ v[g].at \in DataClusters \ {v[f].at}
         /\ v[g].at \notin Metadata
         /\ v[g].at \in v[Bitmap]
<1>1. v[g].at \in DataClusters /\ v[g].at \in v[Bitmap]
  BY DEF Volume, Sound
<1>2. v[g].at # v[f].at
  BY DEF Sound
<1>3. v[g].at \notin Metadata
  BY <1>1 DEF Metadata
<1> QED
  BY <1>1, <1>2, <1>3

\* What a change by file f of the source leaves as it was; and what follows
\* for the session and the destination.
LEMMA OutsideStep ==
  ASSUME IInv, Changeable, NEW f \in Files, Volume(src'), Sound(src'),
         Changed(src, src', f)
  PROVE  IInv'
<1>0. TypeOK /\ SourceInv
  BY DEF IInv
<1>1. /\ clock < MaxChanges /\ clock' = clock + 1
      /\ UNCHANGED <<dest, session, pc, view, chosen, todo, differ,
                     outcome, exit, failures, healthy>>
  BY DEF Changeable
<1>2. clock' \in 0 .. MaxChanges
  BY <1>0, <1>1 DEF TypeOK
<1>3. TypeOK'
  BY <1>0, <1>1, <1>2 DEF TypeOK
<1>4. SourceInv'
  <2>1. /\ Older(view, src') /\ Agree(view, src')
        /\ \A g \in Files : src'[g].stamp <= clock + 1
    BY <1>0, ChangedKeeps
  <2>2. Sound(view)
    BY <1>0 DEF SourceInv
  <2> QED
    BY <1>1, <2>1, <2>2 DEF SourceInv
<1>5. DestInv' /\ RefusalMeansDamage'
  BY <1>1 DEF IInv, DestInv, MidWrite, RefusalMeansDamage
<1>6. ProgressInv'
  BY <1>1 DEF IInv, ProgressInv, Selected, Ended, ExitCode, FullSelection
<1> QED
  BY <1>3, <1>4, <1>5, <1>6 DEF IInv

\* File f is written where its data are or where none are.
LEMMA WriteStep ==
  ASSUME IInv, NEW f \in Files, NEW c \in DataClusters, Write(f, c)
  PROVE  IInv'
<1>0. TypeOK /\ SourceInv /\ Volume(src) /\ Sound(src) /\ Changeable
  BY DEF IInv, TypeOK, SourceInv, Write
<1>1. /\ DOMAIN src' = Clusters
      /\ src'[f] = [stamp |-> clock + 1, at |-> c]
      /\ src'[c] = clock + 1
      /\ src'[Bitmap] = (src[Bitmap] \ {src[f].at}) \cup {c}
      /\ \A x \in Clusters \ {f, c, Bitmap} : src'[x] = src[x]
  <2>1. f # c /\ f # Bitmap /\ c # Bitmap /\ f \in Clusters /\ c \in Clusters
        /\ Bitmap \in Clusters
    BY DEF Clusters, Metadata
  <2>2. DOMAIN src = Clusters
    BY <1>0 DEF Volume
  <2> QED
    BY <2>1, <2>2 DEF Write
<1>2. c = src[f].at \/ c \notin src[Bitmap]
  BY DEF Write
<1>3. clock + 1 \in 0 .. MaxChanges /\ c # None
  BY <1>0 DEF TypeOK, Changeable
<1>4. \A g \in Files \ {f} : src'[g] = src[g]
  BY <1>1 DEF Clusters, Metadata
<1>5. Volume(src')
  <2>1. \A g \in Files : src'[g] \in [stamp : 0 .. MaxChanges, at : DataClusters \cup {None}]
    BY <1>0, <1>1, <1>3, <1>4 DEF Volume
  <2>2. src'[Boot] \in BOOLEAN
    BY <1>0, <1>1 DEF Volume, Clusters, Metadata
  <2>3. src'[Bitmap] \subseteq DataClusters
    BY <1>0, <1>1 DEF Volume
  <2>4. \A d \in DataClusters : src'[d] \in 0 .. MaxChanges
    BY <1>0, <1>1, <1>3 DEF Volume, Clusters
  <2> QED
    BY <1>1, <2>1, <2>2, <2>3, <2>4 DEF Volume
<1>6. ASSUME NEW g \in Files \ {f}, src[g].at # None
      PROVE  src[g].at \in Clusters \ {f, c, Bitmap} /\ src[g].at \in src'[Bitmap]
  <2>1. /\ src[g].at \in DataClusters \ {src[f].at}
        /\ src[g].at \notin Metadata
        /\ src[g].at \in src[Bitmap]
    BY <1>0, <1>6, OwnPlaces
  <2> QED
    BY <1>1, <1>2, <2>1 DEF Clusters, Metadata
<1>7. Changed(src, src', f)
  <2>1. src'[f].stamp = clock + 1
    BY <1>1
  <2>2. \A g \in Files \ {f} : src[g].at # None => src'[src[g].at] = src[src[g].at]
    BY <1>1, <1>6
  <2> QED
    BY <1>4, <2>1, <2>2 DEF Changed
<1>8. Sound(src')
  <2>1. src'[Boot]
    BY <1>0, <1>1 DEF Sound, Clusters, Metadata
  <2>2. src'[f].at = c
    BY <1>1
  <2>3. \A g \in Files : src'[g].at # None => src'[g].at \in src'[Bitmap]
    BY <1>1, <1>4, <1>6, <2>2
  <2>4. ASSUME NEW d \in src'[Bitmap]
        PROVE  \E g \in Files : src'[g].at = d
    <3>1. CASE d = c
      BY <2>2, <3>1
    <3>2. CASE d # c
      <4>1. d \in src[Bitmap] /\ d # src[f].at
        BY <1>1, <3>2
      <4>2. PICK g \in Files : src[g].at = d
        BY <1>0, <4>1 DEF Sound
      <4> QED
        BY <1>4, <4>1, <4>2
    <3> QED
      BY <3>1, <3>2
  <2>5. ASSUME NEW g \in Files, NEW h \in Files, src'[g].at # None,
               src'[g].at = src'[h].at
        PROVE  g = h
    <3>1. CASE g # f /\ h # f
      <4>1. src[g].at # None /\ src[g].at = src[h].at
        BY <1>4, <2>5, <3>1
      <4> QED
        BY <1>0, <4>1 DEF Sound
    <3>2. CASE g = f /\ h # f
      BY <1>3, <1>4, <1>6, <2>2, <2>5, <3>2
    <3>3. CASE g # f /\ h = f
      BY <1>3, <1>4, <1>6, <2>2, <2>5, <3>3
    <3> QED
      BY <3>1, <3>2, <3>3
  <2> QED
    BY <2>1, <2>3, <2>4, <2>5 DEF Sound
<1> QED
  BY <1>0, <1>5, <1>7, <1>8, OutsideStep

\* File f is deleted.
LEMMA DeleteStep ==
  ASSUME IInv, NEW f \in Files, Delete(f)
  PROVE  IInv'
<1>0. TypeOK /\ SourceInv /\ Volume(src) /\ Sound(src) /\ Changeable
  BY DEF IInv, TypeOK, SourceInv, Delete
<1>1. /\ DOMAIN src' = Clusters
      /\ src'[f] = [stamp |-> clock + 1, at |-> None]
      /\ src'[Bitmap] = src[Bitmap] \ {src[f].at}
      /\ \A x \in Clusters \ {f, Bitmap} : src'[x] = src[x]
  <2>1. f # Bitmap /\ f \in Clusters /\ Bitmap \in Clusters
    BY DEF Clusters, Metadata
  <2>2. DOMAIN src = Clusters
    BY <1>0 DEF Volume
  <2> QED
    BY <2>1, <2>2 DEF Delete
<1>3. clock + 1 \in 0 .. MaxChanges
  BY <1>0 DEF TypeOK, Changeable
<1>4. \A g \in Files \ {f} : src'[g] = src[g]
  BY <1>1 DEF Clusters, Metadata
<1>5. Volume(src')
  <2>1. \A g \in Files : src'[g] \in [stamp : 0 .. MaxChanges, at : DataClusters \cup {None}]
    BY <1>0, <1>1, <1>3, <1>4 DEF Volume
  <2>2. src'[Boot] \in BOOLEAN
    BY <1>0, <1>1 DEF Volume, Clusters, Metadata
  <2>3. src'[Bitmap] \subseteq DataClusters
    BY <1>0, <1>1 DEF Volume
  <2>4. \A d \in DataClusters : src'[d] \in 0 .. MaxChanges
    BY <1>0, <1>1 DEF Volume, Clusters
  <2> QED
    BY <1>1, <2>1, <2>2, <2>3, <2>4 DEF Volume
<1>6. ASSUME NEW g \in Files \ {f}, src[g].at # None
      PROVE  src[g].at \in Clusters \ {f, Bitmap} /\ src[g].at \in src'[Bitmap]
  <2>1. /\ src[g].at \in DataClusters \ {src[f].at}
        /\ src[g].at \notin Metadata
        /\ src[g].at \in src[Bitmap]
    BY <1>0, <1>6, OwnPlaces
  <2> QED
    BY <1>1, <2>1 DEF Clusters, Metadata
<1>7. Changed(src, src', f)
  <2>1. src'[f].stamp = clock + 1
    BY <1>1
  <2>2. \A g \in Files \ {f} : src[g].at # None => src'[src[g].at] = src[src[g].at]
    BY <1>1, <1>6
  <2> QED
    BY <1>4, <2>1, <2>2 DEF Changed
<1>8. Sound(src')
  <2>1. src'[Boot]
    BY <1>0, <1>1 DEF Sound, Clusters, Metadata
  <2>2. src'[f].at = None
    BY <1>1
  <2>3. \A g \in Files : src'[g].at # None => src'[g].at \in src'[Bitmap]
    BY <1>1, <1>4, <1>6, <2>2
  <2>4. ASSUME NEW d \in src'[Bitmap]
        PROVE  \E g \in Files : src'[g].at = d
    <3>1. d \in src[Bitmap] /\ d # src[f].at
      BY <1>1
    <3>2. PICK g \in Files : src[g].at = d
      BY <1>0, <3>1 DEF Sound
    <3> QED
      BY <1>4, <3>1, <3>2
  <2>5. ASSUME NEW g \in Files, NEW h \in Files, src'[g].at # None,
               src'[g].at = src'[h].at
        PROVE  g = h
    <3>1. g # f /\ h # f
      BY <2>2, <2>5
    <3>2. src[g].at # None /\ src[g].at = src[h].at
      BY <1>4, <2>5, <3>1
    <3> QED
      BY <1>0, <3>2 DEF Sound
  <2> QED
    BY <2>1, <2>3, <2>4, <2>5 DEF Sound
<1> QED
  BY <1>0, <1>5, <1>7, <1>8, OutsideStep

\* The data of a system file change under the same record.
LEMMA WriteSilentlyStep ==
  ASSUME IInv, NEW f \in Files, WriteSilently(f)
  PROVE  IInv'
<1>0. TypeOK /\ SourceInv /\ Volume(src) /\ Sound(src) /\ Changeable
  BY DEF IInv, TypeOK, SourceInv, WriteSilently
<1>1. f \in SystemFiles /\ src[f].at # None /\ src[f].at \in DataClusters
  BY <1>0 DEF WriteSilently, Volume
<1>2. /\ DOMAIN src' = Clusters
      /\ src'[src[f].at] = clock + 1
      /\ \A x \in Clusters \ {src[f].at} : src'[x] = src[x]
  <2>1. DOMAIN src = Clusters /\ src[f].at \in Clusters
    BY <1>0, <1>1 DEF Volume, Clusters
  <2> QED
    BY <2>1 DEF WriteSilently
<1>3. clock + 1 \in 0 .. MaxChanges
  BY <1>0 DEF TypeOK, Changeable
<1>4. \A x \in Metadata : src'[x] = src[x]
  BY <1>1, <1>2 DEF Clusters, Metadata
<1>5. Boot \in Metadata /\ Bitmap \in Metadata /\ Files \subseteq Metadata
  BY DEF Metadata
<1>6. Volume(src')
  <2>1. \A d \in DataClusters : src'[d] \in 0 .. MaxChanges
    BY <1>0, <1>2, <1>3 DEF Volume, Clusters
  <2> QED
    BY <1>0, <1>2, <1>4, <1>5, <2>1 DEF Volume
<1>7. Sound(src')
  BY <1>0, <1>4, <1>5 DEF Sound
<1>8. Changed(src, src', f)
  <2>1. ASSUME NEW g \in Files \ {f}, src[g].at # None
        PROVE  src'[src[g].at] = src[src[g].at]
    <3>1. src[g].at \in DataClusters \ {src[f].at}
      BY <1>0, <2>1, OwnPlaces
    <3> QED
      BY <1>2, <3>1 DEF Clusters
  <2> QED
    BY <1>1, <1>4, <1>5, <2>1 DEF Changed
<1> QED
  BY <1>0, <1>6, <1>7, <1>8, OutsideStep

-----------------------------------------------------------------------------
(* The session's own steps.                                                *)

\* A new volume is sound, and agrees with itself.
LEMMA FreshFacts ==
  /\ Volume(Fresh) /\ Sound(Fresh)
  /\ \A f \in Files : Fresh[f] = [stamp |-> 0, at |-> None]
  /\ Older(Fresh, Fresh) /\ Agree(Fresh, Fresh) /\ InUse(Fresh)
<1>1. /\ DOMAIN Fresh = Clusters
      /\ \A f \in Files : Fresh[f] = [stamp |-> 0, at |-> None]
      /\ Fresh[Boot] = TRUE /\ Fresh[Bitmap] = {}
      /\ \A c \in DataClusters : Fresh[c] = 0
  BY DEF Fresh, Clusters, Metadata
<1>2. Volume(Fresh)
  <2>1. 0 \in 0 .. MaxChanges
    OBVIOUS
  <2>2. [stamp |-> 0, at |-> None] \in [stamp : 0 .. MaxChanges, at : DataClusters \cup {None}]
    BY <2>1
  <2> QED
    BY <1>1, <2>1, <2>2 DEF Volume
<1>3. \A f \in Files : Fresh[f].at = None /\ Fresh[f].stamp = 0
  BY <1>1
<1> QED
  BY <1>1, <1>2, <1>3 DEF Sound, Older, Agree, InUse

\* The destination is a clone of the new source or was never formatted.
LEMMA InitHolds == Init => IInv
<1> SUFFICES ASSUME Init PROVE IInv
  OBVIOUS
<1>1. /\ Volume(dest) /\ \A f \in Files : dest[f] = Fresh[f]
      /\ healthy => dest = Fresh
      /\ healthy \in BOOLEAN
  <2>1. CASE dest = Fresh
    BY <2>1, FreshFacts DEF Init, Volume
  <2>2. CASE dest = [Fresh EXCEPT ![Boot] = FALSE]
    <3>1. /\ DOMAIN dest = Clusters /\ dest[Boot] = FALSE
          /\ \A c \in Clusters \ {Boot} : dest[c] = Fresh[c]
      BY <2>2, FreshFacts DEF Volume, Clusters, Metadata
    <3>2. Volume(dest)
      BY <3>1, FreshFacts DEF Volume, Clusters, Metadata
    <3> QED
      BY <3>1, <3>2 DEF Init, Clusters, Metadata
  <2> QED
    BY <2>1, <2>2 DEF Init
<1>2. TypeOK
  BY <1>1, FreshFacts DEF Init, TypeOK
<1>3. SourceInv
  <2>1. clock = 0 /\ src = Fresh /\ view = Fresh
    BY DEF Init
  <2>2. \A f \in Files : Fresh[f].stamp = 0
    BY FreshFacts
  <2> QED
    BY <2>1, <2>2, FreshFacts DEF SourceInv
<1>4. DestInv
  <2>1. Older(dest, view)
    BY <1>1, FreshFacts DEF Init, Older
  <2>2. healthy => Agree(dest, view) /\ InUse(dest)
    BY <1>1, FreshFacts DEF Init
  <2> QED
    BY <2>1, <2>2 DEF DestInv
<1>5. ProgressInv /\ RefusalMeansDamage
  BY DEF Init, ProgressInv, RefusalMeansDamage, Ended, Selected
<1> QED
  BY <1>2, <1>3, <1>4, <1>5 DEF IInv

\* The source is as sound as its records say, and every version is its own.
LEMMA SelfFacts ==
  ASSUME NEW v, Volume(v), Sound(v)
  PROVE  Older(v, v) /\ Agree(v, v) /\ InUse(v)
  BY StampFacts DEF Older, Agree, InUse, Sound

\* Taking a new view of the source: nothing changed unseen since the last one.
\* (LOCK, the shadow copy)
LEMMA BeginStep ==
  ASSUME IInv, NEW s \in Sessions, Begin(s)
  PROVE  IInv'
<1>0. TypeOK /\ SourceInv /\ DestInv /\ Volume(src) /\ Volume(view) /\ Volume(dest)
  BY DEF IInv, TypeOK
<1>1. /\ pc = "idle" /\ pc' = "locked" /\ session' = s /\ view' = src
      /\ outcome' = "none" /\ chosen' = {} /\ todo' = {} /\ differ' = {} /\ exit' = 0
      /\ UNCHANGED <<src, clock, dest, failures, healthy>>
  BY DEF Begin, outside
<1>2. TypeOK'
  BY <1>0, <1>1 DEF TypeOK
<1>3. SourceInv'
  BY <1>0, <1>1, SelfFacts DEF SourceInv
<1>4. DestInv'
  <2>1. Older(dest, src)
    BY <1>0, OlderTrans DEF SourceInv, DestInv
  <2>2. healthy => Agree(dest, view) /\ InUse(dest)
    BY <1>0, <1>1 DEF DestInv, MidWrite
  <2>3. healthy => Agree(dest, src)
    BY <1>0, <2>2, AgreeTrans DEF SourceInv, DestInv
  <2> QED
    BY <1>1, <2>1, <2>2, <2>3 DEF DestInv
<1>5. ProgressInv' /\ RefusalMeansDamage'
  BY <1>1 DEF ProgressInv, RefusalMeansDamage, Ended, Selected
<1> QED
  BY <1>2, <1>3, <1>4, <1>5 DEF IInv

\* The selections are clusters, and the full ones take all that is in use.
LEMMA SelectionFacts ==
  ASSUME TypeOK, SourceInv
  PROVE  /\ Inverted(session) \subseteq Clusters
         /\ FullSelection => Used(view) \subseteq Inverted(session)
         /\ session.mode = "antimft" =>
              Inverted(session) = Used(view) \ MftSelection(view, dest)
         /\ session.mode = "mft" => Inverted(session) = MftSelection(view, dest)
         /\ session.mode = "bitmap" => Selection(session) = Used(view)
         /\ session.mode = "all" => Selection(session) = Clusters
         /\ session.mode \notin {"all", "bitmap"} =>
              Selection(session) = MftSelection(view, dest)
         /\ session.mode \in {"all", "bitmap", "mft", "antimft"}
<1>1. session.mode \in Modes
  BY DEF TypeOK, Session
<1>2. Used(view) \subseteq Clusters
  BY VolumeFacts DEF TypeOK
<1>3. MftSelection(view, dest) \subseteq Clusters
  BY DEF MftSelection, DataOf, DirtyFiles, TypeOK, Volume, Clusters
<1> QED
  BY <1>1, <1>2, <1>3 DEF Inverted, Selection, FullSelection, Modes

\* What is not selected need not be: in mft mode it is data of clean files.
LEMMA SelectStep ==
  ASSUME IInv, Select
  PROVE  IInv'
<1>0. TypeOK /\ SourceInv /\ DestInv /\ ProgressInv
      /\ Volume(view) /\ Volume(dest) /\ Sound(view)
  BY DEF IInv, TypeOK, SourceInv
<1>1. /\ pc = "locked" /\ pc' = "processing" /\ chosen' = Inverted(session)
      /\ todo' = (IF session.action = "list" THEN {} ELSE chosen')
      /\ UNCHANGED <<src, clock, dest, session, view, differ, outcome, exit,
                     failures, healthy>>
  BY DEF Select, outside
<1>2. differ = {}
  BY <1>0, <1>1 DEF ProgressInv
<1>3. TypeOK'
  BY <1>0, <1>1, <1>2, SelectionFacts DEF TypeOK
<1>4. SourceInv'
  BY <1>0, <1>1 DEF SourceInv
<1>5. DestInv'
  BY <1>0, <1>1 DEF DestInv, MidWrite, Writes
<1>6. Writes(session) \/ session.action = "compare" => todo' = chosen'
  BY <1>1 DEF Writes
<1>7. ASSUME session.mode = "mft", healthy, NEW c \in Used(view) \ chosen'
      PROVE  dest[c] = view[c]
  <2>1. c \in Used(view) \ MftSelection(view, dest)
    BY <1>0, <1>1, <1>7, SelectionFacts
  <2>2. PICK f \in Files \ SystemFiles : view[f] = dest[f] /\ view[f].at = c /\ c # None
    BY <1>0, <2>1, UnselectedIsClean
  <2>3. dest[f].at = c
    BY <2>2
  <2>4. Agree(dest, view)
    BY <1>0, <1>1, <1>7 DEF DestInv, MidWrite
  <2> QED
    BY <2>2, <2>3, <2>4 DEF Agree
<1>8. ProgressInv'
  <2>1. ~Ended' /\ Selected' /\ pc' # "locked"
    BY <1>1 DEF Ended, Selected
  <2>2. FullSelection' => Used(view') \subseteq chosen'
    BY <1>0, <1>1, SelectionFacts DEF FullSelection
  <2>3. session.mode = "antimft" =>
          chosen' = Used(view) \ MftSelection(view, dest) /\ chosen' \cap Metadata = {}
    BY <1>0, <1>1, SelectionFacts DEF MftSelection
  <2>4. session' = session /\ view' = view /\ dest' = dest /\ healthy' = healthy
    BY <1>1
  <2>5. Writes(session') => \A c \in chosen' \ todo' : dest'[c] = view'[c]
    BY <1>6, <2>4
  <2>6. Writes(session') /\ session'.mode = "mft" /\ healthy' =>
          \A c \in Used(view') \ chosen' : dest'[c] = view'[c]
    BY <1>7, <2>4
  <2>7. session'.mode = "antimft" /\ session'.action = "compare" =>
          /\ chosen' = Used(view') \ MftSelection(view', dest')
          /\ \A c \in chosen' \ todo' : dest'[c] # view'[c] => c \in differ'
    BY <1>6, <2>3, <2>4
  <2> QED
    BY <2>1, <2>2, <2>3, <2>4, <2>5, <2>6, <2>7 DEF ProgressInv
<1>9. RefusalMeansDamage'
  BY <1>1 DEF IInv, RefusalMeansDamage
<1> QED
  BY <1>3, <1>4, <1>5, <1>8, <1>9 DEF IInv

\* A healthy destination passes the checks, but for files listed under a
\* selection of all. (verifySelectionContainsNewClusters, ntfsdd.cpp:904)
LEMMA ChecksPass ==
  ASSUME IInv, pc = "locked", healthy, ~(session.mode = "all" /\ session.listing)
  PROVE  NewClustersCovered(session) /\ ListingCovers(session)
<1>0. /\ TypeOK /\ SourceInv /\ Volume(view) /\ Volume(dest) /\ Sound(view)
      /\ InUse(dest)
  BY DEF IInv, TypeOK, SourceInv, DestInv, MidWrite
<1>1. NewClustersCovered(session)
  <2>1. CASE session.mode \in {"all", "bitmap"}
    <3>1. Used(view) \subseteq Selection(session)
      BY <1>0, <2>1, SelectionFacts, VolumeFacts
    <3> QED
      BY <3>1 DEF NewClustersCovered
  <2>2. CASE session.mode \notin {"all", "bitmap"}
    <3>1. ASSUME NEW c \in Used(view) \ Used(dest)
          PROVE  c \in MftSelection(view, dest)
      <4>1. SUFFICES ASSUME c \notin MftSelection(view, dest)
                     PROVE  FALSE
        OBVIOUS
      <4>2. PICK f \in Files \ SystemFiles : view[f] = dest[f] /\ view[f].at = c /\ c # None
        BY <1>0, <4>1, UnselectedIsClean
      <4>3. c \in dest[Bitmap]
        BY <1>0, <4>2 DEF InUse
      <4> QED
        BY <4>3 DEF Used
    <3>2. Selection(session) = MftSelection(view, dest)
      BY <1>0, <2>2, SelectionFacts
    <3>3. ~BlankTarget(session)
      BY <2>2 DEF BlankTarget
    <3> QED
      BY <3>1, <3>2, <3>3 DEF NewClustersCovered
  <2> QED
    BY <2>1, <2>2
<1>2. session.listing => ListedClusters(session) = Selection(session)
  <2>1. CASE session.mode = "bitmap"
    <3>1. DataOf(view, Files) = view[Bitmap]
      <4>1. None \notin view[Bitmap]
        BY <1>0 DEF Volume
      <4> QED
        BY <1>0, <4>1 DEF DataOf, Sound
    <3> QED
      BY <1>0, <2>1, <3>1, SelectionFacts DEF ListedClusters, Used
  <2>2. CASE session.mode \notin {"all", "bitmap"}
    BY <1>0, <2>2, SelectionFacts DEF ListedClusters, MftSelection
  <2> QED
    BY <2>1, <2>2
<1> QED
  BY <1>1, <1>2 DEF ListingCovers

\* A refused session leaves everything as it was.
LEMMA RefuseStep ==
  ASSUME IInv, Refuse
  PROVE  IInv'
<1>1. /\ pc = "locked" /\ pc' = "idle" /\ outcome' = "refused"
      /\ UNCHANGED <<src, clock, dest, session, view, chosen, todo, differ, exit,
                     failures, healthy>>
      /\ ~(NewClustersCovered(session) /\ ListingCovers(session))
  BY DEF Refuse, outside
<1>2. TypeOK' /\ SourceInv'
  BY <1>1 DEF IInv, TypeOK, SourceInv
<1>3. DestInv'
  BY <1>1 DEF IInv, DestInv, MidWrite
<1>4. ProgressInv'
  BY <1>1 DEF ProgressInv, Ended, Selected
<1>5. RefusalMeansDamage'
  BY <1>1, ChecksPass DEF RefusalMeansDamage
<1> QED
  BY <1>2, <1>3, <1>4, <1>5 DEF IInv

\* One cluster more is as the session saw it; in antimft mode it is no record.
LEMMA ProcessStep ==
  ASSUME IInv, NEW c \in Clusters, Process(c)
  PROVE  IInv'
<1>0. TypeOK /\ SourceInv /\ DestInv /\ ProgressInv /\ RefusalMeansDamage
      /\ Volume(view) /\ Volume(dest)
  BY DEF IInv, TypeOK
<1>1. /\ pc = "processing" /\ c \in todo /\ todo' = todo \ {c}
      /\ differ' = (IF session.action # "copy" /\ view[c] # dest[c]
                    THEN differ \cup {c} ELSE differ)
      /\ dest' = (IF Writes(session) THEN [dest EXCEPT ![c] = view[c]] ELSE dest)
      /\ UNCHANGED <<src, clock, session, pc, view, chosen, outcome, exit, failures,
                     healthy>>
  BY DEF Process, outside
<1>2. /\ DOMAIN dest' = Clusters
      /\ \A x \in Clusters : dest'[x] = dest[x] \/ (x = c /\ dest'[x] = view[x])
      /\ Writes(session) => dest'[c] = view[c]
      /\ ~Writes(session) => dest' = dest
      /\ \A x \in Clusters \ {c} : dest'[x] = dest[x]
  <2>1. DOMAIN dest = Clusters
    BY <1>0 DEF Volume
  <2>2. CASE Writes(session)
    BY <1>1, <2>1, <2>2
  <2>3. CASE ~Writes(session)
    BY <1>1, <2>1, <2>3
  <2> QED
    BY <2>2, <2>3
<1>3. /\ Metadata \subseteq Clusters /\ DataClusters \subseteq Clusters
      /\ Boot \in Metadata /\ Bitmap \in Metadata /\ Files \subseteq Metadata
  BY DEF Metadata, Clusters
<1>4. Volume(dest')
  BY <1>0, <1>2, <1>3 DEF Volume
<1>5. TypeOK'
  BY <1>0, <1>1, <1>4 DEF TypeOK
<1>6. SourceInv' /\ RefusalMeansDamage'
  BY <1>0, <1>1 DEF SourceInv, RefusalMeansDamage
<1>7. Older(dest', view)
  <2>1. SUFFICES ASSUME NEW f \in Files
                 PROVE  /\ dest'[f].stamp <= view[f].stamp
                        /\ dest'[f].stamp = view[f].stamp => dest'[f] = view[f]
    BY DEF Older
  <2>2. dest'[f] = dest[f] \/ dest'[f] = view[f]
    BY <1>2, <1>3
  <2>3. view[f].stamp \in Nat
    BY <1>0, StampFacts
  <2> QED
    BY <1>0, <2>2, <2>3 DEF DestInv, Older
<1>8. ASSUME healthy, ~MidWrite
      PROVE  Agree(dest', view) /\ InUse(dest')
  <2>1. Agree(dest, view) /\ InUse(dest)
    BY <1>0, <1>8 DEF DestInv
  <2>2. CASE ~Writes(session)
    BY <1>2, <2>1, <2>2
  <2>3. CASE Writes(session)
    <3>1. session.mode = "antimft"
      BY <1>1, <1>8, <2>3 DEF MidWrite
    <3>2. c \notin Metadata
      BY <1>0, <1>1, <3>1 DEF ProgressInv, Selected, TypeOK
    <3>3. \A x \in Metadata : dest'[x] = dest[x]
      BY <1>2, <1>3, <3>2
    <3>4. InUse(dest')
      BY <1>3, <2>1, <3>3 DEF InUse
    <3>5. ASSUME NEW f \in Files \ SystemFiles, dest'[f] = view[f], dest'[f].at # None
          PROVE  dest'[dest'[f].at] = view[dest'[f].at]
      <4>1. dest'[f] = dest[f]
        BY <1>3, <3>3
      <4>2. dest[dest[f].at] = view[dest[f].at]
        BY <2>1, <3>5, <4>1 DEF Agree
      <4>3. dest[f].at \in Clusters
        BY <1>0, <1>3, <3>5, <4>1 DEF Volume
      <4> QED
        BY <1>2, <4>1, <4>2, <4>3
    <3> QED
      BY <3>4, <3>5 DEF Agree
  <2> QED
    BY <2>2, <2>3
<1>9. DestInv'
  BY <1>1, <1>7, <1>8 DEF DestInv, MidWrite
<1>10. ProgressInv'
  <2>1. ~Ended' /\ Selected' /\ pc' # "locked" /\ Selected
    BY <1>1 DEF Ended, Selected
  <2>2. session' = session /\ view' = view /\ chosen' = chosen /\ healthy' = healthy
    BY <1>1
  <2>3. /\ FullSelection' => Used(view') \subseteq chosen'
        /\ session'.mode = "antimft" => chosen' \cap Metadata = {}
    BY <1>0, <2>1, <2>2 DEF ProgressInv, FullSelection
  <2>4. chosen \subseteq Clusters
    BY <1>0 DEF TypeOK
  <2>5. ASSUME Writes(session), NEW x \in chosen \ todo'
        PROVE  dest'[x] = view[x]
    <3>1. CASE x = c
      BY <1>2, <2>5, <3>1
    <3>2. CASE x # c
      <4>1. x \in chosen \ todo
        BY <1>1, <2>5, <3>2
      <4>2. dest[x] = view[x]
        BY <1>0, <2>1, <2>5, <4>1 DEF ProgressInv
      <4> QED
        BY <1>2, <2>4, <3>2, <4>1, <4>2
    <3> QED
      BY <3>1, <3>2
  <2>6. ASSUME Writes(session), session.mode = "mft", healthy,
               NEW x \in Used(view) \ chosen
        PROVE  dest'[x] = view[x]
    <3>1. dest[x] = view[x]
      BY <1>0, <2>1, <2>6 DEF ProgressInv
    <3>2. x \in Clusters
      BY <1>0, VolumeFacts
    <3> QED
      BY <1>2, <3>1, <3>2
  <2>7. ASSUME session.mode = "antimft", session.action = "compare"
        PROVE  /\ dest' = dest
               /\ chosen = Used(view) \ MftSelection(view, dest)
               /\ \A x \in chosen \ todo' : dest[x] # view[x] => x \in differ'
    <3>1. dest' = dest
      BY <1>2, <2>7 DEF Writes
    <3>2. /\ chosen = Used(view) \ MftSelection(view, dest)
          /\ \A x \in chosen \ todo : dest[x] # view[x] => x \in differ
      BY <1>0, <2>1, <2>7 DEF ProgressInv
    <3>3. \A x \in chosen \ todo' : x \in chosen \ todo \/ x = c
      BY <1>1
    <3>4. differ \subseteq differ' /\ (dest[c] # view[c] => c \in differ')
      BY <1>1, <2>7
    <3> QED
      BY <3>1, <3>2, <3>3, <3>4
  <2> QED
    BY <2>1, <2>2, <2>3, <2>5, <2>6, <2>7 DEF ProgressInv
<1> QED
  BY <1>5, <1>6, <1>9, <1>10 DEF IInv

\* What a session that writes leaves: a mirror of its view, if it selected
\* everything in use or all that could have changed. (main2)
LEMMA WritesMirror ==
  ASSUME TypeOK, SourceInv, ProgressInv, Selected, todo = {}, Writes(session),
         FullSelection \/ (session.mode = "mft" /\ healthy)
  PROVE  \A c \in Used(view) : dest[c] = view[c]
<1>1. \A c \in chosen : dest[c] = view[c]
  BY DEF ProgressInv
<1>2. \A c \in Used(view) \ chosen : dest[c] = view[c]
  BY DEF ProgressInv
<1> QED
  BY <1>1, <1>2

\* A session comes to its end.
LEMMA EndStep ==
  ASSUME IInv, End
  PROVE  IInv'
<1>0. TypeOK /\ SourceInv /\ DestInv /\ ProgressInv
      /\ Volume(view) /\ Volume(dest) /\ Sound(view)
  BY DEF IInv, TypeOK, SourceInv
<1>1. /\ pc = "processing" /\ todo = {} /\ pc' = "idle" /\ outcome' = "done"
      /\ exit' = ExitCode /\ healthy' = (healthy \/ Heals(session))
      /\ UNCHANGED <<src, clock, dest, session, view, chosen, todo, differ, failures>>
      /\ Selected
  BY DEF End, outside, Selected
<1>2. TypeOK'
  <2>1. exit' \in {0, 1}
    BY <1>1 DEF ExitCode
  <2>2. healthy' \in BOOLEAN
    BY <1>1 DEF TypeOK
  <2> QED
    BY <1>0, <1>1, <2>1, <2>2 DEF TypeOK
<1>3. SourceInv'
  BY <1>0, <1>1 DEF SourceInv
<1>4. ASSUME healthy'
      PROVE  Agree(dest, view) /\ InUse(dest)
  <2>1. CASE Writes(session) /\ session.mode # "antimft"
    <3>1. session.mode \in {"all", "bitmap", "mft"}
      BY <1>0, <2>1, SelectionFacts
    <3>2. FullSelection \/ (session.mode = "mft" /\ healthy)
      BY <1>1, <1>4, <3>1 DEF FullSelection, Heals
    <3>3. \A c \in Used(view) : dest[c] = view[c]
      BY <1>0, <1>1, <2>1, <3>2, WritesMirror
    <3> QED
      BY <1>0, <3>3, MirrorAgrees
  <2>2. CASE ~(Writes(session) /\ session.mode # "antimft")
    <3>1. healthy
      BY <1>1, <1>4, <2>2 DEF Heals
    <3> QED
      BY <1>0, <2>2, <3>1 DEF DestInv, MidWrite
  <2> QED
    BY <2>1, <2>2
<1>5. DestInv'
  BY <1>0, <1>1, <1>4 DEF DestInv
<1>6. session.mode = "mft" /\ healthy' => healthy
  BY <1>1 DEF Heals
<1>7. ProgressInv'
  <2>1. pc' # "locked"
    BY <1>1
  <2>2. ExitCode' = ExitCode
    BY <1>1 DEF ExitCode
  <2>3. FullSelection' = FullSelection
    BY <1>1 DEF FullSelection
  <2> QED
    BY <1>0, <1>1, <1>6, <2>1, <2>2, <2>3 DEF ProgressInv
<1>8. RefusalMeansDamage'
  BY <1>1 DEF RefusalMeansDamage
<1> QED
  BY <1>2, <1>3, <1>5, <1>7, <1>8 DEF IInv

\* A session that fails while it writes leaves a destination that is none of
\* the versions of the source.
LEMMA InterruptStep ==
  ASSUME IInv, Interrupt
  PROVE  IInv'
<1>1. /\ pc # "idle" /\ failures < MaxFailures /\ failures' = failures + 1
      /\ pc' = "idle" /\ outcome' = "failed"
      /\ healthy' = (healthy /\ ~(pc = "processing" /\ Writes(session)))
      /\ UNCHANGED <<src, clock, dest, session, view, chosen, todo, differ, exit>>
  BY DEF Interrupt, outside
<1>2. TypeOK'
  <2>1. failures' \in 0 .. MaxFailures
    BY <1>1 DEF IInv, TypeOK
  <2>2. healthy' \in BOOLEAN
    BY <1>1 DEF IInv, TypeOK
  <2> QED
    BY <1>1, <2>1, <2>2 DEF IInv, TypeOK
<1>3. SourceInv'
  BY <1>1 DEF IInv, SourceInv
<1>4. DestInv'
  BY <1>1 DEF IInv, DestInv, MidWrite
<1>5. ProgressInv' /\ RefusalMeansDamage'
  BY <1>1 DEF ProgressInv, RefusalMeansDamage, Ended, Selected
<1> QED
  BY <1>2, <1>3, <1>4, <1>5 DEF IInv

-----------------------------------------------------------------------------
(* The results.                                                            *)

\* Every change of the source and every step of a session keeps the invariant.
LEMMA StepHolds == IInv /\ [Next]_vars => IInv'
<1> SUFFICES ASSUME IInv, [Next]_vars
             PROVE  IInv'
  OBVIOUS
<1>1. CASE Change
  BY <1>1, WriteStep, DeleteStep, WriteSilentlyStep DEF Change
<1>2. CASE \E s \in Sessions : Begin(s)
  BY <1>2, BeginStep
<1>3. CASE Select
  BY <1>3, SelectStep
<1>4. CASE Refuse
  BY <1>4, RefuseStep
<1>5. CASE \E c \in Clusters : Process(c)
  BY <1>5, ProcessStep
<1>6. CASE End
  BY <1>6, EndStep
<1>7. CASE Interrupt
  BY <1>7, InterruptStep
<1>8. CASE UNCHANGED vars
  <2>1. TypeOK' /\ SourceInv' /\ DestInv' /\ RefusalMeansDamage'
    BY <1>8 DEF vars, IInv, TypeOK, SourceInv, DestInv, MidWrite, RefusalMeansDamage
  <2>2. ProgressInv'
    BY <1>8 DEF vars, IInv, ProgressInv, Selected, Ended, ExitCode, FullSelection
  <2> QED
    BY <2>1, <2>2 DEF IInv
<1> QED
  BY <1>1, <1>2, <1>3, <1>4, <1>5, <1>6, <1>7, <1>8 DEF Next

\* IInv is inductive.
LEMMA InvariantHolds == Spec => []IInv
  BY InitHolds, StepHolds, PTL DEF Spec

\* Between whole sessions no change of an ordinary file goes unseen, whatever
\* happened on the source, whichever sessions ran.
THEOREM SessionInvariant == Spec => []SessionInv
<1>1. IInv => SessionInv
  <2> SUFFICES ASSUME IInv, pc = "idle", healthy, NEW f \in Files \ SystemFiles,
                      src[f] = dest[f], src[f].at # None
               PROVE  src[src[f].at] = dest[src[f].at]
    BY DEF IInv, SessionInv, NothingUndetected
  <2>1. Volume(src) /\ Volume(view) /\ Volume(dest) /\ SourceInv /\ DestInv
    BY DEF IInv, TypeOK
  <2>2. Agree(dest, view)
    BY <2>1 DEF DestInv, MidWrite
  <2>3. Agree(dest, src)
    BY <2>1, <2>2, AgreeTrans DEF SourceInv, DestInv
  <2> QED
    BY <2>3 DEF Agree
<1> QED
  BY <1>1, InvariantHolds, PTL

\* A session that wrote and ended leaves a mirror of what it saw: always with a
\* full selection, and with mft's as long as nothing was interrupted.
THEOREM SessionsMirror == Spec => []SessionMirrors
<1>1. IInv => SessionMirrors
  <2> SUFFICES ASSUME IInv, Ended, Writes(session),
                      FullSelection \/ (session.mode = "mft" /\ healthy)
               PROVE  Mirrors(view, dest)
    BY DEF SessionMirrors
  <2>1. TypeOK /\ SourceInv /\ ProgressInv /\ Selected /\ todo = {}
    BY DEF IInv, ProgressInv, Selected
  <2>2. \A c \in Used(view) : dest[c] = view[c]
    BY <2>1, WritesMirror
  <2> QED
    BY <2>2 DEF Mirrors, Differing
<1> QED
  BY <1>1, InvariantHolds, PTL

\* The safety checks refuse no session on a healthy destination, but for files
\* listed under a selection of all clusters.
THEOREM RefusalsMeanDamage == Spec => []RefusalMeansDamage
  BY InvariantHolds, PTL DEF IInv

\* A comparison in antimft mode that ends with exit code 0 proves the mft
\* selection to be enough.
THEOREM AntiMftFindsSlips == Spec => []AntiMftDetects
<1>1. IInv => AntiMftDetects
  <2> SUFFICES ASSUME IInv, Ended, session.mode = "antimft",
                      session.action = "compare", session.exitCode, exit = 0,
                      NEW c \in Used(view) \cap Differing(view, dest),
                      c \notin MftSelection(view, dest)
               PROVE  FALSE
    BY DEF AntiMftDetects
  <2>1. c \in chosen /\ todo = {}
    BY DEF IInv, ProgressInv, Selected
  <2>2. c \in differ
    BY <2>1 DEF IInv, ProgressInv, Selected, Differing
  <2>3. ExitCode = 0
    BY DEF IInv, ProgressInv
  <2> QED
    BY <2>2, <2>3 DEF ExitCode
<1> QED
  BY <1>1, InvariantHolds, PTL
=============================================================================
