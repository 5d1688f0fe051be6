---------------------------- MODULE VolumeAccess ----------------------------
(***************************************************************************)
(* One session of ntfsdd as its volumes see it (ntfsdd.cpp:606-672, with   *)
(* Volume and VolumeLock of core/ntfsvolume): a shadow copy is taken, both *)
(* volumes are opened, looked at, and locked; then there is work; and when *)
(* main2 returns or throws, everything is undone in reverse order.         *)
(*                                                                         *)
(* Meanwhile other programs open files on both volumes, the table of files *)
(* of the source grows, and volumes are mounted and dismounted.            *)
(***************************************************************************)
EXTENDS VssShadow

CONSTANTS CommandLines,  \* the command lines that may be given
          MaxGrowth      \* bound: how often the source's $MFT grows

CommandLine ==
  [writes : BOOLEAN,            \* the action is copy or rcw
   write : BOOLEAN,             \* --write
   shadow : BOOLEAN,            \* --shadow
   writers : BOOLEAN,           \* --shadow-writers
   blank : BOOLEAN,             \* bBlankTarget
   forceSrc : BOOLEAN,          \* --force-lock-src
   forceDest : BOOLEAN,         \* --force-lock-dest
   allowMounted : BOOLEAN,      \* --unsafe-allow-mounted
   allowDifferent : BOOLEAN]    \* --unsafe-allow-non-matching

ASSUME AccessAssumption ==
  /\ CommandLines \subseteq CommandLine
  /\ MaxGrowth \in Nat

VARIABLES cmd,       \* the command line
          kind,      \* of either path: "volume", "other" (a file, a shadow copy)
          alike,     \* whether the parameters of the volumes agree
          users,     \* the volumes on which others have files open
          mounted,   \* whether the destination has mount points
          size,      \* of the source's $MFT now
          snapSize,  \* and in the shadow copy
          pc,        \* the next thing main2 does
          objs,      \* the objects main2 has constructed
          isVolume,  \* the paths that were resolved as volumes
          warned,    \* history: the destination had mount points when looked at
          writable,  \* the destination's handle may write
          locked,    \* the volumes that are locked for a handle of main2
          layout,    \* the size of $MFT according to readLayout
          loaded,    \* and when $MFT was loaded
          written,   \* whether anything was written to the destination
          result     \* "none", "ok", "error", "trapped"

env == <<kind, alike, users, mounted, size>>
found == <<isVolume, warned, writable, layout, loaded>>
vars == <<cmd, env, vss, snapSize, pc, objs, found, locked, written, result>>

Volumes == {"src", "dest"}
Objects == {"shadow", "src", "dest", "srcLock", "destLock"}
Rank == [shadow |-> 1, src |-> 2, dest |-> 3, srcLock |-> 4, destLock |-> 5]
Steps == {"construct", "create", "resolveSrc", "openSrc", "layoutSrc", "verifySrc",
          "resolveDest", "openDest", "layoutDest", "compare", "lockSrc", "lockDest",
          "load", "work", "unwind", "ended"}

TypeOK ==
  /\ VssOK
  /\ cmd \in CommandLines
  /\ kind \in [Volumes -> {"volume", "other"}]
  /\ users \subseteq Volumes /\ locked \subseteq Volumes /\ isVolume \subseteq Volumes
  /\ {alike, mounted, warned, writable, written} \subseteq BOOLEAN
  /\ {size, snapSize, layout, loaded} \subseteq 0 .. MaxGrowth
  /\ pc \in Steps
  /\ objs \subseteq Objects
  /\ result \in {"none", "ok", "error", "trapped"}

Init ==
  /\ cmd \in CommandLines
  /\ kind \in [Volumes -> {"volume", "other"}]
  /\ alike \in BOOLEAN
  /\ users \in SUBSET Volumes
  /\ mounted \in BOOLEAN /\ (mounted => kind["dest"] = "volume")
  /\ size = 0 /\ snapSize = 0 /\ layout = 0 /\ loaded = 0
  /\ vss = NoShadow
  /\ pc = IF cmd.shadow THEN "construct" ELSE "resolveSrc"
  /\ objs = {} /\ isVolume = {} /\ locked = {}
  /\ warned = FALSE /\ writable = FALSE /\ written = FALSE
  /\ result = "none"

-----------------------------------------------------------------------------
(* Other programs. A lock fails while one of them uses the volume, and     *)
(* keeps all of them out.                                                  *)

Others(v) ==
  /\ UNCHANGED <<cmd, vss, snapSize, pc, objs, found, locked, written, result,
                 kind, alike>>
  /\ \/ v \notin locked /\ users' = users \cup {v} /\ UNCHANGED <<mounted, size>>
     \/ users' = users \ {v} /\ UNCHANGED <<mounted, size>>
     \/ /\ v = "src" /\ v \in users
        /\ size < MaxGrowth
        /\ size' = size + 1
        /\ UNCHANGED <<users, mounted>>
     \/ /\ v = "dest" /\ kind[v] = "volume"
        /\ mounted' = ~mounted
        /\ UNCHANGED <<users, size>>

-----------------------------------------------------------------------------
(* main2.                                                                  *)

\* What the source path stands for, once it was replaced by the shadow copy's.
SourceKind == IF cmd.shadow THEN "other" ELSE kind["src"]
View == IF cmd.shadow THEN snapSize ELSE size

\* An exception leaves main2.
Throw == pc' = "unwind" /\ result' = "error"

ConstructShadow ==
  /\ pc = "construct"
  /\ \/ Construct /\ pc' = "create" /\ objs' = objs \cup {"shadow"} /\ UNCHANGED result
     \/ ConstructThrows /\ Throw /\ UNCHANGED objs
  /\ UNCHANGED <<cmd, env, snapSize, found, locked, written>>

\* The volume is frozen while the shadow copy is taken.
CreateShadow ==
  /\ pc = "create"
  /\ \/ /\ Call(cmd.writers)
        /\ pc' = IF vss'.calls = CallCount(cmd.writers) THEN "resolveSrc" ELSE pc
        /\ UNCHANGED result
     \/ CallThrows(cmd.writers) /\ Throw
  /\ snapSize' = IF vss'.exists /\ ~vss.exists THEN size ELSE snapSize
  /\ UNCHANGED <<cmd, env, objs, found, locked, written>>

\* resolveVolumeGuid: an error of any kind counts as "not a volume", as
\* err = ERROR_INVALID_NAME assigns.
Resolutions(k) == IF k = "volume" THEN BOOLEAN ELSE {FALSE}

\* verifyMountPoints for the source.
ResolveSrc ==
  /\ pc = "resolveSrc"
  /\ \E resolved \in Resolutions(SourceKind) :
       isVolume' = IF resolved THEN {"src"} ELSE {}
  /\ pc' = "openSrc"
  /\ UNCHANGED <<cmd, env, vss, snapSize, objs, warned, writable, layout, loaded,
                 locked, written, result>>

OpenSrc ==
  /\ pc = "openSrc"
  /\ objs' = objs \cup {"src"}
  /\ pc' = "layoutSrc"
  /\ UNCHANGED <<cmd, env, vss, snapSize, found, locked, written, result>>

\* readLayout: the boot sector and the first records of $MFT are read.
LayoutSrc ==
  /\ pc = "layoutSrc"
  /\ layout' = View
  /\ pc' = "verifySrc"
  /\ UNCHANGED <<cmd, env, vss, snapSize, objs, isVolume, warned, writable, loaded,
                 locked, written, result>>

\* verifyPhysicalVolumeParams: for a volume, the system must agree, also on the
\* size of $MFT, which may have grown since.
VerifySrc ==
  /\ pc = "verifySrc"
  /\ IF "src" \in isVolume /\ layout # View THEN Throw
     ELSE pc' = "resolveDest" /\ UNCHANGED result
  /\ UNCHANGED <<cmd, env, vss, snapSize, objs, found, locked, written>>

\* Mutant: the mount points are looked at when the destination is only read.
MountPointsForbiddenReading == ~cmd.writes /\ ~cmd.allowMounted

MountPointsForbidden == cmd.writes /\ ~cmd.allowMounted

\* verifyMountPoints for the destination.
ResolveDest ==
  /\ pc = "resolveDest"
  /\ \E resolved \in Resolutions(kind["dest"]) :
       /\ isVolume' = IF resolved THEN isVolume \cup {"dest"} ELSE isVolume
       /\ IF resolved /\ mounted /\ MountPointsForbidden THEN Throw
          ELSE pc' = "openDest" /\ UNCHANGED result
  /\ warned' = mounted
  /\ UNCHANGED <<cmd, env, vss, snapSize, objs, writable, layout, loaded, locked, written>>

\* "Without this flag we will not actually open the destination as writeable."
OpenDest ==
  /\ pc = "openDest"
  /\ objs' = objs \cup {"dest"}
  /\ writable' = (cmd.write /\ cmd.writes)
  /\ pc' = "layoutDest"
  /\ UNCHANGED <<cmd, env, vss, snapSize, isVolume, warned, layout, loaded, locked,
                 written, result>>

\* initLayout: a blank target takes the layout of the source, and is asked for
\* its sector size only.
InitLayout ==
  /\ pc = "layoutDest" /\ cmd.blank
  /\ pc' = "lockSrc"
  /\ UNCHANGED <<cmd, env, vss, snapSize, objs, found, locked, written, result>>

\* readLayout and verifyPhysicalVolumeParams.
LayoutDest ==
  /\ pc = "layoutDest" /\ ~cmd.blank
  /\ pc' = "compare"
  /\ UNCHANGED <<cmd, env, vss, snapSize, objs, found, locked, written, result>>

\* compareVolumeParams.
Compare ==
  /\ pc = "compare"
  /\ IF alike \/ cmd.allowDifferent THEN pc' = "lockSrc" /\ UNCHANGED result ELSE Throw
  /\ UNCHANGED <<cmd, env, vss, snapSize, objs, found, locked, written>>

\* Mutant: "or" for "and".
IgnoreErrorsOr(v) ==
  v \notin isVolume \/ ~(IF v = "src" THEN cmd.forceSrc ELSE cmd.forceDest)

\* The errors that VolumeLock is told to ignore.
IgnoreErrors(v) ==
  v \notin isVolume /\ ~(IF v = "src" THEN cmd.forceSrc ELSE cmd.forceDest)

\* FSCTL_LOCK_VOLUME; a failure is fatal or a warning.
Lock(v, k, lock, after) ==
  \/ /\ k = "volume" /\ v \notin users
     /\ locked' = locked \cup {v}
     /\ objs' = objs \cup {lock} /\ pc' = after /\ UNCHANGED result
  \/ /\ IgnoreErrors(v)
     /\ objs' = objs \cup {lock} /\ pc' = after /\ UNCHANGED <<result, locked>>
  \/ ~IgnoreErrors(v) /\ Throw /\ UNCHANGED <<objs, locked>>

LockSrc ==
  /\ pc = "lockSrc"
  /\ Lock("src", SourceKind, "srcLock", "lockDest")
  /\ UNCHANGED <<cmd, env, vss, snapSize, found, written>>

LockDest ==
  /\ pc = "lockDest"
  /\ Lock("dest", kind["dest"], "destLock", "load")
  /\ UNCHANGED <<cmd, env, vss, snapSize, found, written>>

\* src.mft->load and what follows it sees $MFT as it is now.
Load ==
  /\ pc = "load"
  /\ loaded' = View
  /\ pc' = "work"
  /\ UNCHANGED <<cmd, env, vss, snapSize, objs, isVolume, warned, writable, layout,
                 locked, written, result>>

\* A write of ClusterDiffWriter or ClusterCopier; a handle without the right to
\* write fails it.
Write ==
  /\ pc = "work" /\ cmd.writes
  /\ IF writable THEN written' = TRUE /\ UNCHANGED <<pc, result>>
     ELSE Throw /\ UNCHANGED written
  /\ UNCHANGED <<cmd, env, vss, snapSize, objs, found, locked>>

Return ==
  /\ pc = "work"
  /\ pc' = "unwind" /\ result' = "ok"
  /\ UNCHANGED <<cmd, env, vss, snapSize, objs, found, locked, written>>

\* A call of the system fails, a file cannot be opened, an assertion about the
\* volume does not hold: anywhere in main2.
Fail ==
  /\ pc \notin {"construct", "create", "unwind", "ended"}
  /\ Throw
  /\ UNCHANGED <<cmd, env, vss, snapSize, objs, found, locked, written>>

\* queryPhysicalVolumeParams finds no sector size and newAlignedBuffer divides by
\* it: no exception, the system ends the process and closes what it had open.
Trap ==
  /\ pc = "layoutSrc" \/ (pc = "layoutDest" /\ ~cmd.blank)
  /\ pc' = "ended" /\ result' = "trapped"
  /\ objs' = {} /\ locked' = {} /\ vss' = NoShadow
  /\ UNCHANGED <<cmd, env, snapSize, found, written>>

\* Mutant: the objects are destroyed in the order of their construction.
NextDestroyedFirst(o) == o \in objs /\ \A p \in objs : Rank[p] >= Rank[o]

NextDestroyed(o) == o \in objs /\ \A p \in objs : Rank[p] <= Rank[o]

\* ~VolumeLock unlocks, ~Volume closes the handle (and its lock with it),
\* ~VssShadowCopy releases the shadow copy.
Unwind(o) ==
  /\ pc = "unwind"
  /\ NextDestroyed(o)
  /\ objs' = objs \ {o}
  /\ locked' = locked \ (IF o \in {"srcLock", "src"} THEN {"src"}
                         ELSE IF o \in {"destLock", "dest"} THEN {"dest"} ELSE {})
  /\ IF o = "shadow" THEN Destroy ELSE UNCHANGED vss
  /\ UNCHANGED <<cmd, env, snapSize, pc, found, written, result>>

Exit ==
  /\ pc = "unwind" /\ objs = {}
  /\ pc' = "ended"
  /\ UNCHANGED <<cmd, env, vss, snapSize, objs, found, locked, written, result>>

Ended == pc = "ended" /\ UNCHANGED vars

Program ==
  \/ ConstructShadow \/ CreateShadow
  \/ ResolveSrc \/ OpenSrc \/ LayoutSrc \/ VerifySrc
  \/ ResolveDest \/ OpenDest \/ InitLayout \/ LayoutDest \/ Compare
  \/ LockSrc \/ LockDest \/ Load \/ Write \/ Return
  \/ Fail \/ Trap
  \/ (\E o \in Objects : Unwind(o)) \/ Exit

Next == Program \/ Ended \/ \E v \in Volumes : Others(v)
Spec == Init /\ [][Next]_vars

-----------------------------------------------------------------------------
\* While the source is open as a shadow copy, the shadow copy is there: create()
\* returns only with one, although it asks no operation for its status, and it
\* is released after the handle is closed. (VssShadowCopy, main2)
ShadowOutlives == cmd.shadow /\ "src" \in objs => vss.exists

\* A volume that was recognised as one is locked, and nobody else has it open,
\* from the load of $MFT on until the session is over. (VolumeLock)
Exclusive ==
  pc \in {"load", "work"} => \A v \in isVolume : v \in locked /\ v \notin users

AccessInv == TypeOK /\ ShadowOutlives /\ Exclusive

\* What the session reads does not move under it: once $MFT is loaded it stays
\* the same, on a shadow copy and on a locked volume; and the layout, read
\* before the lock, is that of the same table on a shadow copy. On a volume in
\* use the table may have grown in between. (main2)
StableSource ==
  pc = "work" =>
    /\ cmd.shadow \/ "src" \in isVolume => View = loaded
    /\ cmd.shadow => layout = loaded

\* Nothing is written unless --write was given for an action that writes, to a
\* volume like the source, and never to one that was recognised as a volume
\* with mount points and not allowed. (verifyMountPoints, compareVolumeParams)
WriteGuards ==
  written => /\ cmd.writes /\ cmd.write
             /\ alike \/ cmd.allowDifferent \/ cmd.blank
             /\ "dest" \in isVolume /\ warned => cmd.allowMounted

\* However the session ends, no lock, no shadow copy and no object of the service
\* is left; COM only if the constructor threw, an IVssAsync only if a wait did.
NothingLeft ==
  pc = "ended" =>
    /\ objs = {} /\ locked = {}
    /\ ~vss.backup /\ ~vss.exists
    /\ vss.com => vss.calls = 0 /\ result = "error"
    /\ vss.async => ~Created(cmd.writers) /\ result = "error"
=============================================================================
