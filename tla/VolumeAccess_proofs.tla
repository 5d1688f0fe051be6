------------------------ MODULE VolumeAccess_proofs ------------------------
(***************************************************************************)
(* Proofs about VolumeAccess, for all command lines and however long the   *)
(* source's table grows.                                                   *)
(*                                                                         *)
(* The argument: Alive says what the object of the shadow copy holds at    *)
(* any place in the sequence of calls, Gone what is left when it is        *)
(* destroyed or was never made. ShadowInv ties them to the steps of main2, *)
(* LockInv the locks to the objects that hold them, GuardInv what the      *)
(* checks before the work have established to the steps after them, and    *)
(* SourceInv the layout to what the source shows. Together with the types  *)
(* they are inductive, and the four invariants of the runs follow.         *)
(***************************************************************************)
EXTENDS VolumeAccess, TLAPS

USE AccessAssumption

-----------------------------------------------------------------------------
(* The sequence of calls.                                                  *)

Ordered(w, i) ==
  /\ Calls(w)[i] = "components" <=> i = 1
  /\ Calls(w)[i] = "waitSnapshot" <=> i = CallCount(w) - 1
  /\ Calls(w)[i] = "properties" <=> i = CallCount(w)
  /\ Calls(w)[i] \in Starts => i < CallCount(w) /\ Calls(w)[i + 1] \in Waits

\* There are at most thirteen calls. (VssShadowCopy::create)
LEMMA CallsLength ==
  ASSUME NEW w
  PROVE  CallCount(w) \in 8 .. 13
BY DEF Calls, CallCount

\* The first call makes the object, the last but one waits for the shadow copy,
\* and an operation that was started is waited for at once. (VssShadowCopy::create)
LEMMA CallsOrder ==
  ASSUME NEW w, NEW i \in 1 .. CallCount(w)
  PROVE  Ordered(w, i)
<1>1. ASSUME w PROVE Ordered(w, i)
  <2>1. /\ CallCount(w) = 13
        /\ Calls(w)[1] = "components"
        /\ Calls(w)[2] = "initialize"
        /\ Calls(w)[3] = "context"
        /\ Calls(w)[4] = "state"
        /\ Calls(w)[5] = "startGather"
        /\ Calls(w)[6] = "waitGather"
        /\ Calls(w)[7] = "set"
        /\ Calls(w)[8] = "add"
        /\ Calls(w)[9] = "startPrepare"
        /\ Calls(w)[10] = "waitPrepare"
        /\ Calls(w)[11] = "startSnapshot"
        /\ Calls(w)[12] = "waitSnapshot"
        /\ Calls(w)[13] = "properties"
    BY <1>1 DEF Calls, CallCount
  <2>2. i \in 1 .. 13
    BY <2>1
  <2> QED
    BY <2>1, <2>2 DEF Ordered, Starts, Waits
<1>2. ASSUME ~w PROVE Ordered(w, i)
  <2>1. /\ CallCount(w) = 8
        /\ Calls(w)[1] = "components"
        /\ Calls(w)[2] = "initialize"
        /\ Calls(w)[3] = "context"
        /\ Calls(w)[4] = "set"
        /\ Calls(w)[5] = "add"
        /\ Calls(w)[6] = "startSnapshot"
        /\ Calls(w)[7] = "waitSnapshot"
        /\ Calls(w)[8] = "properties"
    BY <1>2 DEF Calls, CallCount
  <2>2. i \in 1 .. 8
    BY <2>1
  <2> QED
    BY <2>1, <2>2 DEF Ordered, Starts, Waits
<1> QED
  BY <1>1, <1>2

-----------------------------------------------------------------------------
(* The object of the shadow copy.                                          *)

Left(w) ==
  /\ VssOK
  /\ vss.calls <= CallCount(w)
  /\ vss.async => vss.calls > 0 /\ Calls(w)[vss.calls] \in Starts /\ ~Created(w)

Alive(w) ==
  /\ Left(w)
  /\ vss.calls > 0 \/ vss.exists => vss.backup
  /\ vss.calls >= CallCount(w) - 1 /\ vss.sound => vss.exists
  /\ Created(w) => vss.exists

Gone(w) == Left(w) /\ ~vss.backup /\ ~vss.exists

\* Nothing was called yet. (VssShadowCopy::VssShadowCopy)
LEMMA ConstructAlive ==
  ASSUME NEW w
  PROVE  /\ Construct => Alive(w)' /\ ~Created(w)'
         /\ ConstructThrows => Gone(w)' /\ vss'.calls = 0 /\ ~vss'.async
         /\ vss = NoShadow => Gone(w) /\ ~vss.com /\ ~vss.async
         /\ vss' = NoShadow => Gone(w)' /\ ~vss'.com /\ ~vss'.async
<1>1. /\ NoShadow \in Vss
      /\ NoShadow.calls = 0 /\ ~NoShadow.backup /\ ~NoShadow.exists
      /\ ~NoShadow.async /\ ~NoShadow.com
  BY DEF NoShadow, Vss
<1>2. ASSUME NEW b \in BOOLEAN
      PROVE  LET v == [NoShadow EXCEPT !.com = b]
             IN /\ v \in Vss /\ v.calls = 0
                /\ ~v.backup /\ ~v.exists /\ ~v.async
  BY <1>1 DEF Vss, NoShadow
<1>3. CallCount(w) \in 8 .. 13
  BY CallsLength
<1>4. ASSUME Construct PROVE Alive(w)' /\ ~Created(w)'
  <2>1. /\ vss' \in Vss /\ vss'.calls = 0
        /\ ~vss'.backup /\ ~vss'.exists /\ ~vss'.async
    BY <1>2, <1>4 DEF Construct
  <2> QED
    BY <1>3, <2>1 DEF Alive, Left, Created, VssOK
<1>5. ASSUME ConstructThrows PROVE Gone(w)' /\ vss'.calls = 0 /\ ~vss'.async
  <2>1. /\ vss' \in Vss /\ vss'.calls = 0
        /\ ~vss'.backup /\ ~vss'.exists /\ ~vss'.async
    BY <1>2, <1>5 DEF ConstructThrows
  <2> QED
    BY <1>3, <2>1 DEF Gone, Left, Created, VssOK
<1>6. vss = NoShadow => Gone(w) /\ ~vss.com /\ ~vss.async
  BY <1>1, <1>3 DEF Gone, Left, Created, VssOK
<1>7. vss' = NoShadow => Gone(w)' /\ ~vss'.com /\ ~vss'.async
  BY <1>1, <1>3 DEF Gone, Left, Created, VssOK
<1> QED
  BY <1>4, <1>5, <1>6, <1>7

\* What is true of the object stays so with every call that returns. (create)
LEMMA CallAlive ==
  ASSUME NEW w, Alive(w), Call(w)
  PROVE  Alive(w)' /\ vss'.calls = vss.calls + 1
<1> DEFINE v == [vss EXCEPT !.calls = @ + 1]
           c == Calls(w)[vss.calls + 1]
           N == CallCount(w)
<1>1. vss \in Vss /\ vss.calls < N /\ N \in 8 .. 13 /\ vss.calls \in 0 .. 12
  <2>1. vss \in Vss /\ vss.calls <= N /\ vss.calls # N
    BY DEF Alive, Left, Created, Call, VssOK
  <2>2. N \in 8 .. 13
    BY CallsLength
  <2>3. vss.calls \in 0 .. 13
    BY <2>1 DEF Vss
  <2>4. vss.calls < N
    BY <2>1, <2>2, <2>3
  <2>5. vss.calls \in 0 .. 12
    BY <2>2, <2>3, <2>4
  <2> QED
    BY <2>1, <2>2, <2>4, <2>5
<1>2. Ordered(w, vss.calls + 1)
  BY <1>1, CallsOrder
<1>3. vss.async => c \in Waits
  BY <1>1, CallsOrder DEF Alive, Left, Ordered
<1>4. v \in Vss /\ v.calls = vss.calls + 1
  BY <1>1 DEF Vss
<1>5. /\ v.backup = vss.backup /\ v.async = vss.async
      /\ v.sound = vss.sound /\ v.exists = vss.exists
  BY <1>1 DEF Vss
<1> HIDE DEF v
<1>6. /\ v.calls = vss.calls + 1
      /\ vss.calls > 0 \/ vss.exists => vss.backup
      /\ vss.calls >= N - 1 /\ vss.sound => vss.exists
      /\ vss.calls + 1 <= N
      /\ vss.calls + 1 = 1 <=> vss.calls = 0
  BY <1>1, <1>4 DEF Alive
<1>7. CASE c \in {"initialize", "context", "state", "set"} /\ vss' = v
  BY <1>1, <1>2, <1>3, <1>4, <1>5, <1>6, <1>7
     DEF Alive, Left, Created, VssOK, Ordered, Waits
<1>8. CASE c = "components" /\ vss' = [v EXCEPT !.backup = TRUE]
  <2>1. /\ vss' \in Vss /\ vss'.calls = v.calls /\ vss'.backup
        /\ vss'.async = v.async /\ vss'.sound = v.sound /\ vss'.exists = v.exists
    BY <1>4, <1>8 DEF Vss
  <2> QED
    BY <1>1, <1>2, <1>3, <1>5, <1>6, <1>8, <2>1
       DEF Alive, Left, Created, VssOK, Ordered, Waits
<1>9. CASE c = "add" /\ vss' = [v EXCEPT !.haveId = TRUE]
  <2>1. /\ vss' \in Vss /\ vss'.calls = v.calls /\ vss'.backup = v.backup
        /\ vss'.async = v.async /\ vss'.sound = v.sound /\ vss'.exists = v.exists
    BY <1>4, <1>9 DEF Vss
  <2> QED
    BY <1>1, <1>2, <1>3, <1>5, <1>6, <1>9, <2>1
       DEF Alive, Left, Created, VssOK, Ordered, Waits
<1>10. CASE c \in Starts /\ vss.sound /\ vss' = [v EXCEPT !.async = TRUE]
  <2>1. /\ vss' \in Vss /\ vss'.calls = v.calls /\ vss'.backup = v.backup
        /\ vss'.sound = v.sound /\ vss'.exists = v.exists
    BY <1>4, <1>10 DEF Vss
  <2> QED
    BY <1>1, <1>2, <1>5, <1>6, <1>10, <2>1
       DEF Alive, Left, Created, VssOK, Ordered, Starts
<1>11. CASE c \in Waits /\ vss' \in Outcome(v, c)
  <2>1. /\ vss' \in Vss /\ vss'.calls = v.calls /\ vss'.backup = v.backup /\ ~vss'.async
        /\ \/ vss'.exists <=> c = "waitSnapshot"
           \/ ~vss'.sound /\ vss'.exists = v.exists
    <3>1. (c = "waitSnapshot") \in BOOLEAN
      OBVIOUS
    <3> QED
      BY <1>4, <1>11, <3>1 DEF Outcome, Vss
  <2> QED
    BY <1>1, <1>2, <1>5, <1>6, <1>11, <2>1
       DEF Alive, Left, Created, VssOK, Ordered, Waits
<1>12. CASE c = "properties" /\ vss.sound /\ vss' = [v EXCEPT !.haveProp = TRUE]
  <2>1. /\ vss' \in Vss /\ vss'.calls = v.calls /\ vss'.backup = v.backup
        /\ vss'.async = v.async /\ vss'.sound = v.sound /\ vss'.exists = v.exists
    BY <1>4, <1>12 DEF Vss
  <2> QED
    BY <1>1, <1>2, <1>3, <1>5, <1>6, <1>12, <2>1
       DEF Alive, Left, Created, VssOK, Ordered, Waits
<1> QED
  BY <1>7, <1>8, <1>9, <1>10, <1>11, <1>12 DEF Call, v

\* A call that throws changes nothing but what is under way. (create)
LEMMA CallThrowsAlive ==
  ASSUME NEW w, Alive(w), CallThrows(w)
  PROVE  Alive(w)' /\ vss'.calls = vss.calls /\ vss'.com = vss.com
<1>1. vss \in Vss /\ vss.calls < CallCount(w) /\ CallCount(w) \in 8 .. 13
      /\ vss.calls \in 0 .. 12
  BY CallsLength DEF Alive, Left, Created, CallThrows, VssOK, Vss
<1>2. CASE UNCHANGED vss
  BY <1>2 DEF Alive, Left, Created, VssOK
<1>3. CASE /\ Calls(w)[vss.calls + 1] = "waitSnapshot"
           /\ vss' = [vss EXCEPT !.exists = TRUE]
  <2>1. /\ vss' \in Vss /\ vss'.calls = vss.calls /\ vss'.backup = vss.backup
        /\ vss'.async = vss.async /\ vss'.exists /\ vss'.com = vss.com
    BY <1>1, <1>3 DEF Vss
  <2>2. vss.calls > 0
    BY <1>1, <1>3, CallsOrder DEF Ordered
  <2> QED
    BY <2>1, <2>2 DEF Alive, Left, Created, VssOK
<1> QED
  BY <1>2, <1>3 DEF CallThrows

\* The destructor leaves no shadow copy, whether or not deleting it works. (release)
LEMMA DestroyGone ==
  ASSUME NEW w, Alive(w), Destroy
  PROVE  Gone(w)' /\ ~vss'.com /\ vss'.async = vss.async /\ vss'.calls = vss.calls
<1>1. vss \in Vss
  BY DEF Alive, Left, VssOK
<1>2. ASSUME NEW e \in BOOLEAN,
             vss' = [vss EXCEPT !.haveProp = FALSE, !.haveId = FALSE, !.com = FALSE,
                                !.backup = FALSE, !.exists = e]
      PROVE  /\ vss' \in Vss /\ vss'.calls = vss.calls /\ vss'.async = vss.async
             /\ ~vss'.com /\ ~vss'.backup /\ vss'.exists = e
  BY <1>1, <1>2 DEF Vss
<1>3. (vss.exists /\ ~vss.backup) = FALSE
  BY <1>1 DEF Alive, Vss
<1>4. vss' = [vss EXCEPT !.haveProp = FALSE, !.haveId = FALSE, !.com = FALSE,
                         !.backup = FALSE, !.exists = FALSE]
  BY <1>1, <1>3 DEF Destroy, Vss
<1>5. /\ vss' \in Vss /\ vss'.calls = vss.calls /\ vss'.async = vss.async
      /\ ~vss'.com /\ ~vss'.backup /\ ~vss'.exists
  BY <1>2, <1>4
<1> QED
  BY <1>5 DEF Gone, Alive, Left, Created, VssOK

-----------------------------------------------------------------------------
(* The session.                                                            *)

\* The steps of main2 after the shadow copy was taken, and the end.
Running == {"resolveSrc", "openSrc", "layoutSrc", "verifySrc", "resolveDest", "openDest",
            "layoutDest", "compare", "lockSrc", "lockDest", "load", "work"}
Over == {"unwind", "ended"}

\* The shadow copy lives as long as a handle on it.
ShadowInv ==
  /\ IF "shadow" \in objs THEN Alive(cmd.writers) ELSE Gone(cmd.writers)
  /\ pc = "construct" => vss = NoShadow /\ objs = {}
  /\ pc = "create" => objs = {"shadow"} /\ ~Created(cmd.writers)
  /\ pc \in {"construct", "create", "resolveSrc", "openSrc"} => "src" \notin objs
  /\ cmd.shadow /\ (pc \in Running \/ "src" \in objs) =>
       "shadow" \in objs /\ Created(cmd.writers)
  /\ vss.com /\ "shadow" \notin objs =>
       vss.calls = 0 /\ pc \in Over /\ result = "error"
  /\ vss.async => pc = "create" \/ (pc \in Over /\ result = "error" /\ ~Created(cmd.writers))

\* A lock belongs to an object, and keeps others out.
LockInv ==
  /\ locked \cap users = {}
  /\ "src" \in locked => "srcLock" \in objs
  /\ "dest" \in locked => "destLock" \in objs
  /\ pc = "ended" => objs = {}
  /\ pc \in {"lockDest", "load", "work"} /\ "src" \in isVolume => "src" \in locked
  /\ pc \in {"load", "work"} /\ "dest" \in isVolume => "dest" \in locked

MountsAllowed == "dest" \in isVolume /\ warned => ~MountPointsForbidden
Matching == alike \/ cmd.allowDifferent \/ cmd.blank

\* What the checks let through, from the step after each of them on.
GuardInv ==
  /\ pc \in {"construct", "create", "resolveSrc", "openSrc", "layoutSrc", "verifySrc",
             "resolveDest"} => "dest" \notin isVolume
  /\ pc \in {"openDest", "layoutDest", "compare", "lockSrc", "lockDest", "load", "work"}
       => MountsAllowed
  /\ pc \in {"lockSrc", "lockDest", "load", "work"} => Matching
  /\ writable => cmd.write /\ cmd.writes
  /\ written => /\ pc \in {"work"} \cup Over
                /\ cmd.write /\ cmd.writes /\ MountsAllowed /\ Matching

\* What was read of the source is what it still shows.
SourceInv ==
  /\ cmd.shadow /\ pc \in Running \ {"resolveSrc", "openSrc", "layoutSrc"} => layout = snapSize
  /\ cmd.shadow /\ pc = "work" => loaded = snapSize
  /\ ~cmd.shadow /\ pc = "work" /\ "src" \in isVolume => loaded = size

IInv == TypeOK /\ ShadowInv /\ LockInv /\ GuardInv /\ SourceInv

\* The four invariants that the runs check follow from the inductive one.
LEMMA Consequences == IInv => AccessInv /\ StableSource /\ WriteGuards /\ NothingLeft
<1> SUFFICES ASSUME IInv PROVE AccessInv /\ StableSource /\ WriteGuards /\ NothingLeft
  OBVIOUS
<1> USE DEF IInv
<1>1. AccessInv
  <2>1. ShadowOutlives
    BY DEF ShadowOutlives, ShadowInv, Alive
  <2>2. Exclusive
    <3>1. isVolume \subseteq {"src", "dest"}
      BY DEF TypeOK, Volumes
    <3> QED
      BY <3>1 DEF Exclusive, LockInv
  <2> QED
    BY <2>1, <2>2 DEF AccessInv
<1>2. StableSource
  BY DEF StableSource, SourceInv, View, Running
<1>3. WriteGuards
  BY DEF WriteGuards, GuardInv, MountsAllowed, Matching, MountPointsForbidden
<1>4. NothingLeft
  <2>1. pc = "ended" => objs = {}
    BY DEF LockInv
  <2>2. locked \subseteq {"src", "dest"}
    BY DEF TypeOK, Volumes
  <2>3. pc = "ended" => locked = {}
    BY <2>1, <2>2 DEF LockInv
  <2> QED
    BY <2>1, <2>3 DEF NothingLeft, ShadowInv, Gone
<1> QED
  BY <1>1, <1>2, <1>3, <1>4

\* A session starts with nothing made, locked or looked at. (main2)
LEMMA InitHolds == Init => IInv
<1> SUFFICES ASSUME Init PROVE IInv
  OBVIOUS
<1>1. /\ Gone(cmd.writers) /\ ~vss.com /\ ~vss.async /\ VssOK
  BY ConstructAlive DEF Init, Gone, Left
<1>2. cmd \in CommandLines /\ cmd \in CommandLine
  BY DEF Init
<1>3. pc \in {"construct", "resolveSrc"} /\ (pc = "construct" => cmd.shadow)
                                         /\ (pc = "resolveSrc" => ~cmd.shadow)
  BY <1>2 DEF Init, CommandLine
<1>4. TypeOK
  <2>1. {size, snapSize, layout, loaded} \subseteq 0 .. MaxGrowth
    BY DEF Init
  <2>2. {alike, mounted, warned, writable, written} \subseteq BOOLEAN
    BY DEF Init
  <2>3. pc \in Steps
    BY <1>3 DEF Steps
  <2> QED
    BY <1>1, <1>2, <2>1, <2>2, <2>3 DEF Init, TypeOK, Volumes
<1>5. ShadowInv
  BY <1>1, <1>3 DEF Init, ShadowInv, Running, Over
<1>6. LockInv /\ GuardInv /\ SourceInv
  BY <1>3 DEF Init, LockInv, GuardInv, SourceInv, MountsAllowed, Matching, Running, Over
<1> QED
  BY <1>4, <1>5, <1>6 DEF IInv

-----------------------------------------------------------------------------
(* Every step keeps the invariant.                                         *)

\* The steps that neither make nor destroy an object.
Quiet ==
  \/ ResolveSrc \/ LayoutSrc \/ VerifySrc \/ ResolveDest \/ InitLayout \/ LayoutDest
  \/ Compare \/ Load \/ Write \/ Return \/ Fail

Actions ==
  \/ ConstructShadow \/ CreateShadow
  \/ Quiet \/ OpenSrc \/ OpenDest \/ LockSrc \/ LockDest
  \/ Trap \/ (\E o \in Objects : Unwind(o)) \/ Exit
  \/ (\E v \in Volumes : Others(v))
  \/ UNCHANGED vars

\* The steps of the session and of others, sorted for the proofs.
LEMMA NextIsActions == [Next]_vars => Actions
BY DEF Next, Program, Actions, Quiet, Ended

\* Where the object of the shadow copy goes in each step. (VssShadowCopy)
LEMMA ShadowSteps ==
  ASSUME IInv
  PROVE  /\ ConstructShadow =>
              IF "shadow" \in objs'
              THEN Alive(cmd.writers)' /\ ~Created(cmd.writers)' /\ pc' = "create" /\ objs' = {"shadow"}
              ELSE /\ Gone(cmd.writers)' /\ vss'.calls = 0 /\ ~vss'.async
                   /\ pc' = "unwind" /\ result' = "error" /\ objs' = {}
         /\ CreateShadow => /\ Alive(cmd.writers)' /\ objs' = {"shadow"}
                            /\ \/ pc' = "create" /\ ~Created(cmd.writers)'
                               \/ pc' = "resolveSrc" /\ Created(cmd.writers)' /\ ~vss'.async
                               \/ pc' = "unwind" /\ result' = "error" /\ ~Created(cmd.writers)'
         /\ Trap => Gone(cmd.writers)' /\ ~vss'.com /\ ~vss'.async
<1> USE DEF IInv
<1>1. ASSUME ConstructShadow
      PROVE  IF "shadow" \in objs'
             THEN Alive(cmd.writers)' /\ ~Created(cmd.writers)' /\ pc' = "create" /\ objs' = {"shadow"}
             ELSE /\ Gone(cmd.writers)' /\ vss'.calls = 0 /\ ~vss'.async
                  /\ pc' = "unwind" /\ result' = "error" /\ objs' = {}
  <2>1. objs = {} /\ cmd' = cmd
    BY <1>1 DEF ConstructShadow, ShadowInv
  <2>2. CASE Construct /\ pc' = "create" /\ objs' = objs \cup {"shadow"}
    <3>1. Alive(cmd.writers)' /\ ~Created(cmd.writers)'
      BY <2>1, <2>2, ConstructAlive DEF Alive, Left, Created, VssOK
    <3> QED
      BY <2>1, <2>2, <3>1
  <2>3. CASE ConstructThrows /\ Throw /\ UNCHANGED objs
    <3>1. Gone(cmd.writers)' /\ vss'.calls = 0 /\ ~vss'.async
      BY <2>1, <2>3, ConstructAlive DEF Gone, Left, VssOK
    <3> QED
      BY <2>1, <2>3, <3>1 DEF Throw
  <2> QED
    BY <1>1, <2>2, <2>3 DEF ConstructShadow
<1>2. ASSUME CreateShadow
      PROVE  /\ Alive(cmd.writers)' /\ objs' = {"shadow"}
             /\ \/ pc' = "create" /\ ~Created(cmd.writers)'
                \/ pc' = "resolveSrc" /\ Created(cmd.writers)' /\ ~vss'.async
                \/ pc' = "unwind" /\ result' = "error" /\ ~Created(cmd.writers)'
  <2>1. /\ objs = {"shadow"} /\ ~Created(cmd.writers) /\ cmd' = cmd /\ objs' = objs
        /\ Alive(cmd.writers)
    BY <1>2 DEF CreateShadow, ShadowInv
  <2>2. CASE /\ Call(cmd.writers)
             /\ pc' = IF vss'.calls = CallCount(cmd.writers) THEN "resolveSrc" ELSE pc
    <3>1. Alive(cmd.writers)'
      BY <2>1, <2>2, CallAlive DEF Alive, Left, Created, VssOK
    <3>2. Created(cmd.writers)' => ~vss'.async
      BY <2>1, <3>1 DEF Alive, Left, Created, VssOK
    <3> QED
      BY <1>2, <2>1, <2>2, <3>1, <3>2 DEF Created, CreateShadow
  <2>3. CASE CallThrows(cmd.writers) /\ Throw
    <3>1. Alive(cmd.writers)' /\ vss'.calls = vss.calls
      BY <2>1, <2>3, CallThrowsAlive DEF Alive, Left, Created, VssOK
    <3> QED
      BY <2>1, <2>3, <3>1 DEF Throw, Created
  <2> QED
    BY <1>2, <2>2, <2>3 DEF CreateShadow
<1>3. ASSUME Trap PROVE Gone(cmd.writers)' /\ ~vss'.com /\ ~vss'.async
  <2>1. cmd' = cmd /\ vss' = NoShadow
    BY <1>3 DEF Trap
  <2> QED
    BY <2>1, ConstructAlive DEF Gone, Left, VssOK
<1> QED
  BY <1>1, <1>2, <1>3

\* The quiet steps are taken between the shadow copy and the end. (main2)
LEMMA QuietSteps ==
  ASSUME IInv, Quiet
  PROVE  /\ pc \in Running
         /\ pc' \in (Running \ {"resolveSrc"}) \cup {"unwind"}
         /\ pc' = "openSrc" => pc = "resolveSrc"
         /\ pc' \in {"lockSrc"} => pc \in {"layoutDest", "compare"}
         /\ pc' = "work" => pc \in {"load", "work"}
         /\ pc' \notin {"lockDest", "load"}
         /\ UNCHANGED <<cmd, vss, objs, env, snapSize, locked>>
<1>1. pc \in Steps
  BY DEF IInv, TypeOK
<1>2. CASE Fail
  BY <1>1, <1>2 DEF Fail, Throw, Running, Steps, env
<1>3. CASE Quiet /\ ~Fail
  BY <1>3 DEF Quiet, ResolveSrc, LayoutSrc, VerifySrc, ResolveDest, InitLayout, LayoutDest,
     Compare, Load, Write, Return, Throw, Running, env, found
<1> QED
  BY <1>2, <1>3

\* No step leads to a state out of type.
LEMMA TypeNext == IInv /\ Actions => TypeOK'
<1> SUFFICES ASSUME IInv, Actions PROVE TypeOK'
  OBVIOUS
<1> USE DEF IInv, TypeOK
<1>1. CASE ConstructShadow
  <2>1. VssOK'
    BY <1>1, ShadowSteps DEF ConstructShadow, Alive, Gone, Left
  <2> QED
    BY <1>1, <2>1 DEF ConstructShadow, Throw, Steps, Objects, env, found
<1>2. CASE CreateShadow
  <2>1. VssOK'
    BY <1>2, ShadowSteps DEF Alive, Left
  <2>2. snapSize' \in 0 .. MaxGrowth
    BY <1>2 DEF CreateShadow
  <2> QED
    BY <1>2, <2>1, <2>2 DEF CreateShadow, Throw, Steps, Objects, env, found
<1>3. CASE Quiet
  <2>1. /\ VssOK' /\ pc' \in Steps
        /\ UNCHANGED <<cmd, vss, objs, env, snapSize, locked>>
    BY <1>3, QuietSteps DEF VssOK, Running, Steps
  <2>2. /\ isVolume' \subseteq Volumes
        /\ {warned', writable', written'} \subseteq BOOLEAN
        /\ {layout', loaded'} \subseteq 0 .. MaxGrowth
        /\ result' \in {"none", "ok", "error", "trapped"}
    BY <1>3 DEF Quiet, ResolveSrc, LayoutSrc, VerifySrc, ResolveDest, InitLayout, LayoutDest,
       Compare, Load, Write, Return, Fail, Throw, View, Volumes, env, found
  <2> QED
    BY <2>1, <2>2 DEF env
<1>4. CASE OpenSrc \/ OpenDest
  BY <1>4 DEF OpenSrc, OpenDest, CommandLine, Steps, Objects, VssOK, env, found
<1>5. CASE LockSrc \/ LockDest
  BY <1>5 DEF LockSrc, LockDest, Lock, Throw, Steps, Objects, Volumes, VssOK, env, found
<1>6. CASE Trap
  <2>1. VssOK'
    BY <1>6, ShadowSteps DEF Gone, Left
  <2> QED
    BY <1>6, <2>1 DEF Trap, Steps, env, found
<1>7. ASSUME NEW o \in Objects, Unwind(o) PROVE TypeOK'
  <2>1. VssOK'
    <3>1. CASE o = "shadow"
      <4>1. Alive(cmd.writers) /\ Destroy
        BY <1>7, <3>1 DEF Unwind, NextDestroyed, ShadowInv
      <4> QED
        BY <4>1, DestroyGone DEF Gone, Left
    <3>2. CASE o # "shadow"
      BY <1>7, <3>2 DEF Unwind, VssOK
    <3> QED
      BY <3>1, <3>2
  <2> QED
    BY <1>7, <2>1 DEF Unwind, NextDestroyed, env, found
<1>8. CASE Exit
  BY <1>8 DEF Exit, Steps, VssOK, env, found
<1>9. ASSUME NEW v \in Volumes, Others(v) PROVE TypeOK'
  <2>1. size' \in 0 .. MaxGrowth
    <3>1. size \in 0 .. MaxGrowth
      OBVIOUS
    <3>2. size' = size \/ (size < MaxGrowth /\ size' = size + 1)
      BY <1>9 DEF Others
    <3> QED
      BY <3>1, <3>2
  <2>2. (mounted' = mounted \/ mounted' = ~mounted) /\ users' \subseteq Volumes
    BY <1>9 DEF Others
  <2>3. mounted' \in BOOLEAN
    <3>1. mounted \in BOOLEAN
      OBVIOUS
    <3> HIDE DEF IInv, TypeOK
    <3> QED
      BY <2>2, <3>1, Zenon
  <2> QED
    BY <1>9, <2>1, <2>2, <2>3 DEF Others, VssOK, found
<1>10. CASE UNCHANGED vars
  BY <1>10 DEF vars, VssOK, env, found
<1> QED
  BY <1>1, <1>2, <1>3, <1>4, <1>5, <1>6, <1>7, <1>8, <1>9, <1>10 DEF Actions

\* The shadow copy lives as long as a handle on it. (main2, VssShadowCopy)
LEMMA ShadowNext == IInv /\ Actions => ShadowInv'
<1> SUFFICES ASSUME IInv, Actions PROVE ShadowInv'
  OBVIOUS
<1> USE DEF IInv
<1>0. ASSUME UNCHANGED <<cmd, vss>>
      PROVE  /\ Alive(cmd.writers)' <=> Alive(cmd.writers)
             /\ Gone(cmd.writers)' <=> Gone(cmd.writers)
             /\ Created(cmd.writers)' <=> Created(cmd.writers)
  BY <1>0 DEF Alive, Gone, Left, Created, VssOK
<1>1. CASE ConstructShadow
  <2>1. CASE "shadow" \in objs'
    BY <1>1, <2>1, ShadowSteps DEF ShadowInv, Running, Over, Alive, Left
  <2>2. CASE "shadow" \notin objs'
    BY <1>1, <2>2, ShadowSteps DEF ShadowInv, Running, Over, Gone, Left
  <2> QED
    BY <2>1, <2>2
<1>2. CASE CreateShadow
  BY <1>2, ShadowSteps DEF ShadowInv, Running, Over
<1>3. CASE Quiet
  BY <1>0, <1>3, QuietSteps DEF ShadowInv, Running, Over
<1>4. CASE OpenSrc \/ OpenDest
  BY <1>0, <1>4 DEF OpenSrc, OpenDest, ShadowInv, Running, Over, env
<1>5. CASE LockSrc \/ LockDest
  BY <1>0, <1>5 DEF LockSrc, LockDest, Lock, Throw, ShadowInv, Running, Over, env
<1>6. CASE Trap
  BY <1>6, ShadowSteps DEF Trap, ShadowInv, Running, Over
<1>7. ASSUME NEW o \in Objects, Unwind(o) PROVE ShadowInv'
  <2>1. pc' = "unwind" /\ pc = "unwind" /\ objs' = objs \ {o} /\ cmd' = cmd /\ result' = result
        /\ o \in objs
    BY <1>7 DEF Unwind, NextDestroyed
  <2>2. CASE o = "shadow"
    <3>1. Alive(cmd.writers) /\ Destroy
      BY <1>7, <2>1, <2>2 DEF Unwind, ShadowInv
    <3>2. /\ Gone(cmd.writers)' /\ ~vss'.com
          /\ vss'.async = vss.async /\ vss'.calls = vss.calls
      BY <2>1, <3>1, DestroyGone DEF Gone, Left, Created, VssOK
    <3>3. "src" \notin objs'
      BY <1>7, <2>1, <2>2 DEF Unwind, NextDestroyed, Rank
    <3> QED
      BY <2>1, <2>2, <3>2, <3>3 DEF ShadowInv, Running, Over, Created
  <2>3. CASE o # "shadow"
    <3>1. vss' = vss
      BY <1>7, <2>3 DEF Unwind
    <3> QED
      BY <1>0, <2>1, <2>3, <3>1 DEF ShadowInv, Running, Over
  <2> QED
    BY <2>2, <2>3
<1>8. CASE Exit
  BY <1>0, <1>8 DEF Exit, ShadowInv, Running, Over
<1>9. ASSUME NEW v \in Volumes, Others(v) PROVE ShadowInv'
  BY <1>0, <1>9 DEF Others, ShadowInv
<1>10. CASE UNCHANGED vars
  BY <1>0, <1>10 DEF vars, ShadowInv
<1> QED
  BY <1>1, <1>2, <1>3, <1>4, <1>5, <1>6, <1>7, <1>8, <1>9, <1>10 DEF Actions

\* A lock belongs to an object, and keeps others out. (VolumeLock)
LEMMA LockNext == IInv /\ Actions => LockInv'
<1> SUFFICES ASSUME IInv, Actions PROVE LockInv'
  OBVIOUS
<1> USE DEF IInv, LockInv
<1>1. CASE ConstructShadow
  BY <1>1 DEF ConstructShadow, ShadowInv, Throw, env, found
<1>2. CASE CreateShadow
  BY <1>2 DEF CreateShadow, Throw, env, found
<1>3. CASE Quiet
  <2>1. pc' \in {"work"} => UNCHANGED isVolume
    BY <1>3 DEF Quiet, ResolveSrc, LayoutSrc, VerifySrc, ResolveDest, InitLayout, LayoutDest,
       Compare, Load, Write, Return, Fail, Throw, found
  <2> QED
    BY <1>3, <2>1, QuietSteps DEF Running, env
<1>4. CASE OpenSrc \/ OpenDest
  BY <1>4 DEF OpenSrc, OpenDest, env, found
<1>5. CASE LockSrc
  BY <1>5 DEF LockSrc, Lock, IgnoreErrors, Throw, env, found
<1>6. CASE LockDest
  BY <1>6 DEF LockDest, Lock, IgnoreErrors, Throw, env, found
<1>7. CASE Trap
  BY <1>7 DEF Trap
<1>8. ASSUME NEW o \in Objects, Unwind(o) PROVE LockInv'
  BY <1>8 DEF Unwind, NextDestroyed, env, found
<1>9. CASE Exit
  BY <1>9 DEF Exit, env, found
<1>10. ASSUME NEW v \in Volumes, Others(v) PROVE LockInv'
  BY <1>10 DEF Others, found
<1>11. CASE UNCHANGED vars
  BY <1>11 DEF vars, env, found
<1> QED
  BY <1>1, <1>2, <1>3, <1>4, <1>5, <1>6, <1>7, <1>8, <1>9, <1>10, <1>11 DEF Actions

\* What the checks let through stays so. (verifyMountPoints, compareVolumeParams)
LEMMA GuardNext == IInv /\ Actions => GuardInv'
<1> SUFFICES ASSUME IInv, Actions PROVE GuardInv'
  OBVIOUS
<1> USE DEF IInv, GuardInv, MountsAllowed, Matching, MountPointsForbidden
<1>1. CASE ConstructShadow
  BY <1>1 DEF ConstructShadow, Throw, Over, env, found
<1>2. CASE CreateShadow
  BY <1>2 DEF CreateShadow, Throw, Over, env, found
<1>3. CASE ResolveSrc
  BY <1>3 DEF ResolveSrc, Over, env
<1>4. CASE LayoutSrc \/ VerifySrc
  BY <1>4 DEF LayoutSrc, VerifySrc, Throw, Over, env, found
<1>5. CASE ResolveDest
  BY <1>5 DEF ResolveDest, Throw, Over, env
<1>6. CASE InitLayout \/ LayoutDest \/ Compare
  BY <1>6 DEF InitLayout, LayoutDest, Compare, Throw, Over, env, found
<1>7. CASE Load \/ Write \/ Return
  BY <1>7 DEF Load, Write, Return, Throw, Over, env, found
<1>8. CASE Fail
  BY <1>8 DEF Fail, Throw, Over, env, found
<1>9. CASE OpenSrc \/ OpenDest
  <2>1. writable' => cmd.write /\ cmd.writes
    BY <1>9 DEF OpenSrc, OpenDest, found
  <2>2. /\ pc \in {"openSrc", "openDest"} /\ pc' \in {"layoutSrc", "layoutDest"}
        /\ pc' = "layoutSrc" <=> pc = "openSrc"
        /\ UNCHANGED <<cmd, alike, isVolume, warned, written>>
    BY <1>9 DEF OpenSrc, OpenDest, env, found
  <2> QED
    BY <2>1, <2>2 DEF Over
<1>10. CASE LockSrc \/ LockDest
  BY <1>10 DEF LockSrc, LockDest, Lock, Throw, Over, env, found
<1>11. CASE Trap
  BY <1>11 DEF Trap, Over, env, found
<1>12. ASSUME NEW o \in Objects, Unwind(o) PROVE GuardInv'
  BY <1>12 DEF Unwind, Over, env, found
<1>13. CASE Exit
  BY <1>13 DEF Exit, Over, env, found
<1>14. ASSUME NEW v \in Volumes, Others(v) PROVE GuardInv'
  BY <1>14 DEF Others, Over, found
<1>15. CASE UNCHANGED vars
  BY <1>15 DEF vars, env, found
<1> QED
  BY <1>1, <1>2, <1>3, <1>4, <1>5, <1>6, <1>7, <1>8, <1>9, <1>10, <1>11, <1>12, <1>13,
     <1>14, <1>15 DEF Actions, Quiet

\* What was read of the source stays what it shows. (readLayout, Mft::load)
LEMMA SourceNext == IInv /\ Actions => SourceInv'
<1> SUFFICES ASSUME IInv, Actions PROVE SourceInv'
  OBVIOUS
<1> USE DEF IInv, SourceInv, Running
<1>1. CASE ConstructShadow
  BY <1>1 DEF ConstructShadow, Throw
<1>2. CASE CreateShadow
  BY <1>2 DEF CreateShadow, Throw
<1>3. CASE LayoutSrc \/ Load
  BY <1>3 DEF LayoutSrc, Load, View, env
<1>4. CASE Quiet /\ ~LayoutSrc /\ ~Load
  BY <1>4 DEF Quiet, ResolveSrc, VerifySrc, ResolveDest, InitLayout, LayoutDest,
     Compare, Write, Return, Fail, Throw, env, found
<1>5. CASE OpenSrc \/ OpenDest
  BY <1>5 DEF OpenSrc, OpenDest, env, found
<1>6. CASE LockSrc \/ LockDest
  BY <1>6 DEF LockSrc, LockDest, Lock, Throw, env, found
<1>7. CASE Trap
  BY <1>7 DEF Trap
<1>8. ASSUME NEW o \in Objects, Unwind(o) PROVE SourceInv'
  BY <1>8 DEF Unwind
<1>9. CASE Exit
  BY <1>9 DEF Exit
<1>10. ASSUME NEW v \in Volumes, Others(v) PROVE SourceInv'
  BY <1>10 DEF Others, LockInv, found
<1>11. CASE UNCHANGED vars
  BY <1>11 DEF vars, env, found
<1> QED
  BY <1>1, <1>2, <1>3, <1>4, <1>5, <1>6, <1>7, <1>8, <1>9, <1>10, <1>11 DEF Actions, Quiet

-----------------------------------------------------------------------------
(* The theorems.                                                           *)

\* The inductive invariant holds in every state of every session.
LEMMA Invariant == Spec => []IInv
<1>1. IInv /\ [Next]_vars => IInv'
  BY NextIsActions, TypeNext, ShadowNext, LockNext, GuardNext, SourceNext DEF IInv
<1> QED
  BY <1>1, InitHolds, PTL DEF Spec

\* Whatever fails and whatever other programs do, an open source has its shadow
\* copy, and a volume that is worked on is locked for nobody else.
\* (VssShadowCopy, VolumeLock)
THEOREM AccessSafe == Spec => []AccessInv
BY Invariant, Consequences, PTL

\* What the session reads does not move under it, for sources that grow as often
\* as they like before the lock. (main2)
THEOREM SourceIsStable == Spec => []StableSource
BY Invariant, Consequences, PTL

\* Nothing is written that the command line and the checks did not let through.
\* (verifyMountPoints, compareVolumeParams)
THEOREM WritesAreGuarded == Spec => []WriteGuards
BY Invariant, Consequences, PTL

\* However the session ends, nothing is left behind. (the destructors)
THEOREM EverythingReleased == Spec => []NothingLeft
BY Invariant, Consequences, PTL
=============================================================================
