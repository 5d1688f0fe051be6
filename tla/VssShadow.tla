----------------------------- MODULE VssShadow -----------------------------
(***************************************************************************)
(* VssShadowCopy (core/vssutil.h, core/vssutil.cpp): a straight sequence   *)
(* of COM calls that takes a shadow copy of a volume, any of which may     *)
(* fail and throw, and the release of whatever had been made by then.      *)
(*                                                                         *)
(* The service works asynchronously: an operation is started, waited for,  *)
(* and may have failed although the wait succeeded. The code does not ask  *)
(* for its status, but the calls that follow it notice. The shadow copy is *)
(* "auto-release": it goes with the object that made it.                   *)
(***************************************************************************)
EXTENDS Integers, Sequences

VARIABLE vss  \* the object, what it holds, and the service

\* create(), for both values of m_snapshotMode. "startX" begins an operation,
\* "waitX" waits for it and releases the IVssAsync.
Calls(writers) ==
  IF writers
  THEN <<"components", "initialize", "context",
         "state", "startGather", "waitGather",
         "set", "add",
         "startPrepare", "waitPrepare",
         "startSnapshot", "waitSnapshot", "properties">>
  ELSE <<"components", "initialize", "context",
         "set", "add",
         "startSnapshot", "waitSnapshot", "properties">>

Starts == {"startGather", "startPrepare", "startSnapshot"}
Waits  == {"waitGather", "waitPrepare", "waitSnapshot"}

NoShadow ==
  [calls |-> 0,              \* how many calls of create() returned
   com |-> FALSE,            \* CoInitialize without CoUninitialize
   backup |-> FALSE,         \* m_pBackup
   haveId |-> FALSE,         \* m_haveSnapshotId
   haveProp |-> FALSE,       \* m_haveSnapshotProp
   async |-> FALSE,          \* an IVssAsync that nobody has released
   sound |-> TRUE,           \* no operation of the service failed
   exists |-> FALSE]         \* the shadow copy

Vss == [calls : 0 .. 13, com : BOOLEAN, backup : BOOLEAN, haveId : BOOLEAN,
        haveProp : BOOLEAN, async : BOOLEAN, sound : BOOLEAN, exists : BOOLEAN]
VssOK == vss \in Vss

CallCount(writers) == Len(Calls(writers))
Created(writers) == vss.calls = CallCount(writers)

-----------------------------------------------------------------------------
Construct == vss' = [NoShadow EXCEPT !.com = TRUE]

\* CoInitialize fails, or CoInitializeSecurity does: then the object does not
\* exist, and no destructor undoes the first.
ConstructThrows == \E com \in BOOLEAN : vss' = [NoShadow EXCEPT !.com = com]

\* An operation that was waited for succeeded, or failed without telling.
Outcome(v, c) ==
  {[v EXCEPT !.exists = (c = "waitSnapshot"), !.async = FALSE],
   [v EXCEPT !.sound = FALSE, !.async = FALSE]}

\* The next call of create() returns.
Call(writers) ==
  LET c == Calls(writers)[vss.calls + 1]
      v == [vss EXCEPT !.calls = @ + 1]
  IN /\ ~Created(writers)
     /\ \/ c \in {"initialize", "context", "state", "set"} /\ vss' = v
        \/ c = "components" /\ vss' = [v EXCEPT !.backup = TRUE]
        \/ c = "add"        /\ vss' = [v EXCEPT !.haveId = TRUE]
        \/ c \in Starts     /\ vss.sound /\ vss' = [v EXCEPT !.async = TRUE]
        \/ c \in Waits      /\ vss' \in Outcome(v, c)
        \/ c = "properties" /\ vss.sound /\ vss' = [v EXCEPT !.haveProp = TRUE]

\* The next call fails and throws. After a wait that failed the IVssAsync is
\* not released, and the operation takes its course.
CallThrows(writers) ==
  LET c == Calls(writers)[vss.calls + 1]
  IN /\ ~Created(writers)
     /\ \/ UNCHANGED vss
        \/ c = "waitSnapshot" /\ vss' = [vss EXCEPT !.exists = TRUE]

\* Mutant: the backup components are not released.
DestroyKeepsBackup ==
  \E deleted \in BOOLEAN :
    vss' = [vss EXCEPT !.haveProp = FALSE, !.haveId = FALSE, !.com = FALSE,
                       !.exists = @ /\ ~(vss.haveId /\ deleted)]

\* The destructor: release() deletes the shadow copy, whether or not that works,
\* and releases the object, which does it in any case; then CoUninitialize.
Destroy ==
  vss' = [vss EXCEPT !.haveProp = FALSE, !.haveId = FALSE, !.com = FALSE,
                     !.backup = FALSE, !.exists = @ /\ ~vss.backup]
=============================================================================
