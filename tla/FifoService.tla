---------------------------- MODULE FifoService ----------------------------
(***************************************************************************)
(* What an asynchronous read queue promises the code above it, without     *)
(* slots, indices or an operating system: a bounded first-in first-out     *)
(* line of requests, each answered by its own data, which may break down   *)
(* at any moment and then delivers nothing more.                           *)
(***************************************************************************)
EXTENDS Integers, Sequences

CONSTANTS Capacity,  \* how many requests the line holds
          Asked      \* what can be asked for

VARIABLES waiting,   \* the line, oldest first
          holding,   \* the client has the oldest one's data in its hands
          working,   \* nothing has failed
          answered   \* history: every request taken off the line, with its data

fvars == <<waiting, holding, working, answered>>

FifoInit ==
  /\ waiting = <<>>
  /\ holding = FALSE
  /\ working = TRUE
  /\ answered = <<>>

Enter(r) ==
  /\ working
  /\ Len(waiting) < Capacity
  /\ waiting' = Append(waiting, r)
  /\ UNCHANGED <<holding, working, answered>>

Hold ==
  /\ working /\ ~holding
  /\ waiting # <<>>
  /\ holding' = TRUE
  /\ UNCHANGED <<waiting, working, answered>>

Leave ==
  /\ working /\ holding
  /\ waiting # <<>>
  /\ answered' = Append(answered, [req |-> Head(waiting), buf |-> Head(waiting)])
  /\ waiting' = Tail(waiting)
  /\ holding' = FALSE
  /\ UNCHANGED working

BreakDown ==
  /\ working
  /\ working' = FALSE
  /\ UNCHANGED <<waiting, holding, answered>>

FifoNext == (\E r \in Asked : Enter(r)) \/ Hold \/ Leave \/ BreakDown

FifoSpec == FifoInit /\ [][FifoNext]_fvars
=============================================================================
