------------------------------ MODULE WaitIdle ------------------------------
(***************************************************************************)
(* What idleness tracking promises, without a counter or a channel: tasks  *)
(* come and go, and the one waiter is let through only at a moment when no *)
(* task is live.  Runtime::shutdown_on_idle (thread pool) and Runtime::run *)
(* (current thread) rely on exactly this; module Idle shows how idle.rs    *)
(* provides it.                                                            *)
(***************************************************************************)
CONSTANT Tasks

VARIABLES
  live,      \* the tasks begun and not finished
  waiting    \* is the waiter inside idle()?

vars == <<live, waiting>>

Init == live = {} /\ waiting = FALSE

Begin(t) ==
  /\ t \notin live
  /\ live' = live \union {t}
  /\ UNCHANGED waiting

Finish(t) ==
  /\ t \in live
  /\ live' = live \ {t}
  /\ UNCHANGED waiting

Wait ==
  /\ ~waiting
  /\ waiting' = TRUE
  /\ UNCHANGED live

Return ==
  /\ waiting
  /\ live = {}
  /\ waiting' = FALSE
  /\ UNCHANGED live

Next == (\E t \in Tasks : Begin(t) \/ Finish(t)) \/ Wait \/ Return

Safety == Init /\ [][Next]_vars

\* A waiter that finds no live task, and goes on finding none, returns.
Spec == Safety /\ WF_vars(Return)
=============================================================================
