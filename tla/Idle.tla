-------------------------------- MODULE Idle --------------------------------
(***************************************************************************)
(* Idleness tracking, src/runtime/idle.rs: a counter of the tasks spawned  *)
(* without a JoinHandle, an unbounded channel of () notifications, and the *)
(* one receiver that waits for the counter to reach zero.                  *)
(*                                                                         *)
(* Every step is one access to shared memory or to the channel, so the     *)
(* interleavings of reserve(), Track::with() and Rx::idle() are those of   *)
(* the threads that call them.  The accesses are sequentially consistent   *)
(* here; module IdleOrdering keeps their Relaxed/Acquire/Release orderings.*)
(***************************************************************************)
EXTENDS Naturals, FiniteSets

CONSTANT Tasks    \* one element for each call of Idle::reserve

ASSUME TasksAssumption == IsFiniteSet(Tasks)

VARIABLES
  spawned,   \* the AtomicUsize
  queue,     \* number of () messages in the channel
  track,     \* where each Track is
  rx         \* where Rx::idle is

vars == <<spawned, queue, track, rx>>

TrackState ==
  {"new",       \* not reserved yet
   "running",   \* reserved, its future has not completed
   "notify",    \* it took the counter from one to zero and has yet to send
   "done",      \* with() has returned
   "lost"}      \* dropped with its future: that panicked, or was cancelled

RxState == {"out", "load", "recv"}

\* Idle::new
Init ==
  /\ spawned = 0
  /\ queue = 0
  /\ track = [t \in Tasks |-> "new"]
  /\ rx = "out"
-----------------------------------------------------------------------------
\* Faults a change to this code could introduce; only mutation checks use them.
ReserveUncounted(t) ==
  /\ track[t] = "new"
  /\ track' = [track EXCEPT ![t] = "running"]
  /\ UNCHANGED <<spawned, queue, rx>>

CompleteSilently(t) ==
  /\ track[t] = "running"
  /\ spawned' = spawned - 1
  /\ track' = [track EXCEPT ![t] = IF spawned = 2 THEN "notify" ELSE "done"]
  /\ UNCHANGED <<queue, rx>>

RecvAndReturn ==
  /\ rx = "recv"
  /\ queue > 0
  /\ queue' = queue - 1
  /\ rx' = "out"
  /\ UNCHANGED <<spawned, track>>
-----------------------------------------------------------------------------
\* Idle::reserve
Reserve(t) ==
  /\ track[t] = "new"
  /\ spawned' = spawned + 1
  /\ track' = [track EXCEPT ![t] = "running"]
  /\ UNCHANGED <<queue, rx>>

\* Track::with, the future is ready: fetch_sub and the test of what it returned.
Complete(t) ==
  /\ track[t] = "running"
  /\ spawned' = spawned - 1
  /\ track' = [track EXCEPT ![t] = IF spawned = 1 THEN "notify" ELSE "done"]
  /\ UNCHANGED <<queue, rx>>

\* Track::with, the notification.
Send(t) ==
  /\ track[t] = "notify"
  /\ queue' = queue + 1
  /\ track' = [track EXCEPT ![t] = "done"]
  /\ UNCHANGED <<spawned, rx>>

\* The future panics under f.await, or the task is dropped before it is ready.
\* Track has no Drop, so the counter keeps the reservation.
Lose(t) ==
  /\ track[t] = "running"
  /\ track' = [track EXCEPT ![t] = "lost"]
  /\ UNCHANGED <<spawned, queue, rx>>

\* Rx::idle is called; the runtimes may call it again after it returned.
CallIdle ==
  /\ rx = "out"
  /\ rx' = "load"
  /\ UNCHANGED <<spawned, queue, track>>

\* The loop test of Rx::idle.
Load ==
  /\ rx = "load"
  /\ rx' = IF spawned = 0 THEN "out" ELSE "recv"
  /\ UNCHANGED <<spawned, queue, track>>

\* recv().await yields a message, whichever transition to zero sent it.
Recv ==
  /\ rx = "recv"
  /\ queue > 0
  /\ queue' = queue - 1
  /\ rx' = "load"
  /\ UNCHANGED <<spawned, track>>

Next ==
  \/ \E t \in Tasks : Reserve(t) \/ Complete(t) \/ Send(t) \/ Lose(t)
  \/ CallIdle \/ Load \/ Recv

Spec == Init /\ [][Next]_vars

\* The waiting thread is woken and scheduled, and the steps of with() after
\* the future is ready are straight-line code of a running worker.
Scheduling == WF_vars(Load) /\ WF_vars(Recv) /\ \A t \in Tasks : WF_vars(Send(t))

FairSpec == Spec /\ Scheduling

\* In addition, every future that was spawned ends, well or badly.
TasksEnd == \A t \in Tasks : WF_vars(Complete(t) \/ Lose(t))

EndingSpec == FairSpec /\ TasksEnd
-----------------------------------------------------------------------------
Counted == {t \in Tasks : track[t] \in {"running", "lost"}}

TypeOK ==
  /\ spawned \in Nat
  /\ queue \in Nat
  /\ track \in [Tasks -> TrackState]
  /\ rx \in RxState

\* The counter is the number of reservations not given back: never one too
\* many after a completion, never one too few after a reservation, whatever
\* the interleaving (fetch_add and fetch_sub of idle.rs).
CounterExact == spawned = Cardinality(Counted)

\* The receiver never sleeps on an idle runtime: when it is blocked in recv()
\* and the counter is zero, a notification is in the channel or a completed
\* Track is just about to send one.
NoLostWakeup ==
  rx = "recv" /\ spawned = 0 =>
    queue > 0 \/ \E t \in Tasks : track[t] = "notify"

\* idle() returns only in a step at which no reservation is outstanding; in
\* particular a notification left over from an earlier moment of idleness
\* never lets it through while a task runs (the early return that release
\* 0.1.1 fixed).
ReturnsOnlyIdle == [][rx # "out" /\ rx' = "out" => Counted = {}]_vars

\* However many times the runtime waits, its wait ends unless a task was lost.
HangsOnlyOnLostTask ==
  TasksEnd => (rx # "out" ~> rx = "out" \/ \E t \in Tasks : track[t] = "lost")

\* threadpool/mod.rs, "The runtime enters an idle state once ... all tasks that
\* were spawned have completed": once no future is left to poll, a wait ends.
IdleOnceNoTaskLeft ==
  (rx # "out" /\ \A t \in Tasks : track[t] # "running") ~>
    (rx = "out" \/ \E t \in Tasks : track[t] = "running")
-----------------------------------------------------------------------------
Abs == INSTANCE WaitIdle WITH live <- Counted, waiting <- rx # "out"

\* The counter and the channel implement the abstract wait for idleness.
RefinesWaitIdle == Abs!Safety

\* With the threads scheduled fairly, so does its promise to let the waiter go.
ImplementsWaitIdle == Abs!Spec
=============================================================================
