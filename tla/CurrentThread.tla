---------------------------- MODULE CurrentThread ----------------------------
(***************************************************************************)
(* The current-thread runtime, src/runtime/current_thread: spawning onto   *)
(* the LocalSet and onto the tokio 0.2 basic scheduler, block_on, run and  *)
(* enter, the TaskExecutor that finds the runtime in the thread-local      *)
(* CURRENT_IDLE, and a Handle on another thread.  Idleness is module Idle, *)
(* as in ThreadPool.                                                       *)
(*                                                                         *)
(* One thread, Main, runs everything: tasks are polled only while it is in *)
(* block_on or run.  The basic scheduler and the LocalSet of tokio 0.2 are *)
(* external: they poll what is queued in some order and contain panics of  *)
(* tasks.  LocalSet::block_on makes the LocalSet known to spawn_local while *)
(* it polls the future of block_on and the local tasks (run_until of the   *)
(* later 0.2 releases); anywhere else spawn_local panics.                  *)
(***************************************************************************)
EXTENDS Naturals, FiniteSets

CONSTANTS
  Tasks,   \* the futures given to the runtime
  Main,    \* the thread that owns the Runtime
  Ext,     \* another thread, with a Handle
  None

ASSUME TasksAssumption == IsFiniteSet(Tasks)

ASSUME DistinctActors ==
  /\ {Main, Ext, None} \intersect Tasks = {}
  /\ Main # Ext /\ Main # None /\ Ext # None

VARIABLES
  spawned, queue, track, rx,   \* module Idle
  call,      \* the call of the Runtime that Main is in, or "out"
  entered,   \* Main has a tokio 0.1 Enter guard
  current,   \* Main's CURRENT_IDLE is set
  alive,     \* the Runtime has not been dropped
  task,      \* state of each task
  home,      \* where a task is polled: by block_on, the LocalSet, the scheduler
  by,        \* who spawned it
  on         \* the task Main polls

I == INSTANCE Idle

idleVars == <<spawned, queue, track, rx>>
callVars == <<call, entered, current>>
taskVars == <<task, home, by, on>>
vars == <<idleVars, callVars, alive, taskVars>>

Spawners == Tasks \union {Main, Ext}
Homes == {"root", "local", "basic"}

\* Builder::build and Runtime::new2
Init ==
  /\ I!Init
  /\ call = "out" /\ entered = FALSE /\ current = FALSE
  /\ alive = TRUE
  /\ task = [t \in Tasks |-> "new"]
  /\ home = [t \in Tasks |-> None]
  /\ by = [t \in Tasks |-> None]
  /\ on = None

\* Between reserve() and the spawn of tokio 0.2 the caller is busy.
Free(p) == \A t \in Tasks : ~(task[t] = "reserved" /\ by[t] = p)

AtRest == call = "out" /\ alive /\ Free(Main)
-----------------------------------------------------------------------------
(* Entering and leaving the runtime. *)

\* executor_01::enter().unwrap(), the defaults, and with_idle.
Enter(c) ==
  /\ AtRest
  /\ ~entered /\ ~current
  /\ call' = c /\ entered' = TRUE /\ current' = TRUE

\* The guards go in reverse order, after a panic as after a return.
Leave == call' = "out" /\ entered' = FALSE /\ current' = FALSE

\* Runtime::enter, with a closure that may spawn.
CallEnter ==
  /\ Enter("enter")
  /\ UNCHANGED <<idleVars, alive, taskVars>>

\* The closure returns, or panics.
EnterReturns ==
  /\ call = "enter" /\ Free(Main)
  /\ Leave
  /\ UNCHANGED <<idleVars, alive, taskVars>>

\* block_on_std: the future is counted and polled by Main in the LocalSet.
BlockOn(t) ==
  /\ task[t] = "new"
  /\ Enter("block_on")
  /\ I!Reserve(t)
  /\ task' = [task EXCEPT ![t] = "polled"]
  /\ home' = [home EXCEPT ![t] = "root"]
  /\ by' = [by EXCEPT ![t] = Main]
  /\ on' = t
  /\ UNCHANGED alive

\* run: Rx::idle in the place of a future.
CallRun ==
  /\ Enter("run")
  /\ I!CallIdle
  /\ UNCHANGED <<alive, taskVars>>

\* Rx::idle is polled between two polls of tasks; when it is through, run is.
IdleLoad ==
  /\ call = "run" /\ on = None
  /\ I!Load
  /\ IF rx' = "out" THEN Leave ELSE UNCHANGED callVars
  /\ UNCHANGED <<alive, taskVars>>

RecvWithoutLoop ==              \* fault: idle() tests the counter only once
  /\ call = "run" /\ on = None
  /\ rx = "recv" /\ queue > 0
  /\ queue' = queue - 1 /\ rx' = "out"
  /\ Leave
  /\ UNCHANGED <<spawned, track, alive, taskVars>>

IdleRecv ==
  /\ call = "run" /\ on = None
  /\ I!Recv
  /\ UNCHANGED <<callVars, alive, taskVars>>
-----------------------------------------------------------------------------
(* Spawning. *)

\* A task while it is polled, the closure of enter, the owner between two
\* calls, and the other thread at any time, but that only through its Handle.
MaySpawn(p, h) ==
  /\ Free(p)
  /\ \/ p = Ext /\ h = "basic"
     \/ p = Main /\ alive /\ call \in {"out", "enter"}
     \/ p \in Tasks /\ on = p /\ task[p] = "polled" /\ track[p] # "notify"
  /\ h = "local" /\ call # "out" => current

\* Where tokio_02::task::spawn_local finds a LocalSet.  Runtime::spawn does not
\* need to look for it.
InLocalSet(p) ==
  IF p \in Tasks THEN home[p] \in {"root", "local"} ELSE p = Main /\ call = "out"

ReserveForgotten(p, t, h) ==    \* fault: a Track without a reservation
  /\ MaySpawn(p, h)
  /\ task[t] = "new"
  /\ track' = [track EXCEPT ![t] = "running"]
  /\ task' = [task EXCEPT ![t] = "reserved"]
  /\ home' = [home EXCEPT ![t] = h]
  /\ by' = [by EXCEPT ![t] = p]
  /\ UNCHANGED <<spawned, queue, rx, callVars, alive, on>>

\* The reservation of Runtime::spawn_std and TaskExecutor::spawn_local (local),
\* of Handle::spawn_std and the default executor CompatSpawner (basic) ...
Reserve(p, t, h) ==
  /\ MaySpawn(p, h)
  /\ task[t] = "new"
  /\ I!Reserve(t)
  /\ task' = [task EXCEPT ![t] = "reserved"]
  /\ home' = [home EXCEPT ![t] = h]
  /\ by' = [by EXCEPT ![t] = p]
  /\ UNCHANGED <<callVars, alive, on>>

\* A counted task goes before its future is ready: its Track goes with it.
LoseTrack(t) == IF track[t] = "running" THEN I!Lose(t) ELSE UNCHANGED idleVars

\* ... and then the spawn; the scheduler of a dropped Runtime drops the task.
Submit(t) ==
  /\ task[t] = "reserved"
  /\ home[t] = "local" => InLocalSet(by[t])
  /\ \/ alive /\ task' = [task EXCEPT ![t] = "queued"] /\ UNCHANGED idleVars
     \/ ~alive /\ task' = [task EXCEPT ![t] = "cancelled"] /\ LoseTrack(t)
  /\ UNCHANGED <<callVars, alive, home, by, on>>

\* spawn_local panics: the task and its Track are dropped, and the panic is on
\* its way through the spawner p, a task or the closure of enter.
Refused(p, t) ==
  \/ /\ p = Main
     /\ task' = [task EXCEPT ![t] = "refused"]
     /\ Leave
  \/ /\ p \in Tasks
     /\ task' = [task EXCEPT ![t] = "refused", ![p] = "unwinding"]
     /\ UNCHANGED callVars

Refuse(t) ==
  /\ task[t] = "reserved" /\ home[t] = "local" /\ ~InLocalSet(by[t])
  /\ I!Lose(t)
  /\ Refused(by[t], t)
  /\ UNCHANGED <<alive, home, by, on>>

\* spawn_handle of the TaskExecutor (local) and of Handle, tokio_02::spawn
\* (basic): not counted.
SpawnHandle(p, t, h) ==
  /\ MaySpawn(p, h)
  /\ p = Main /\ h = "local" => call = "enter"
  /\ task[t] = "new"
  /\ home' = [home EXCEPT ![t] = h]
  /\ by' = [by EXCEPT ![t] = p]
  /\ \/ /\ h = "basic" \/ InLocalSet(p)
        /\ task' = [task EXCEPT ![t] = IF alive THEN "queued" ELSE "cancelled"]
        /\ UNCHANGED callVars
     \/ /\ h = "local" /\ ~InLocalSet(p)
        /\ Refused(p, t)
  /\ UNCHANGED <<idleVars, alive, on>>
-----------------------------------------------------------------------------
(* Running. *)

\* External: a task that is queued is polled, inside block_on or run only.
Poll(t) ==
  /\ call \in {"block_on", "run"} /\ on = None
  /\ task[t] = "queued"
  /\ task' = [task EXCEPT ![t] = "polled"]
  /\ on' = t
  /\ UNCHANGED <<idleVars, callVars, alive, home, by>>

\* The poll of t ends with t in state s.
Leaves(t, s) ==
  /\ on = t /\ Free(t)
  /\ task' = [task EXCEPT ![t] = s]
  /\ on' = None
  /\ UNCHANGED <<alive, home, by>>

\* The future of block_on is over: so is block_on.
EndOfCall(t) == IF home[t] = "root" THEN Leave ELSE UNCHANGED callVars

\* External: the future is not ready; it is woken later.
Pending(t) ==
  /\ task[t] = "polled" /\ track[t] # "notify"
  /\ Leaves(t, "queued")
  /\ UNCHANGED <<idleVars, callVars>>

\* The future is ready and was not counted.
Finish(t) ==
  /\ task[t] = "polled" /\ track[t] = "new"
  /\ Leaves(t, "done")
  /\ UNCHANGED <<idleVars, callVars>>

GiveBackDropsLocal(t) ==        \* fault: each block_on has a LocalSet of its own
  LET gone == {u \in Tasks : home[t] = "root" /\ home[u] = "local" /\ task[u] = "queued"}
  IN  /\ task[t] = "polled" /\ track[t] = "running" /\ spawned # 1
      /\ on = t /\ Free(t)
      /\ task' = [u \in Tasks |-> IF u = t THEN "done"
                    ELSE IF u \in gone THEN "cancelled" ELSE task[u]]
      /\ track' = [u \in Tasks |-> IF u = t THEN "done"
                     ELSE IF u \in gone /\ track[u] = "running" THEN "lost" ELSE track[u]]
      /\ spawned' = spawned - 1
      /\ on' = None
      /\ EndOfCall(t)
      /\ UNCHANGED <<queue, rx, alive, home, by>>

\* The future is ready, and with() gives the reservation back, not the last one.
GiveBack(t) ==
  /\ task[t] = "polled" /\ spawned # 1
  /\ I!Complete(t)
  /\ Leaves(t, "done")
  /\ EndOfCall(t)

\* The future is ready, and with() gives the last reservation back ...
GiveLastBack(t) ==
  /\ on = t /\ Free(t)
  /\ task[t] = "polled" /\ spawned = 1
  /\ I!Complete(t)
  /\ UNCHANGED <<callVars, alive, taskVars>>

NotifyDropped(t) ==             \* fault: the notification is not sent
  /\ track[t] = "notify"
  /\ track' = [track EXCEPT ![t] = "done"]
  /\ Leaves(t, "done")
  /\ EndOfCall(t)
  /\ UNCHANGED <<spawned, queue, rx>>

\* ... and notifies the receiver.
Notify(t) ==
  /\ I!Send(t)
  /\ Leaves(t, "done")
  /\ EndOfCall(t)

EnterAgainReserved(t) ==        \* fault: block_on reserves before it enters
  /\ on = t /\ Free(t)
  /\ task[t] = "polled" /\ track[t] # "notify"
  /\ \E u \in Tasks : task[u] = "new" /\ track' = [track EXCEPT ![u] = "lost"]
  /\ spawned' = spawned + 1
  /\ task' = [task EXCEPT ![t] = "unwinding"]
  /\ UNCHANGED <<queue, rx, callVars, alive, home, by, on>>

\* A task enters a runtime of this thread again: enter().unwrap() panics, before
\* anything else was done.
EnterAgain(t) ==
  /\ on = t /\ Free(t)
  /\ task[t] = "polled" /\ track[t] # "notify"
  /\ entered
  /\ task' = [task EXCEPT ![t] = "unwinding"]
  /\ UNCHANGED <<idleVars, callVars, alive, home, by, on>>

\* The panic of a spawned task is contained by tokio 0.2; that of the future of
\* block_on leaves block_on.
Panic(t) ==
  /\ task[t] \in {"polled", "unwinding"} /\ track[t] # "notify"
  /\ LoseTrack(t)
  /\ Leaves(t, "panicked")
  /\ EndOfCall(t)

\* The Runtime is dropped: first the scheduler, then the LocalSet.
DropRuntime ==
  /\ AtRest
  /\ alive' = FALSE
  /\ UNCHANGED <<idleVars, callVars, taskVars>>

Cancel(t) ==
  /\ ~alive
  /\ task[t] = "queued"
  /\ home[t] = "local" => \A u \in Tasks : ~(task[u] = "queued" /\ home[u] = "basic")
  /\ task' = [task EXCEPT ![t] = "cancelled"]
  /\ LoseTrack(t)
  /\ UNCHANGED <<callVars, alive, home, by, on>>
-----------------------------------------------------------------------------
Calling ==
  CallEnter \/ EnterReturns \/ CallRun \/ IdleLoad \/ IdleRecv \/ DropRuntime
Spawning(t) ==
  \/ \E p \in Spawners, h \in {"local", "basic"} :
       Reserve(p, t, h) \/ SpawnHandle(p, t, h)
  \/ BlockOn(t) \/ Submit(t) \/ Refuse(t)
Ending(t) == Finish(t) \/ GiveBack(t) \/ GiveLastBack(t) \/ Panic(t)
Running(t) ==
  Poll(t) \/ Pending(t) \/ Ending(t) \/ Notify(t) \/ EnterAgain(t) \/ Cancel(t)

Next == Calling \/ \E t \in Tasks : Spawning(t) \/ Running(t)

Spec == Init /\ [][Next]_vars

\* Inside run, the scheduler comes round to idle() and to every queued task, and
\* each future ends if it goes on being polled.  Which calls the owner makes,
\* and who spawns, is up to the program.
Fairness ==
  /\ SF_vars(IdleLoad) /\ SF_vars(IdleRecv)
  /\ \A t \in Tasks :
       /\ WF_vars(Submit(t)) /\ WF_vars(Refuse(t)) /\ WF_vars(Notify(t))
       /\ SF_vars(Poll(t)) /\ SF_vars(Ending(t))

FairSpec == Spec /\ Fairness
-----------------------------------------------------------------------------
TypeOK ==
  /\ I!TypeOK
  /\ call \in {"out", "enter", "block_on", "run"}
  /\ entered \in BOOLEAN /\ current \in BOOLEAN /\ alive \in BOOLEAN
  /\ task \in [Tasks -> {"new", "reserved", "queued", "polled", "unwinding",
                         "done", "panicked", "cancelled", "refused"}]
  /\ home \in [Tasks -> Homes \union {None}]
  /\ by \in [Tasks -> Spawners \union {None}]
  /\ on \in Tasks \union {None}

\* run returns only when every counted task of the runtime is over, those left
\* by earlier calls of block_on and enter and those of other threads included.
RunFinishesTasks ==
  [][call = "run" /\ call' = "out" =>
       \A t \in Tasks : track[t] \in {"new", "done"}]_vars

\* A task is never lost silently: as long as the Runtime lives, an outstanding
\* reservation has its future in a queue, being polled or on its way there, or
\* the program saw a panic.
ReservationsHaveTasks ==
  alive => \A t \in Tasks :
    /\ track[t] = "running" => task[t] \in {"reserved", "queued", "polled", "unwinding"}
    /\ track[t] = "lost" => task[t] \in {"panicked", "refused"}

\* run sleeps in recv() only while the runtime has something to do for a counted
\* task, which Main can poll from within run, or while a spawner is about to
\* submit one, unless one was lost.
WaitsAreAnswered ==
  call = "run" =>
    /\ rx # "out"
    /\ rx = "recv" /\ queue = 0 =>
         \E t \in Tasks :
           \/ track[t] = "lost"
           \/ /\ track[t] \in {"running", "notify"} /\ home[t] # "root"
              /\ \/ task[t] = "queued" \/ on = t
                 \/ task[t] = "reserved" /\ by[t] \in {Ext, on}

\* The state of CompatRuntime in which the runtime is.
Begun == {t \in Tasks : task[t] # "new"}
Given == {t \in Tasks : track[t] # "new"}
Ran == {t \in Tasks : task[t] = "done" \/ track[t] \in {"notify", "done"}}
Failed == {t \in Tasks : task[t] \in {"panicked", "refused"}}
Dropped == {t \in Tasks : task[t] = "cancelled"}
Phase == IF ~alive THEN "over" ELSE IF call = "run" THEN "waiting" ELSE "open"

Promise == INSTANCE CompatRuntime WITH
  begun <- Begun, counted <- Given, ran <- Ran, failed <- Failed,
  cancelled <- Dropped, phase <- Phase

\* In every sequence of calls the runtime does to tasks only what CompatRuntime
\* allows: run waits until each counted task has run, and the end of a block_on
\* leaves what is not over pending (runtime.rs, block_on: "any uncompleted futures
\* remain pending in the Runtime instance"), until the Runtime is dropped.
KeepsPromise == Promise!Spec

\* run comes to an end if the futures do, unless a counted task was lost.
RunEnds == call = "run" ~> (call = "out" \/ \E t \in Tasks : track[t] = "lost")

\* task_executor.rs: "The user of TaskExecutor must ensure that when a future is
\* submitted, that it is done within the context of a call to run": no future
\* that spawn_local reserved for is refused there.
AcceptsWithinRun ==
  [][\A t \in Tasks :
       task'[t] = "refused" /\ task[t] = "reserved" => call # "run"]_vars
=============================================================================
