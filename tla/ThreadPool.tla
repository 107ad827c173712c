----------------------------- MODULE ThreadPool -----------------------------
(***************************************************************************)
(* The thread pool runtime, src/runtime/threadpool: Builder::build, the    *)
(* on_thread_start and on_thread_stop callbacks of the pool's threads,     *)
(* spawning with and without a JoinHandle, block_on, shutdown_on_idle,     *)
(* shutdown_now and Drop, with the background thread of compat.rs that     *)
(* runs the tokio 0.1 reactor and timer.  Idleness is module Idle, whose   *)
(* variables and operations this module shares.                            *)
(*                                                                         *)
(* The tokio 0.2 scheduler is external: it starts threads while it is      *)
(* open, polls queued tasks, catches their panics, and when it is dropped  *)
(* cancels what is queued and waits for its threads.                       *)
(***************************************************************************)
EXTENDS Naturals, FiniteSets

CONSTANTS
  Tasks,     \* the futures given to the runtime
  Threads,   \* threads the tokio 0.2 pool may start
  Owner,     \* the thread that builds, uses and drops the Runtime
  Ext,       \* another thread, with a clone of the TaskExecutor
  None

ASSUME TasksAssumption == IsFiniteSet(Tasks)

ASSUME DistinctActors ==
  /\ Tasks \intersect Threads = {}
  /\ {Owner, Ext, None} \intersect (Tasks \union Threads) = {}
  /\ Owner # Ext /\ Owner # None /\ Ext # None

VARIABLES
  spawned, queue, track, rx,   \* module Idle
  owner,    \* how far the Runtime is in its life
  how,      \* which call ended it
  strong,   \* who holds a strong reference to compat_sender
  sender,   \* does compat_sender hold a spawner?
  thread,   \* state of each pool thread
  guards,   \* threads whose COMPAT_GUARDS is set
  closed,   \* has the tokio 0.2 runtime been told to shut down?
  bg,       \* state of the background thread
  task,     \* state of each task
  by,       \* who spawned it
  on        \* the task a thread polls

I == INSTANCE Idle

idleVars == <<spawned, queue, track, rx>>
lifeVars == <<owner, how, bg, closed>>
startVars == <<strong, sender, thread, guards>>
taskVars == <<task, by, on>>
vars == <<idleVars, lifeVars, startVars, taskVars>>

Pollers == Threads \union {Owner}
Spawners == Tasks \union {Owner, Ext}

Init ==
  /\ I!Init
  /\ owner = "none" /\ how = "none"
  /\ strong = {} /\ sender = FALSE /\ guards = {}
  /\ thread = [w \in Threads |-> "off"]
  /\ closed = FALSE /\ bg = "off"
  /\ task = [t \in Tasks |-> "new"]
  /\ by = [t \in Tasks |-> None]
  /\ on = [x \in Pollers |-> None]

\* Between reserve() and the spawn of the inner runtime the caller is busy.
Free(p) == \A t \in Tasks : ~(task[t] = "reserved" /\ by[t] = p)

\* The owner is back in its own code, the Runtime at its disposal.
AtRest == owner = "ready" /\ on[Owner] = None /\ Free(Owner)

HasPool == owner \in {"launched", "ready", "idle", "returned"}
WriteLocked == owner \in {"locked", "launched"}
-----------------------------------------------------------------------------
(* Building, threadpool/builder.rs. *)

\* Background::spawn, then compat_sender and its write lock.
StartBackground ==
  /\ owner = "none"
  /\ bg' = "up"
  /\ strong' = {Owner}
  /\ owner' = "locked"
  /\ UNCHANGED <<idleVars, how, closed, sender, thread, guards, taskVars>>

\* build()? of the tokio 0.2 runtime; the closure has only a weak reference.
BuildPool ==
  /\ owner = "locked"
  /\ owner' = "launched"
  /\ UNCHANGED <<idleVars, how, closed, bg, startVars, taskVars>>

\* build()? fails: the locals go, compat_sender before the background thread.
BuildFails ==
  /\ owner = "locked"
  /\ strong' = {}
  /\ bg' = "stopping"
  /\ owner' = "failed"
  /\ UNCHANGED <<idleVars, how, closed, sender, thread, guards, taskVars>>

\* compat_sender is filled and unlocked, and the Runtime returned.
Publish ==
  /\ owner = "launched"
  /\ sender' = TRUE
  /\ owner' = "ready"
  /\ UNCHANGED <<idleVars, how, closed, bg, strong, thread, guards, taskVars>>
-----------------------------------------------------------------------------
(* Threads of the pool. *)

\* External: the scheduler starts a worker.
Launch(w) ==
  /\ HasPool
  /\ thread[w] = "off"
  /\ thread' = [thread EXCEPT ![w] = "starting"]
  /\ UNCHANGED <<idleVars, lifeVars, strong, sender, guards, taskVars>>

\* on_thread_start: upgrade the weak reference, or panic.
Upgrade(w) ==
  /\ thread[w] = "starting"
  /\ \/ /\ strong # {}
        /\ strong' = strong \union {w}
        /\ thread' = [thread EXCEPT ![w] = "upgraded"]
     \/ /\ strong = {}
        /\ thread' = [thread EXCEPT ![w] = "panicked"]
        /\ UNCHANGED strong
  /\ UNCHANGED <<idleVars, lifeVars, sender, guards, taskVars>>

\* on_thread_start: read the spawner once the writer is gone, or panic; set the
\* tokio 0.1 defaults of this thread; let go of the strong reference.
SetGuards(w) ==
  /\ thread[w] = "upgraded"
  /\ ~WriteLocked
  /\ strong' = strong \ {w}
  /\ \/ /\ sender
        /\ guards' = guards \union {w}
        /\ thread' = [thread EXCEPT ![w] = "running"]
     \/ /\ ~sender
        /\ thread' = [thread EXCEPT ![w] = "panicked"]
        /\ UNCHANGED guards
  /\ UNCHANGED <<idleVars, lifeVars, sender, taskVars>>

StopGuarded(w) ==               \* fault: no unset_guards in on_thread_stop
  /\ thread[w] = "running"
  /\ closed
  /\ on[w] = None
  /\ thread' = [thread EXCEPT ![w] = "exited"]
  /\ UNCHANGED <<idleVars, lifeVars, strong, sender, guards, taskVars>>

\* on_thread_stop: unset_guards drops the handle the guards hold.
Stop(w) ==
  /\ thread[w] = "running"
  /\ closed
  /\ on[w] = None
  /\ guards' = guards \ {w}
  /\ thread' = [thread EXCEPT ![w] = "exited"]
  /\ UNCHANGED <<idleVars, lifeVars, strong, sender, taskVars>>
-----------------------------------------------------------------------------
(* Spawning: by the owner through the Runtime, by another thread through a *)
(* TaskExecutor, by a task through the tokio 0.1 default executor.         *)

MaySpawn(p) ==
  /\ Free(p)
  /\ \/ p = Owner /\ AtRest
     \/ p = Ext /\ sender
     \/ p \in Tasks /\ task[p] = "polled" /\ track[p] # "notify"

ReserveForgotten(p, t) ==       \* fault: a Track without a reservation
  /\ MaySpawn(p)
  /\ task[t] = "new"
  /\ track[t] = "new"
  /\ track' = [track EXCEPT ![t] = "running"]
  /\ task' = [task EXCEPT ![t] = "reserved"]
  /\ by' = [by EXCEPT ![t] = p]
  /\ UNCHANGED <<spawned, queue, rx, lifeVars, startVars, on>>

\* spawn, spawn_std, Executor::spawn: the reservation comes first ...
Reserve(p, t) ==
  /\ MaySpawn(p)
  /\ task[t] = "new"
  /\ I!Reserve(t)
  /\ task' = [task EXCEPT ![t] = "reserved"]
  /\ by' = [by EXCEPT ![t] = p]
  /\ UNCHANGED <<lifeVars, startVars, on>>

\* A counted task goes before its future is ready: its Track goes with it.
LoseTrack(t) == IF track[t] = "running" THEN I!Lose(t) ELSE UNCHANGED idleVars

\* ... and then the spawn; a closed scheduler drops what it is given.
Submit(t) ==
  /\ task[t] = "reserved"
  /\ \/ ~closed /\ task' = [task EXCEPT ![t] = "queued"] /\ UNCHANGED idleVars
     \/ closed /\ task' = [task EXCEPT ![t] = "cancelled"] /\ LoseTrack(t)
  /\ UNCHANGED <<lifeVars, startVars, by, on>>

\* spawn_handle, spawn_handle_std and the spawn of tokio 0.2: not counted.
SpawnHandle(p, t) ==
  /\ MaySpawn(p)
  /\ task[t] = "new"
  /\ task' = [task EXCEPT ![t] = IF closed THEN "cancelled" ELSE "queued"]
  /\ by' = [by EXCEPT ![t] = p]
  /\ UNCHANGED <<idleVars, lifeVars, startVars, on>>

\* block_on_std: counted, and polled by the owner itself.
BlockOn(t) ==
  /\ AtRest
  /\ task[t] = "new"
  /\ I!Reserve(t)
  /\ task' = [task EXCEPT ![t] = "polled"]
  /\ by' = [by EXCEPT ![t] = Owner]
  /\ on' = [on EXCEPT ![Owner] = t]
  /\ UNCHANGED <<lifeVars, startVars>>
-----------------------------------------------------------------------------
(* Running. *)

\* External: a worker takes a queued task.
Poll(w, t) ==
  /\ thread[w] = "running"
  /\ on[w] = None
  /\ task[t] = "queued"
  /\ task' = [task EXCEPT ![t] = "polled"]
  /\ on' = [on EXCEPT ![w] = t]
  /\ UNCHANGED <<idleVars, lifeVars, startVars, by>>

\* The poll of t by x ends with t in state s.
Leaves(x, t, s) ==
  /\ on[x] = t
  /\ task[t] = "polled"
  /\ Free(t)
  /\ task' = [task EXCEPT ![t] = s]
  /\ on' = [on EXCEPT ![x] = None]
  /\ UNCHANGED <<lifeVars, startVars, by>>

\* External: the future is not ready; it is woken later.
Pending(w, t) ==
  /\ track[t] # "notify"
  /\ Leaves(w, t, "queued")
  /\ UNCHANGED idleVars

\* The future is ready.  with() gives the reservation back, and unless it was
\* the last one the task is over.
Ready(x, t) ==
  \/ /\ track[t] = "new"
     /\ Leaves(x, t, "done")
     /\ UNCHANGED idleVars
  \/ /\ track[t] = "running" /\ spawned # 1
     /\ I!Complete(t)
     /\ Leaves(x, t, "done")
  \/ /\ track[t] = "running" /\ spawned = 1
     /\ on[x] = t /\ Free(t)
     /\ I!Complete(t)
     /\ UNCHANGED <<lifeVars, startVars, taskVars>>

NotifyDropped(x, t) ==          \* fault: the notification is not sent
  /\ track[t] = "notify"
  /\ track' = [track EXCEPT ![t] = "done"]
  /\ Leaves(x, t, "done")
  /\ UNCHANGED <<spawned, queue, rx>>

\* The last one notifies the receiver before it is over.
Notify(x, t) ==
  /\ I!Send(t)
  /\ Leaves(x, t, "done")

\* The future panics: a worker contains it, block_on passes it to the caller,
\* who keeps the Runtime.
Panic(x, t) ==
  /\ track[t] # "notify"
  /\ LoseTrack(t)
  /\ Leaves(x, t, "panicked")

\* External: a closed scheduler drops the tasks that wait in it.
Cancel(t) ==
  /\ closed
  /\ task[t] = "queued"
  /\ task' = [task EXCEPT ![t] = "cancelled"]
  /\ LoseTrack(t)
  /\ UNCHANGED <<lifeVars, startVars, by, on>>
-----------------------------------------------------------------------------
(* The end of the Runtime, threadpool/mod.rs and Drop for Background. *)

ShutdownOnIdle ==
  /\ AtRest
  /\ I!CallIdle
  /\ owner' = "idle" /\ how' = "on_idle"
  /\ UNCHANGED <<bg, closed, startVars, taskVars>>

\* The loop of Rx::idle, run by block_on; leaving it is leaving block_on.
IdleLoad ==
  /\ owner = "idle"
  /\ I!Load
  /\ owner' = IF rx' = "out" THEN "returned" ELSE "idle"
  /\ UNCHANGED <<how, bg, closed, startVars, taskVars>>

RecvWithoutLoop ==              \* fault: idle() tests the counter only once
  /\ owner = "idle"
  /\ rx = "recv" /\ queue > 0
  /\ queue' = queue - 1 /\ rx' = "out"
  /\ owner' = "returned"
  /\ UNCHANGED <<spawned, track, how, bg, closed, startVars, taskVars>>

IdleRecv ==
  /\ owner = "idle"
  /\ I!Recv
  /\ UNCHANGED <<lifeVars, startVars, taskVars>>

ShutdownNowWhenIdle ==          \* fault: shutdown_now waits for the tasks
  /\ AtRest
  /\ I!CallIdle
  /\ owner' = "idle" /\ how' = "now"
  /\ UNCHANGED <<bg, closed, startVars, taskVars>>

\* shutdown_now, or the Runtime is dropped.
ShutdownNow ==
  /\ AtRest
  /\ owner' = "returned" /\ how' = "now"
  /\ UNCHANGED <<idleVars, bg, closed, startVars, taskVars>>

CloseFieldsFirst ==             \* fault: compat_sender goes before the pool
  /\ owner = "returned"
  /\ closed' = TRUE
  /\ strong' = strong \ {Owner}
  /\ owner' = "closing"
  /\ UNCHANGED <<idleVars, how, bg, sender, thread, guards, taskVars>>

CloseBackgroundFirst ==         \* fault: compat_bg goes before the pool
  /\ owner = "returned"
  /\ closed' = TRUE
  /\ bg' = "stopping"
  /\ owner' = "closing"
  /\ UNCHANGED <<idleVars, how, startVars, taskVars>>

\* The tokio 0.2 runtime is dropped first: it closes ...
Close ==
  /\ owner = "returned"
  /\ closed' = TRUE
  /\ owner' = "closing"
  /\ UNCHANGED <<idleVars, how, bg, startVars, taskVars>>

PoolGone ==
  /\ \A w \in Threads : thread[w] \in {"off", "exited", "panicked"}
  /\ \A t \in Tasks : task[t] # "queued"

JoinUnasked ==                  \* fault: join() without the shutdown message
  /\ owner = "closing"
  /\ PoolGone
  /\ owner' = "joining"
  /\ UNCHANGED <<idleVars, how, bg, closed, startVars, taskVars>>

\* ... waits for its threads, and then Drop for Background tells its thread.
StopBackground ==
  /\ owner = "closing"
  /\ PoolGone
  /\ bg' = "stopping"
  /\ owner' = "joining"
  /\ UNCHANGED <<idleVars, how, closed, startVars, taskVars>>

\* block_on(shutdown_rx) of the background thread returns.
BackgroundExits ==
  /\ bg = "stopping"
  /\ bg' = "exited"
  /\ UNCHANGED <<idleVars, owner, how, closed, startVars, taskVars>>

\* Drop for Background joins it; the other fields of the Runtime follow.
Join ==
  /\ owner \in {"joining", "failed"}
  /\ bg = "exited"
  /\ strong' = strong \ {Owner}
  /\ owner' = "gone"
  /\ UNCHANGED <<idleVars, how, bg, closed, sender, thread, guards, taskVars>>
-----------------------------------------------------------------------------
Building == StartBackground \/ BuildPool \/ BuildFails \/ Publish
ThreadStep(w) == Launch(w) \/ Upgrade(w) \/ SetGuards(w) \/ Stop(w)
Spawning(t) ==
  \/ \E p \in Spawners : Reserve(p, t) \/ SpawnHandle(p, t)
  \/ Submit(t) \/ BlockOn(t)
Running(t) ==
  \/ \E w \in Threads : Poll(w, t) \/ Pending(w, t)
  \/ \E x \in Pollers : Ready(x, t) \/ Notify(x, t) \/ Panic(x, t)
  \/ Cancel(t)
Ending ==
  \/ ShutdownOnIdle \/ IdleLoad \/ IdleRecv \/ ShutdownNow
  \/ Close \/ StopBackground \/ BackgroundExits \/ Join

Next ==
  \/ Building
  \/ \E w \in Threads : ThreadStep(w)
  \/ \E t \in Tasks : Spawning(t) \/ Running(t)
  \/ Ending

Spec == Init /\ [][Next]_vars

\* The pool starts its threads and polls what is queued, each poll by one of them
\* ends, one way or another, and a thread between two polls notices the shutdown.
\* A future may be pending for ever.  What the owner does with the Runtime, and
\* when, is up to the program.
Fairness ==
  /\ WF_vars(IdleLoad) /\ WF_vars(IdleRecv)
  /\ WF_vars(Close) /\ WF_vars(StopBackground)
  /\ WF_vars(BackgroundExits) /\ WF_vars(Join)
  /\ \A w \in Threads :
       /\ WF_vars(Launch(w)) /\ WF_vars(Upgrade(w)) /\ WF_vars(SetGuards(w))
       /\ SF_vars(Stop(w))
  /\ \A t \in Tasks :
       /\ WF_vars(Submit(t)) /\ WF_vars(Cancel(t))
       /\ SF_vars(\E w \in Threads : Poll(w, t))
       /\ WF_vars(\E w \in Threads : Pending(w, t) \/ Ready(w, t) \/ Panic(w, t))
       /\ WF_vars(\E x \in Pollers : Notify(x, t))

FairSpec == Spec /\ Fairness

\* On the program: each future ends if it goes on being polled.
FuturesEnd ==
  \A t \in Tasks : SF_vars(\E x \in Pollers : Ready(x, t) \/ Panic(x, t))
-----------------------------------------------------------------------------
TypeOK ==
  /\ I!TypeOK
  /\ owner \in {"none", "locked", "failed", "launched", "ready", "idle",
                "returned", "closing", "joining", "gone"}
  /\ how \in {"none", "on_idle", "now"}
  /\ strong \subseteq Threads \union {Owner}
  /\ sender \in BOOLEAN /\ closed \in BOOLEAN
  /\ thread \in [Threads -> {"off", "starting", "upgraded", "running",
                             "exited", "panicked"}]
  /\ guards \subseteq Threads
  /\ bg \in {"off", "up", "stopping", "exited"}
  /\ task \in [Tasks -> {"new", "reserved", "queued", "polled", "done",
                         "panicked", "cancelled"}]
  /\ by \in [Tasks -> Spawners \union {None}]
  /\ on \in [Pollers -> Tasks \union {None}]

\* No pool thread meets a dropped or an empty compat_sender, however late it
\* starts: the two expect() of on_thread_start never fire.
ThreadsStart == \A w \in Threads : thread[w] # "panicked"

\* Whoever polls a task has the tokio 0.1 timer and reactor behind it, to the
\* very end of a shutdown, and a worker has the 0.1 defaults set.
ServicesOutliveTasks ==
  \A x \in Pollers :
    on[x] # None => bg = "up" /\ (x \in Threads => x \in guards)

\* Once the Runtime is gone no thread of the pool is left, none has a handle in
\* its COMPAT_GUARDS or the reference that on_thread_start upgraded, and the
\* background thread is over.  (What the closure itself holds is in Handles.)
NothingLeft ==
  owner = "gone" =>
    /\ strong = {} /\ guards = {}
    /\ bg = "exited"
    /\ \A w \in Threads : thread[w] \in {"off", "exited"}

\* t and all its ancestors were spawned without a JoinHandle, the first of them
\* by the owner.
Rooted(t) ==
  \E S \in SUBSET Tasks :
    /\ t \in S
    /\ \A u \in S : track[u] # "new" /\ by[u] \in S \union {Owner}

\* shutdown_on_idle cancels no such task: it waits for what the owner spawned
\* and for whatever that spawned in turn.
OwnTasksFinish ==
  how = "on_idle" => \A t \in Tasks : Rooted(t) => task[t] # "cancelled"

\* The wait of shutdown_on_idle ends with every counted task over, but for the
\* notification of the last one.
WaitsForCounted ==
  [][owner = "idle" /\ owner' # "idle" =>
       \A t \in Tasks : task[t] \in {"reserved", "queued", "polled"} =>
         track[t] \in {"new", "notify"}]_vars

\* Someone is at work on t: the spawner that is about to submit it, a scheduler
\* that still polls, or a worker with its tokio 0.1 defaults set.
UnderWay(t) ==
  \/ task[t] = "reserved" /\ (by[t] = Ext \/ \E w \in Threads : on[w] = by[t])
  \/ task[t] = "queued" /\ ~closed
  \/ \E w \in guards : on[w] = t

\* Nobody waits for what will not come.  shutdown_on_idle sleeps in recv() only
\* while a counted task is under way, unless one was lost; Drop for Background
\* joins a thread that was told to stop; and a thread of the pool that meets the
\* locked compat_sender waits for a build() that is about to fill it.
WaitsAreAnswered ==
  /\ owner = "idle" => rx # "out"
  /\ owner = "idle" /\ rx = "recv" /\ queue = 0 =>
       \E t \in Tasks :
         \/ track[t] = "lost"
         \/ track[t] \in {"running", "notify"} /\ UnderWay(t)
  /\ owner \in {"joining", "failed"} => bg \in {"stopping", "exited"}
  /\ \A w \in Threads : thread[w] = "upgraded" => sender \/ owner = "launched"

\* The state of CompatRuntime in which the runtime is.
Begun == {t \in Tasks : task[t] # "new"}
Given == {t \in Tasks : track[t] # "new"}
Ran == {t \in Tasks : task[t] = "done" \/ track[t] \in {"notify", "done"}}
Failed == {t \in Tasks : task[t] = "panicked"}
Dropped == {t \in Tasks : task[t] = "cancelled"}
Phase == IF owner = "idle" THEN "waiting"
         ELSE IF owner = "closing" THEN "ending"
         ELSE IF owner \in {"joining", "gone"} THEN "over" ELSE "open"

Promise == INSTANCE CompatRuntime WITH
  begun <- Begun, counted <- Given, ran <- Ran, failed <- Failed,
  cancelled <- Dropped, phase <- Phase

\* With all its threads, the runtime does to tasks only what CompatRuntime
\* allows: shutdown_on_idle waits until each counted task has run, nothing is
\* cancelled before the shutdown, and nothing runs when it is over.
KeepsPromise == Promise!Spec

\* shutdown_now and Drop come to an end whatever is running: tasks that never end
\* are dropped, those that spawn others and those that other threads spawn too.
ShutdownNowEnds == how = "now" ~> owner = "gone"

\* shutdown_on_idle comes to an end if the futures do, unless a counted task was
\* lost.
ShutdownOnIdleEnds ==
  FuturesEnd =>
    (how = "on_idle" ~>
       (owner = "gone" \/ \E t \in Tasks : track[t] = "lost"))

\* tests/rt_threadpool.rs, can_spawn_std_futures: a task that a completed task
\* of the runtime spawned with tokio_02::spawn has run when run() returns.
SpawnedTasksRan ==
  owner = "gone" /\ how = "on_idle" =>
    \A t \in Tasks :
      by[t] \in Tasks /\ task[by[t]] = "done" /\ track[by[t]] = "done" =>
        task[t] \in {"done", "panicked"}
=============================================================================
