-------------------------- MODULE ThreadPoolProofs --------------------------
(***************************************************************************)
(* Proofs about module ThreadPool, for every set of tasks and of threads:  *)
(* it uses the idle tracking only through its operations, no pool thread   *)
(* meets a missing spawner, no task is polled without the tokio 0.1        *)
(* services, no actor waits for what will not come, and the runtime        *)
(* implements CompatRuntime.                                               *)
(***************************************************************************)
EXTENDS ThreadPool, FiniteSetTheorems, TLAPS

\* Every step of the runtime is a step of the idle tracking or leaves it alone.
LEMMA StepUsesIdle == [Next]_vars => [I!Next]_(I!vars)
<1> SUFFICES ASSUME [Next]_vars PROVE [I!Next]_(I!vars)
  OBVIOUS
<1> USE DEF I!Next, I!vars, idleVars
<1>1. CASE Building
  BY <1>1 DEF Building, StartBackground, BuildPool, BuildFails, Publish
<1>2. ASSUME NEW w \in Threads, ThreadStep(w) PROVE UNCHANGED I!vars
  BY <1>2 DEF ThreadStep, Launch, Upgrade, SetGuards, Stop
<1>3. ASSUME NEW t \in Tasks, Spawning(t) PROVE [I!Next]_(I!vars)
  <2>1. ASSUME NEW p \in Spawners, Reserve(p, t) PROVE I!Reserve(t)
    BY <2>1 DEF Reserve
  <2>2. ASSUME NEW p \in Spawners, SpawnHandle(p, t) PROVE UNCHANGED I!vars
    BY <2>2 DEF SpawnHandle
  <2>3. ASSUME Submit(t) PROVE I!Lose(t) \/ UNCHANGED I!vars
    BY <2>3 DEF Submit, LoseTrack
  <2>4. ASSUME BlockOn(t) PROVE I!Reserve(t)
    BY <2>4 DEF BlockOn
  <2>5. QED
    BY <1>3, <2>1, <2>2, <2>3, <2>4 DEF Spawning
<1>4. ASSUME NEW t \in Tasks, Running(t) PROVE [I!Next]_(I!vars)
  <2>1. ASSUME NEW w \in Threads, Poll(w, t) \/ Pending(w, t)
        PROVE UNCHANGED I!vars
    BY <2>1 DEF Poll, Pending
  <2>2. ASSUME NEW x \in Pollers, Ready(x, t)
        PROVE I!Complete(t) \/ UNCHANGED I!vars
    BY <2>2 DEF Ready
  <2>3. ASSUME NEW x \in Pollers, Notify(x, t) PROVE I!Send(t)
    BY <2>3 DEF Notify
  <2>4. ASSUME NEW x \in Pollers, Panic(x, t)
        PROVE I!Lose(t) \/ UNCHANGED I!vars
    BY <2>4 DEF Panic, LoseTrack
  <2>5. ASSUME Cancel(t) PROVE I!Lose(t) \/ UNCHANGED I!vars
    BY <2>5 DEF Cancel, LoseTrack
  <2>6. QED
    BY <1>4, <2>1, <2>2, <2>3, <2>4, <2>5 DEF Running
<1>5. ASSUME Ending PROVE I!CallIdle \/ I!Load \/ I!Recv \/ UNCHANGED I!vars
  BY <1>5 DEF Ending, ShutdownOnIdle, IdleLoad, IdleRecv, ShutdownNow, Close,
              StopBackground, BackgroundExits, Join
<1>6. CASE UNCHANGED vars
  BY <1>6 DEF vars
<1>7. QED
  BY <1>1, <1>2, <1>3, <1>4, <1>5, <1>6 DEF Next

P == INSTANCE IdleProofs

\* The two vocabularies for the idle tracking, I and P, agree.
LEMMA SameIdle ==
  /\ I!Init <=> P!Init
  /\ [I!Next]_(I!vars) <=> [P!Next]_(P!vars)
  /\ I!TypeOK <=> P!TypeOK
  /\ I!CounterExact <=> P!CounterExact
  /\ I!NoLostWakeup <=> P!NoLostWakeup
<1>1. I!Init <=> P!Init
  BY DEF I!Init, P!Init
<1>2. [I!Next]_(I!vars) <=> [P!Next]_(P!vars)
  BY DEF I!Next, I!vars, P!Next, P!vars,
         I!Reserve, I!Complete, I!Send, I!Lose, I!CallIdle, I!Load, I!Recv,
         P!Reserve, P!Complete, P!Send, P!Lose, P!CallIdle, P!Load, P!Recv
<1>3. I!TypeOK <=> P!TypeOK
  BY DEF I!TypeOK, P!TypeOK, I!TrackState, P!TrackState, I!RxState, P!RxState
<1>4. I!NoLostWakeup <=> P!NoLostWakeup
  BY DEF I!NoLostWakeup, P!NoLostWakeup
<1>5. I!CounterExact <=> P!CounterExact
  BY DEF I!CounterExact, P!CounterExact, I!Counted, P!Counted,
         I!Cardinality, P!Cardinality
<1>6. QED
  BY <1>1, <1>2, <1>3, <1>4, <1>5

\* What is proved of idle.rs in module IdleProofs holds inside the runtime: its
\* counter is exact, and no wake-up of shutdown_on_idle is lost.
THEOREM IdleCorrectInPool ==
  Spec => [](I!TypeOK /\ I!CounterExact /\ I!NoLostWakeup)
<1>1. Spec => P!Spec
  <2>1. Init => P!Init
    BY SameIdle DEF Init
  <2>2. [Next]_vars => [P!Next]_(P!vars)
    BY SameIdle, StepUsesIdle
  <2>3. QED
    BY <2>1, <2>2, PTL DEF Spec, P!Spec
<1>2. P!IsFiniteSet(Tasks)
  BY TasksAssumption DEF IsFiniteSet, P!IsFiniteSet
<1>3. P!Spec => [](P!TypeOK /\ P!CounterExact /\ P!NoLostWakeup)
  BY <1>2, P!TypeCorrect, P!CounterCorrect, P!WakeupCorrect, PTL
<1>4. QED
  BY <1>1, <1>3, SameIdle, PTL
-----------------------------------------------------------------------------
\* The types of everything but the idle tracking.
LifeTypes ==
  /\ owner \in {"none", "locked", "failed", "launched", "ready", "idle",
                "returned", "closing", "joining", "gone"}
  /\ how \in {"none", "on_idle", "now"}
  /\ strong \subseteq Threads \union {Owner}
  /\ sender \in BOOLEAN /\ closed \in BOOLEAN
  /\ thread \in [Threads -> {"off", "starting", "upgraded", "running",
                             "exited", "panicked"}]
  /\ guards \subseteq Threads
  /\ bg \in {"off", "up", "stopping", "exited"}
  /\ task \in [Tasks -> {"new", "reserved", "queued", "polled", "done",
                         "panicked", "cancelled"}]
  /\ by \in [Tasks -> Spawners \union {None}]
  /\ on \in [Pollers -> Tasks \union {None}]

\* While there is a pool the owner holds compat_sender and the background
\* thread is up, and outside of the write lock there is a spawner in it.  A thread
\* that is joined was told to stop.
PoolServed ==
  /\ owner \in {"locked", "launched", "ready", "idle", "returned", "closing"} =>
       Owner \in strong /\ bg = "up"
  /\ owner \in {"ready", "idle", "returned", "closing"} => sender
  /\ owner \in {"joining", "failed"} => bg \in {"stopping", "exited"}
  /\ owner = "gone" => Owner \notin strong /\ bg = "exited"

\* A thread is in on_thread_start, or past it, only while there is a pool; it
\* has its guards and polls only after on_thread_start, and lets go of
\* compat_sender there.
ThreadsInPool ==
  \A w \in Threads :
    /\ thread[w] \in {"starting", "upgraded"} =>
         owner \in {"launched", "ready", "idle", "returned", "closing"}
    /\ thread[w] = "running" => owner \in {"ready", "idle", "returned", "closing"}
    /\ w \in strong => thread[w] = "upgraded"
    /\ w \in guards <=> thread[w] = "running"
    /\ on[w] # None => thread[w] = "running"

\* The owner polls only in block_on.
OwnerPolls == on[Owner] # None => owner = "ready"

LifeInv == LifeTypes /\ PoolServed /\ ThreadsInPool /\ OwnerPolls /\ ThreadsStart
\* Before build() nothing is held and no thread is there.
LEMMA InitLifeInv == Init => LifeInv
BY DistinctActors
DEF Init, LifeInv, LifeTypes, PoolServed, ThreadsInPool, OwnerPolls, ThreadsStart,
    Pollers, Spawners

\* The steps of build() and of a pool thread.
LEMMA StartLifeInv ==
  ASSUME LifeInv, Building \/ \E w \in Threads : ThreadStep(w)
  PROVE  LifeInv'
<1> USE DEF LifeInv, LifeTypes, PoolServed, ThreadsInPool, OwnerPolls, ThreadsStart,
            idleVars, lifeVars, startVars, taskVars, Pollers
<1>d. Owner \notin Threads /\ Owner \in Pollers
  BY DistinctActors
<1>1. ASSUME StartBackground PROVE LifeInv'
  BY <1>1, <1>d DEF StartBackground
<1>2. ASSUME BuildPool PROVE LifeInv'
  BY <1>2, <1>d DEF BuildPool
<1>3. ASSUME BuildFails PROVE LifeInv'
  BY <1>3, <1>d DEF BuildFails
<1>4. ASSUME Publish PROVE LifeInv'
  BY <1>4, <1>d DEF Publish
<1>5. ASSUME NEW w \in Threads, Launch(w) PROVE LifeInv'
  BY <1>5, <1>d DEF Launch, HasPool
<1>6. ASSUME NEW w \in Threads, Upgrade(w) PROVE LifeInv'
  BY <1>6, <1>d DEF Upgrade
<1>7. ASSUME NEW w \in Threads, SetGuards(w) PROVE LifeInv'
  BY <1>7, <1>d DEF SetGuards, WriteLocked
<1>8. ASSUME NEW w \in Threads, Stop(w) PROVE LifeInv'
  BY <1>8, <1>d DEF Stop
<1>9. QED
  BY <1>1, <1>2, <1>3, <1>4, <1>5, <1>6, <1>7, <1>8 DEF Building, ThreadStep

\* Spawning changes what is known of a task only, but for block_on, in which the
\* owner begins to poll.
LEMMA SpawningLifeInv ==
  ASSUME LifeInv, NEW t \in Tasks, Spawning(t)
  PROVE  LifeInv'
<1> USE DEF LifeInv, LifeTypes, PoolServed, ThreadsInPool, OwnerPolls, ThreadsStart,
            idleVars, lifeVars, startVars, taskVars, Pollers
<1>d. Owner \notin Threads /\ Owner \in Pollers /\ Owner \in Spawners
  BY DistinctActors DEF Spawners
<1>1. ASSUME NEW p \in Spawners, Reserve(p, t) PROVE LifeInv'
  BY <1>1, <1>d DEF Reserve
<1>2. ASSUME NEW p \in Spawners, SpawnHandle(p, t) PROVE LifeInv'
  BY <1>2, <1>d DEF SpawnHandle
<1>3. ASSUME Submit(t) PROVE LifeInv'
  BY <1>3, <1>d DEF Submit
<1>4. ASSUME BlockOn(t) PROVE LifeInv'
  BY <1>4, <1>d DEF BlockOn, AtRest
<1>5. QED
  BY <1>1, <1>2, <1>3, <1>4 DEF Spawning

\* A thread polls only between on_thread_start and on_thread_stop.
LEMMA RunningLifeInv ==
  ASSUME LifeInv, NEW t \in Tasks, Running(t)
  PROVE  LifeInv'
<1> USE DEF LifeInv, LifeTypes, PoolServed, ThreadsInPool, OwnerPolls, ThreadsStart,
            idleVars, lifeVars, startVars, taskVars, Pollers
<1>d. Owner \notin Threads /\ Owner \in Pollers
  BY DistinctActors
<1>1. ASSUME NEW w \in Threads, Poll(w, t) PROVE LifeInv'
  BY <1>1, <1>d DEF Poll
<1>2. ASSUME NEW x \in Pollers, NEW s \in {"queued", "done", "panicked"},
             Leaves(x, t, s)
      PROVE  LifeInv'
  BY <1>2, <1>d DEF Leaves
<1>3. ASSUME NEW w \in Threads, Pending(w, t) PROVE LifeInv'
  BY <1>3, <1>2 DEF Pending
<1>4. ASSUME NEW x \in Pollers, Ready(x, t) PROVE LifeInv'
  <2>1. CASE Leaves(x, t, "done")
    BY <2>1, <1>2
  <2>2. CASE UNCHANGED <<lifeVars, startVars, taskVars>>
    BY <2>2
  <2>3. QED
    BY <1>4, <2>1, <2>2 DEF Ready
<1>5. ASSUME NEW x \in Pollers, Notify(x, t) \/ Panic(x, t) PROVE LifeInv'
  BY <1>5, <1>2 DEF Notify, Panic
<1>6. ASSUME Cancel(t) PROVE LifeInv'
  BY <1>6, <1>d DEF Cancel
<1>7. QED
  BY <1>1, <1>3, <1>4, <1>5, <1>6 DEF Running

\* The pool is taken down before compat_sender and the background thread.
LEMMA EndingLifeInv ==
  ASSUME LifeInv, Ending
  PROVE  LifeInv'
<1> USE DEF LifeInv, LifeTypes, PoolServed, ThreadsInPool, OwnerPolls, ThreadsStart,
            idleVars, lifeVars, startVars, taskVars, Pollers
<1>d. Owner \notin Threads /\ Owner \in Pollers
  BY DistinctActors
<1>1. ASSUME ShutdownOnIdle \/ ShutdownNow PROVE LifeInv'
  BY <1>1, <1>d DEF ShutdownOnIdle, ShutdownNow, AtRest
<1>2. ASSUME IdleLoad \/ IdleRecv PROVE LifeInv'
  BY <1>2, <1>d DEF IdleLoad, IdleRecv
<1>3. ASSUME Close PROVE LifeInv'
  BY <1>3, <1>d DEF Close
<1>4. ASSUME StopBackground PROVE LifeInv'
  BY <1>4, <1>d DEF StopBackground, PoolGone
<1>5. ASSUME BackgroundExits PROVE LifeInv'
  BY <1>5, <1>d DEF BackgroundExits
<1>6. ASSUME Join PROVE LifeInv'
  BY <1>6, <1>d DEF Join
<1>7. QED
  BY <1>1, <1>2, <1>3, <1>4, <1>5, <1>6 DEF Ending

\* In every state the owner, the pool and the threads are as LifeInv says.
THEOREM LifeInvCorrect == Spec => []LifeInv
<1>1. LifeInv /\ [Next]_vars => LifeInv'
  <2> SUFFICES ASSUME LifeInv, [Next]_vars PROVE LifeInv'
    OBVIOUS
  <2>1. CASE UNCHANGED vars
    BY <2>1 DEF vars, idleVars, lifeVars, startVars, taskVars, LifeInv, LifeTypes,
                PoolServed, ThreadsInPool, OwnerPolls, ThreadsStart
  <2>2. QED
    BY <2>1, StartLifeInv, SpawningLifeInv, RunningLifeInv, EndingLifeInv DEF Next
<1>2. QED
  BY <1>1, InitLifeInv, PTL DEF Spec

\* No value of the program leaves its type; the idle tracking's part comes from
\* the theorems about idle.rs.
THEOREM TypeCorrect == Spec => []TypeOK
<1>1. LifeInv /\ I!TypeOK => TypeOK
  BY DEF LifeInv, LifeTypes, TypeOK
<1>2. QED
  BY <1>1, LifeInvCorrect, IdleCorrectInPool, PTL

\* builder.rs: the two expect() of on_thread_start never fire, for any number of
\* threads and however late they start.
THEOREM ThreadsStartCorrect == Spec => []ThreadsStart
<1>1. LifeInv => ThreadsStart
  BY DEF LifeInv
<1>2. QED
  BY <1>1, LifeInvCorrect, PTL

\* Whoever polls a task has the tokio 0.1 services, to the end of a shutdown.
THEOREM ServicesCorrect == Spec => []ServicesOutliveTasks
<1>1. LifeInv => ServicesOutliveTasks
  BY DEF LifeInv, PoolServed, ThreadsInPool, OwnerPolls, ServicesOutliveTasks, Pollers
<1>2. QED
  BY <1>1, LifeInvCorrect, PTL

\* A Runtime that is gone left no handle, no guard and no thread behind.
THEOREM NothingLeftCorrect == Spec => []NothingLeft
<1>1. LifeInv => NothingLeft
  BY DEF LifeInv, LifeTypes, PoolServed, ThreadsInPool, ThreadsStart, NothingLeft
<1>2. QED
  BY <1>1, LifeInvCorrect, PTL
-----------------------------------------------------------------------------
\* How the state of a task and that of its Track go together.
TaskPlaces ==
  \A t \in Tasks :
    /\ task[t] = "new" => track[t] = "new"
    /\ track[t] = "running" => task[t] \in {"reserved", "queued", "polled"}
    /\ track[t] = "notify" => task[t] = "polled"
    /\ track[t] = "done" => task[t] = "done"
    /\ track[t] = "lost" => task[t] \in {"panicked", "cancelled"}
    /\ by[t] \in Tasks => task[by[t]] # "new"
    /\ task[t] = "cancelled" => closed

\* A task that is polled is polled by one thread.
PollPlaces ==
  /\ \A x \in Pollers :
       on[x] # None =>
         task[on[x]] = "polled" /\ \A y \in Pollers : on[y] = on[x] => y = x
  /\ \A t \in Tasks : task[t] = "polled" => \E x \in Pollers : on[x] = t

\* Between reserve() and the spawn the spawner does nothing else.
SpawnPlaces ==
  \A t \in Tasks : task[t] = "reserved" =>
    /\ by[t] \in Spawners
    /\ by[t] = Owner => owner = "ready"
    /\ by[t] \in Tasks => task[by[t]] = "polled"

\* How far the Runtime is, and which call ended it.
EndPlaces ==
  /\ owner \in {"none", "locked", "failed", "launched", "ready"} => how = "none"
  /\ closed => owner \in {"closing", "joining", "gone"}
  /\ owner = "idle" => rx # "out"

\* After the wait of shutdown_on_idle what the owner spawned is over, and so is
\* whatever that spawned, but for a last notification.
RootsOver ==
  how = "on_idle" /\ owner # "idle" =>
    \A t \in Tasks : Rooted(t) =>
      track[t] \in {"notify", "done", "lost"} /\ task[t] # "cancelled"

\* Where the tasks, the threads that poll them and the Runtime are.
Places == TaskPlaces /\ PollPlaces /\ SpawnPlaces /\ EndPlaces

\* Places alone is inductive; RootsOver needs it, and the exact counter.
TaskInv == Places /\ RootsOver

\* What the steps below know of the state already.
Known == LifeInv /\ I!TypeOK /\ I!CounterExact

\* When the counter is zero no reservation is outstanding.
LEMMA ZeroIsIdle ==
  ASSUME I!CounterExact, spawned = 0
  PROVE  \A t \in Tasks : track[t] \notin {"running", "lost"}
<1>1. I!Counted \subseteq Tasks
  BY DEF I!Counted
<1>2. IsFiniteSet(I!Counted)
  BY <1>1, TasksAssumption, FS_Subset
<1>3. Cardinality(I!Counted) = 0
  BY DEF I!CounterExact, I!Cardinality, Cardinality
<1>4. I!Counted = {}
  BY <1>2, <1>3, FS_EmptySet
<1>5. QED
  BY <1>4 DEF I!Counted

\* A step that reserves nothing gives no task new ancestors.
LEMMA RootedStays ==
  ASSUME \A u \in Tasks : track'[u] # "new" => track[u] # "new" /\ by'[u] = by[u],
         NEW t \in Tasks, Rooted(t)'
  PROVE  Rooted(t)
<1>1. PICK S \in SUBSET Tasks :
        t \in S /\ \A u \in S : track'[u] # "new" /\ by'[u] \in S \union {Owner}
  BY DEF Rooted
<1>2. \A u \in S : track[u] # "new" /\ by[u] \in S \union {Owner}
  BY <1>1
<1>3. QED
  BY <1>1, <1>2 DEF Rooted

\* Once the owner spawns no more, a task with a root had it before the step, or
\* was spawned by one that had.
LEMMA RootedGrows ==
  ASSUME LifeInv, I!TypeOK, TaskPlaces, NEW p \in Spawners, p # Owner,
         NEW t \in Tasks, Reserve(p, t), NEW u \in Tasks, Rooted(u)'
  PROVE  IF u = t THEN p \in Tasks /\ Rooted(p) ELSE Rooted(u)
<1>1. PICK S \in SUBSET Tasks :
        u \in S /\ \A v \in S : track'[v] # "new" /\ by'[v] \in S \union {Owner}
  BY DEF Rooted
<1> DEFINE R == S \ {t}
<1>2. /\ task[t] = "new" /\ by' = [by EXCEPT ![t] = p]
      /\ track' = [track EXCEPT ![t] = "running"]
  BY DEF Reserve, I!Reserve
<1>3. \A v \in R : track[v] # "new" /\ by[v] \in R \union {Owner}
  <2> SUFFICES ASSUME NEW v \in R PROVE track[v] # "new" /\ by[v] \in R \union {Owner}
    OBVIOUS
  <2>1. track'[v] = track[v] /\ by'[v] = by[v]
    BY <1>2 DEF I!TypeOK, LifeInv, LifeTypes
  <2>2. by[v] # t
    BY <1>2 DEF TaskPlaces
  <2>3. QED
    BY <1>1, <2>1, <2>2
<1>4. ASSUME u # t PROVE Rooted(u)
  <2>1. u \in R /\ R \in SUBSET Tasks
    BY <1>1, <1>4
  <2>2. QED
    BY <1>3, <2>1 DEF Rooted
<1>5. ASSUME u = t PROVE p \in Tasks /\ Rooted(p)
  <2>1. by'[t] = p
    BY <1>2 DEF LifeInv, LifeTypes
  <2>2. p \in S /\ p # t
    <3>1. p \in S
      BY <1>1, <1>5, <2>1
    <3>2. p # t
      BY <1>2, <3>1, DistinctActors DEF Reserve, MaySpawn
    <3>3. QED
      BY <3>1, <3>2
  <2>3. p \in R /\ R \in SUBSET Tasks
    BY <2>2
  <2>4. QED
    BY <1>3, <2>3 DEF Rooted
<1>6. QED
  BY <1>4, <1>5

\* Nothing is spawned yet.
LEMMA InitTaskInv == Init => TaskInv
BY DistinctActors
DEF Init, I!Init, TaskInv, Places, TaskPlaces, PollPlaces, SpawnPlaces, EndPlaces,
    RootsOver

\* A task and its Track move together.
LEMMA PlacesStay ==
  ASSUME Known, Places, [Next]_vars
  PROVE  Places'
<1> USE DistinctActors
  DEF Places, TaskPlaces, PollPlaces, SpawnPlaces, EndPlaces, Known, LifeInv,
      LifeTypes, idleVars, lifeVars, startVars, taskVars, Pollers, Free
<1>1. CASE UNCHANGED vars
  BY <1>1 DEF vars
<1>2. CASE Building
  BY <1>2 DEF Building, StartBackground, BuildPool, BuildFails, Publish
<1>3. CASE \E w \in Threads : ThreadStep(w)
  BY <1>3 DEF ThreadStep, Launch, Upgrade, SetGuards, Stop
<1>4. CASE Ending
  BY <1>4 DEF Ending, ShutdownOnIdle, IdleLoad, IdleRecv, ShutdownNow, Close,
              StopBackground, BackgroundExits, Join, AtRest,
              I!CallIdle, I!Load, I!Recv
<1>5. ASSUME NEW t \in Tasks, Spawning(t) PROVE Places'
  <2> USE DEF I!TypeOK
  <2>1. ASSUME NEW p \in Spawners, Reserve(p, t) PROVE Places'
    <3>1. TaskPlaces' /\ EndPlaces'
      BY <2>1 DEF Reserve, MaySpawn, I!Reserve
    <3>2. PollPlaces'
      BY <2>1 DEF Reserve, I!Reserve
    <3>3. SpawnPlaces'
      BY <2>1 DEF Reserve, MaySpawn, AtRest, Spawners
    <3>4. QED
      BY <3>1, <3>2, <3>3
  <2>2. ASSUME NEW p \in Spawners, SpawnHandle(p, t)
        PROVE  Places'
    BY <2>2 DEF SpawnHandle, MaySpawn
  <2>3. ASSUME Submit(t) PROVE Places'
    BY <2>3 DEF Submit, LoseTrack, I!Lose
  <2>4. ASSUME BlockOn(t) PROVE Places'
    <3>1. TaskPlaces' /\ EndPlaces'
      BY <2>4 DEF BlockOn, I!Reserve
    <3>2. PollPlaces'
      BY <2>4 DEF BlockOn, AtRest
    <3>3. SpawnPlaces'
      BY <2>4 DEF BlockOn, AtRest
    <3>4. QED
      BY <3>1, <3>2, <3>3
  <2>5. QED
    BY <1>5, <2>1, <2>2, <2>3, <2>4 DEF Spawning
<1>6. ASSUME NEW t \in Tasks, Running(t) PROVE Places'
  <2> USE DEF I!TypeOK
  <2>1. ASSUME NEW w \in Threads, Poll(w, t) \/ Pending(w, t)
        PROVE  Places'
    BY <2>1 DEF Poll, Pending, Leaves
  <2>2. ASSUME NEW x \in Pollers, Ready(x, t) PROVE Places'
    BY <2>2 DEF Ready, Leaves, I!Complete
  <2>3. ASSUME NEW x \in Pollers, Notify(x, t) PROVE Places'
    BY <2>3 DEF Notify, Leaves, I!Send
  <2>4. ASSUME NEW x \in Pollers, Panic(x, t) PROVE Places'
    BY <2>4 DEF Panic, Leaves, LoseTrack, I!Lose
  <2>5. ASSUME Cancel(t) PROVE Places'
    BY <2>5 DEF Cancel, LoseTrack, I!Lose
  <2>6. QED
    BY <1>6, <2>1, <2>2, <2>3, <2>4, <2>5 DEF Running
<1>7. QED
  BY <1>1, <1>2, <1>3, <1>4, <1>5, <1>6 DEF Next

\* After the wait no step cancels a task that has a root, or makes a new one.
LEMMA RootsStayOver ==
  ASSUME Known, Places, RootsOver, [Next]_vars
  PROVE  RootsOver'
<1> USE DEF Known, LifeInv, LifeTypes, I!TypeOK, Places, TaskPlaces, idleVars,
            lifeVars, startVars, taskVars
<1> SUFFICES ASSUME how' = "on_idle", owner' # "idle", NEW u \in Tasks, Rooted(u)'
             PROVE  track'[u] \in {"notify", "done", "lost"} /\ task'[u] # "cancelled"
  BY DEF RootsOver
<1> DEFINE Over(v) == track[v] \in {"notify", "done", "lost"} /\ task[v] # "cancelled"
           Quiet == /\ UNCHANGED how /\ owner # "idle"
                    /\ \A v \in Tasks : track'[v] # "new" =>
                         track[v] # "new" /\ by'[v] = by[v]
\* Most steps reserve nothing and are taken after the wait: the task was over.
<1>q. ASSUME Quiet PROVE Over(u)
  <2>1. Rooted(u)
    BY <1>q, RootedStays
  <2>2. QED
    BY <1>q, <2>1 DEF RootsOver
<1> HIDE DEF Over, Quiet
<1>1. CASE UNCHANGED vars
  BY <1>1, <1>q DEF vars, Quiet, Over
<1>2. CASE Building
  BY <1>2 DEF Building, StartBackground, BuildPool, BuildFails, Publish, EndPlaces
<1>3. CASE \E w \in Threads : ThreadStep(w)
  BY <1>3, <1>q DEF ThreadStep, Launch, Upgrade, SetGuards, Stop, Quiet, Over
<1>4. CASE Ending
  <2>1. CASE IdleLoad
    <3>1. spawned = 0 /\ UNCHANGED <<track, task, by>>
      BY <2>1 DEF IdleLoad, I!Load
    <3>2. track[u] \notin {"new", "running", "lost"}
      BY <3>1, ZeroIsIdle DEF Rooted
    <3>3. QED
      BY <3>1, <3>2 DEF I!TrackState
  <2>2. CASE Close \/ StopBackground \/ BackgroundExits \/ Join
    BY <2>2, <1>q
    DEF Close, StopBackground, BackgroundExits, Join, Quiet, Over, EndPlaces
  <2>3. CASE ShutdownOnIdle \/ ShutdownNow \/ IdleRecv
    BY <2>3 DEF ShutdownOnIdle, ShutdownNow, IdleRecv
  <2>4. QED
    BY <1>4, <2>1, <2>2, <2>3 DEF Ending
<1>5. ASSUME NEW t \in Tasks, Spawning(t) PROVE Over(u)'
  <2>1. ASSUME NEW p \in Spawners, Reserve(p, t) PROVE Over(u)'
    <3>1. p # Owner /\ UNCHANGED <<how, owner>>
      BY <2>1, DistinctActors DEF Reserve, MaySpawn, AtRest, EndPlaces
    <3>2. u # t
      <4>1. ASSUME u = t PROVE FALSE
        <5>1. p \in Tasks /\ Rooted(p)
          BY <2>1, <3>1, <4>1, RootedGrows
        <5>2. Over(p)
          BY <3>1, <5>1 DEF RootsOver, Over
        <5>3. task[p] = "polled" /\ track[p] # "notify"
          BY <2>1, <5>1, DistinctActors DEF Reserve, MaySpawn
        <5>4. QED
          BY <5>1, <5>2, <5>3 DEF Over
      <4>2. QED
        BY <4>1
    <3>3. Over(u)
      BY <2>1, <3>1, <3>2, RootedGrows DEF RootsOver, Over
    <3>4. QED
      BY <2>1, <3>2, <3>3 DEF Reserve, I!Reserve, Over
  <2>2. ASSUME NEW p \in Spawners, SpawnHandle(p, t) PROVE Over(u)'
    BY <2>2, <1>q DEF SpawnHandle, Quiet, Over
  <2>3. ASSUME Submit(t) PROVE Over(u)'
    BY <2>3, <1>q DEF Submit, LoseTrack, I!Lose, Quiet, Over
  <2>4. ASSUME BlockOn(t) PROVE FALSE
    BY <2>4 DEF BlockOn, AtRest, EndPlaces
  <2>5. QED
    BY <1>5, <2>1, <2>2, <2>3, <2>4 DEF Spawning
<1>6. ASSUME NEW t \in Tasks, Running(t) PROVE Over(u)'
  <2>1. ASSUME NEW w \in Threads, Poll(w, t) \/ Pending(w, t) PROVE Over(u)'
    BY <2>1, <1>q DEF Poll, Pending, Leaves, Quiet, Over
  <2>2. ASSUME NEW x \in Pollers, Ready(x, t) PROVE Over(u)'
    BY <2>2, <1>q DEF Ready, Leaves, I!Complete, Quiet, Over
  <2>3. ASSUME NEW x \in Pollers, Notify(x, t) PROVE Over(u)'
    BY <2>3, <1>q DEF Notify, Leaves, I!Send, Quiet, Over
  <2>4. ASSUME NEW x \in Pollers, Panic(x, t) PROVE Over(u)'
    BY <2>4, <1>q DEF Panic, Leaves, LoseTrack, I!Lose, Quiet, Over
  <2>5. ASSUME Cancel(t) PROVE Over(u)'
    BY <2>5, <1>q DEF Cancel, LoseTrack, I!Lose, Quiet, Over
  <2>6. QED
    BY <1>6, <2>1, <2>2, <2>3, <2>4, <2>5 DEF Running
<1>7. QED
  BY <1>1, <1>2, <1>3, <1>4, <1>5, <1>6 DEF Next, Over

\* Tasks, Tracks and the shutdown fit together in every state.
THEOREM TaskInvCorrect == Spec => []TaskInv
<1>1. Known /\ TaskInv /\ [Next]_vars => TaskInv'
  BY PlacesStay, RootsStayOver DEF TaskInv
<1>2. Spec => []Known
  BY LifeInvCorrect, IdleCorrectInPool, PTL DEF Known
<1>3. QED
  BY <1>1, <1>2, InitTaskInv, PTL DEF Spec

\* shutdown_on_idle cancels nothing of what the owner spawned, nor what that
\* spawned in turn, whichever other threads spawn meanwhile.
THEOREM OwnTasksCorrect == Spec => []OwnTasksFinish
<1>1. TaskInv => OwnTasksFinish
  BY DEF TaskInv, Places, TaskPlaces, EndPlaces, RootsOver, OwnTasksFinish
<1>2. QED
  BY <1>1, TaskInvCorrect, PTL

\* When the counter is not zero a reservation is outstanding.
LEMMA BusyHasTask ==
  ASSUME I!CounterExact, spawned # 0
  PROVE  \E t \in Tasks : track[t] \in {"running", "lost"}
<1> SUFFICES ASSUME \A t \in Tasks : track[t] \notin {"running", "lost"} PROVE FALSE
  OBVIOUS
<1>1. I!Counted = {}
  BY DEF I!Counted
<1>2. Cardinality({}) = 0
  BY FS_EmptySet
<1>3. QED
  BY <1>1, <1>2 DEF I!CounterExact, I!Cardinality, Cardinality

\* While shutdown_on_idle waits, a counted task that is not over is in the hands of
\* a spawner, a scheduler or a worker: the owner itself polls nothing.
LEMMA WaitedIsUnderWay ==
  ASSUME Known, Places, owner = "idle",
         NEW t \in Tasks, track[t] \in {"running", "notify"}
  PROVE  UnderWay(t)
<1> USE DEF Known, LifeInv, Places, Pollers
<1>1. on[Owner] = None
  BY DEF OwnerPolls
<1>2. ASSUME NEW u \in Tasks, task[u] = "polled"
      PROVE  \E w \in Threads : on[w] = u /\ w \in guards
  <2>1. PICK x \in Pollers : on[x] = u
    BY <1>2 DEF PollPlaces
  <2>2. u # None
    BY DistinctActors
  <2>3. x \in Threads
    BY <1>1, <2>1, <2>2
  <2>4. QED
    BY <2>1, <2>2, <2>3 DEF ThreadsInPool
<1>3. task[t] \in {"reserved", "queued", "polled"}
  BY DEF TaskPlaces
<1>4. CASE task[t] = "polled"
  BY <1>2, <1>4 DEF UnderWay
<1>5. CASE task[t] = "queued"
  BY <1>5 DEF EndPlaces, UnderWay
<1>6. CASE task[t] = "reserved"
  <2>1. by[t] = Ext \/ (by[t] \in Tasks /\ task[by[t]] = "polled")
    BY <1>6 DEF SpawnPlaces, Spawners
  <2>2. QED
    BY <1>2, <1>6, <2>1 DEF UnderWay
<1>7. QED
  BY <1>3, <1>4, <1>5, <1>6

\* No actor waits for nothing: not shutdown_on_idle in recv(), not the join of the
\* background thread, not on_thread_start at the lock of compat_sender.  Whether
\* what they wait for then happens is a matter of scheduling.
THEOREM WaitsAnsweredCorrect == Spec => []WaitsAreAnswered
<1>1. Known /\ I!NoLostWakeup /\ TaskInv => WaitsAreAnswered
  <2> SUFFICES ASSUME Known, I!NoLostWakeup, TaskInv PROVE WaitsAreAnswered
    OBVIOUS
  <2>1. owner = "idle" => rx # "out"
    BY DEF TaskInv, Places, EndPlaces
  <2>2. ASSUME owner = "idle", rx = "recv", queue = 0
        PROVE  \E t \in Tasks :
                 \/ track[t] = "lost"
                 \/ track[t] \in {"running", "notify"} /\ UnderWay(t)
    <3>1. PICK t \in Tasks : track[t] \in {"running", "lost", "notify"}
      <4>1. CASE spawned = 0
        BY <2>2, <4>1 DEF I!NoLostWakeup, Known, I!TypeOK
      <4>2. CASE spawned # 0
        BY <4>2, BusyHasTask DEF Known
      <4>3. QED
        BY <4>1, <4>2
    <3>2. QED
      BY <2>2, <3>1, WaitedIsUnderWay DEF TaskInv
  <2>3. owner \in {"joining", "failed"} => bg \in {"stopping", "exited"}
    BY DEF Known, LifeInv, PoolServed
  <2>4. \A w \in Threads : thread[w] = "upgraded" => sender \/ owner = "launched"
    BY DEF Known, LifeInv, PoolServed, ThreadsInPool
  <2>5. QED
    BY <2>1, <2>2, <2>3, <2>4 DEF WaitsAreAnswered
<1>2. Spec => []Known
  BY LifeInvCorrect, IdleCorrectInPool, PTL DEF Known
<1>3. QED
  BY <1>1, <1>2, TaskInvCorrect, IdleCorrectInPool, PTL

\* Only idle() reading zero ends the wait of shutdown_on_idle.
LEMMA OnlyLoadReturns ==
  ASSUME [Next]_vars, owner = "idle", owner' # "idle"
  PROVE  spawned = 0
<1>1. IdleLoad
  BY DEF vars, Next, Building, StartBackground, BuildPool, BuildFails, Publish,
         ThreadStep, Launch, Upgrade, SetGuards, Stop, Spawning, Reserve, SpawnHandle,
         Submit, BlockOn, AtRest, Running, Poll, Pending, Ready, Notify, Panic, Cancel,
         Leaves, Ending, ShutdownOnIdle, IdleRecv, ShutdownNow, Close,
         StopBackground, BackgroundExits, Join, lifeVars
<1>2. QED
  BY <1>1 DEF IdleLoad, I!Load

\* When the wait of shutdown_on_idle ends, every counted task is over.
THEOREM WaitCorrect == Spec => WaitsForCounted
<1> DEFINE Waited ==
      owner = "idle" /\ owner' # "idle" =>
        \A t \in Tasks : task[t] \in {"reserved", "queued", "polled"} =>
          track[t] \in {"new", "notify"}
<1>1. Known /\ TaskInv /\ [Next]_vars => [Waited]_vars
  <2> SUFFICES ASSUME Known, TaskInv, Next, owner = "idle", owner' # "idle"
               PROVE  Waited
    BY DEF vars, lifeVars
  <2>1. spawned = 0
    BY OnlyLoadReturns
  <2>2. \A t \in Tasks : track[t] \notin {"running", "lost"}
    BY <2>1, ZeroIsIdle DEF Known
  <2>3. QED
    BY <2>2 DEF Known, I!TypeOK, I!TrackState, TaskInv, Places, TaskPlaces
<1>2. Spec => []Known
  BY LifeInvCorrect, IdleCorrectInPool, PTL DEF Known
<1>3. QED
  BY <1>1, <1>2, TaskInvCorrect, PTL DEF Spec, WaitsForCounted

\* The converse of ShutdownOnIdleEnds: once a counted task was lost, by a panic or
\* because a scheduler dropped it, shutdown_on_idle does not return.
THEOREM LostTaskHangs ==
  ASSUME NEW t \in Tasks
  PROVE  Spec => [](track[t] = "lost" /\ owner = "idle" => [](owner = "idle"))
<1> DEFINE Hung == track[t] = "lost" /\ owner = "idle"
<1>1. Known /\ Hung /\ [Next]_vars => Hung'
  <2> SUFFICES ASSUME Known, Hung, [Next]_vars PROVE Hung'
    OBVIOUS
  <2>1. [I!Next]_(I!vars)
    BY StepUsesIdle
  <2>2. track'[t] = "lost"
    BY <2>1 DEF Known, I!TypeOK, I!Next, I!vars, I!Reserve, I!Complete, I!Send, I!Lose,
                I!CallIdle, I!Load, I!Recv
  <2>3. owner' = "idle"
    <3>1. ASSUME owner' # "idle" PROVE FALSE
      <4>1. spawned = 0
        BY <3>1, OnlyLoadReturns
      <4>2. QED
        BY <4>1, ZeroIsIdle DEF Known
    <3>2. QED
      BY <3>1
  <2>4. QED
    BY <2>2, <2>3
<1>2. Hung => owner = "idle"
  OBVIOUS
<1> HIDE DEF Hung
<1>3. Spec => []Known
  BY LifeInvCorrect, IdleCorrectInPool, PTL DEF Known
<1>4. Spec => [](Hung => [](owner = "idle"))
  BY <1>1, <1>2, <1>3, PTL DEF Spec
<1>5. QED
  BY <1>4 DEF Hung
-----------------------------------------------------------------------------
\* The state of CompatRuntime depends on the tasks, their Tracks and the owner.
LEMMA SamePromise ==
  ASSUME UNCHANGED <<task, track>>, Phase' = Phase
  PROVE  UNCHANGED Promise!vars
BY DEF Promise!vars, Begun, Given, Ran, Failed, Dropped

\* build() and the threads of the pool do nothing to tasks, and each step of a
\* shutdown waits, returns or ends as it may.
LEMMA LifeKeepsPromise ==
  ASSUME Known, TaskInv, Building \/ Ending \/ \E w \in Threads : ThreadStep(w)
  PROVE  [Promise!Next]_(Promise!vars)
<1> USE DEF idleVars, lifeVars, startVars, taskVars
<1>t. ASSUME UNCHANGED <<task, track>>
      PROVE  UNCHANGED <<Begun, Given, Ran, Failed, Dropped>>
  BY <1>t DEF Begun, Given, Ran, Failed, Dropped
<1>1. CASE Building
  BY <1>1, SamePromise
  DEF Building, StartBackground, BuildPool, BuildFails, Publish, Phase
<1>2. CASE \E w \in Threads : ThreadStep(w)
  BY <1>2, SamePromise DEF ThreadStep, Launch, Upgrade, SetGuards, Stop, Phase
<1>3. CASE ShutdownOnIdle
  BY <1>3, <1>t
  DEF ShutdownOnIdle, AtRest, I!CallIdle, Phase, Promise!Next, Promise!Wait
<1>4. CASE IdleLoad
  <2>1. CASE spawned = 0
    <3>1. UNCHANGED <<task, track>> /\ Phase = "waiting" /\ Phase' = "open"
      BY <1>4, <2>1 DEF IdleLoad, I!Load, Phase
    <3>2. Given \subseteq Ran
      BY <2>1, ZeroIsIdle DEF Known, I!TypeOK, I!TrackState, Given, Ran
    <3>3. QED
      BY <3>1, <3>2, <1>t DEF Promise!Next, Promise!Return
  <2>2. CASE spawned # 0
    BY <1>4, <2>2, SamePromise DEF IdleLoad, I!Load, Phase
  <2>3. QED
    BY <2>1, <2>2
<1>5. CASE IdleRecv
  BY <1>5, SamePromise DEF IdleRecv, I!Recv, Phase
<1>6. CASE ShutdownNow
  BY <1>6, SamePromise DEF ShutdownNow, AtRest, Phase
<1>7. CASE Close \/ StopBackground
  BY <1>7, <1>t DEF Close, StopBackground, Phase, Promise!Next, Promise!End
<1>8. CASE BackgroundExits
  BY <1>8, SamePromise DEF BackgroundExits, Phase
<1>9. CASE Join
  BY <1>9, <1>t, SamePromise DEF Join, Phase, Promise!Next, Promise!End
<1>10. QED
  BY <1>1, <1>2, <1>3, <1>4, <1>5, <1>6, <1>7, <1>8, <1>9 DEF Ending

\* Spawning begins a task; only a scheduler that is closed drops it at once.
LEMMA SpawningKeepsPromise ==
  ASSUME Known, TaskInv, NEW t \in Tasks, Spawning(t)
  PROVE  [Promise!Next]_(Promise!vars)
<1> USE DEF Known, LifeInv, LifeTypes, I!TypeOK, TaskInv, Places, TaskPlaces,
            idleVars, lifeVars, startVars, taskVars
<1>1. ASSUME NEW p \in Spawners, Reserve(p, t) \/ BlockOn(t)
      PROVE  Promise!Begin(t)
  <2>1. UNCHANGED Phase /\ t \notin Begun /\ Begun' = Begun \union {t}
    BY <1>1 DEF Reserve, BlockOn, Phase, Begun
  <2>2. Given' = Given \union {t}
    BY <1>1 DEF Reserve, BlockOn, I!Reserve, Given
  <2>3. UNCHANGED <<Ran, Failed, Dropped>>
    BY <1>1 DEF Reserve, BlockOn, I!Reserve, Ran, Failed, Dropped
  <2>4. QED
    BY <2>1, <2>2, <2>3 DEF Promise!Begin
<1>2. ASSUME NEW p \in Spawners, SpawnHandle(p, t) PROVE Promise!Begin(t)
  <2>1. UNCHANGED <<Phase, Given>> /\ t \notin Begun /\ Begun' = Begun \union {t}
    BY <1>2 DEF SpawnHandle, Phase, Begun, Given
  <2>2. UNCHANGED <<Ran, Failed>>
    BY <1>2 DEF SpawnHandle, Ran, Failed
  <2>3. \/ UNCHANGED Dropped
        \/ Phase \in {"ending", "over"} /\ Dropped' = Dropped \union {t}
    BY <1>2 DEF SpawnHandle, Dropped, Phase, EndPlaces
  <2>4. QED
    BY <2>1, <2>2, <2>3 DEF Promise!Begin
<1>3. ASSUME Submit(t) PROVE UNCHANGED Promise!vars \/ Promise!Cancel(t)
  <2>1. UNCHANGED <<Phase, Begun, Given>>
    BY <1>3 DEF Submit, LoseTrack, I!Lose, Phase, Begun, Given
  <2>2. UNCHANGED <<Ran, Failed>> /\ t \in Promise!Live
    BY <1>3 DEF Submit, LoseTrack, I!Lose, Ran, Failed, Promise!Live, Begun, Dropped
  <2>3. \/ UNCHANGED Dropped
        \/ Phase \in {"ending", "over"} /\ Dropped' = Dropped \union {t}
    BY <1>3 DEF Submit, LoseTrack, I!Lose, Dropped, Phase, EndPlaces
  <2>4. QED
    BY <2>1, <2>2, <2>3 DEF Promise!Cancel, Promise!vars
<1>4. QED
  BY <1>1, <1>2, <1>3 DEF Spawning, Promise!Next, Spawners

\* A task ends in one way only, and runs only while there are threads.
LEMMA RunningKeepsPromise ==
  ASSUME Known, TaskInv, NEW t \in Tasks, Running(t)
  PROVE  [Promise!Next]_(Promise!vars)
<1> USE DEF Known, LifeInv, LifeTypes, I!TypeOK, TaskInv, Places, TaskPlaces,
            idleVars, lifeVars, startVars, taskVars
<1>o. ASSUME NEW x \in Pollers, on[x] = t PROVE Phase # "over" /\ task[t] = "polled"
  BY <1>o, DistinctActors
  DEF Pollers, ThreadsInPool, OwnerPolls, PollPlaces, Phase
<1>1. ASSUME NEW w \in Threads, Poll(w, t) \/ Pending(w, t)
      PROVE  UNCHANGED Promise!vars
  BY <1>1
  DEF Poll, Pending, Leaves, Promise!vars, Phase, Begun, Given, Ran, Failed, Dropped
<1>2. ASSUME NEW x \in Pollers, Ready(x, t) PROVE Promise!Run(t)
  <2>1. on[x] = t /\ track[t] \in {"new", "running"}
    BY <1>2 DEF Ready, Leaves, I!Complete
  <2>2. Phase # "over" /\ t \in Promise!Live
    BY <2>1, <1>o DEF Promise!Live, Begun, Ran, Failed, Dropped
  <2>3. UNCHANGED <<Phase, Begun, Given, Failed, Dropped>>
    BY <1>2, <2>1, <1>o
    DEF Ready, Leaves, I!Complete, Phase, Begun, Given, Failed, Dropped
  <2>4. Ran' = Ran \union {t}
    BY <1>2 DEF Ready, Leaves, I!Complete, Ran
  <2>5. QED
    BY <2>2, <2>3, <2>4 DEF Promise!Run
<1>3. ASSUME NEW x \in Pollers, Notify(x, t) PROVE UNCHANGED Promise!vars
  <2>1. UNCHANGED <<Phase, Begun, Given>>
    BY <1>3 DEF Notify, Leaves, I!Send, Phase, Begun, Given
  <2>2. UNCHANGED <<Ran, Failed, Dropped>>
    BY <1>3 DEF Notify, Leaves, I!Send, Ran, Failed, Dropped
  <2>3. QED
    BY <2>1, <2>2 DEF Promise!vars
<1>4. ASSUME NEW x \in Pollers, Panic(x, t) PROVE Promise!Fail(t)
  <2>1. on[x] = t /\ track[t] \notin {"notify", "done"}
    BY <1>4 DEF Panic, Leaves
  <2>2. Phase # "over" /\ t \in Promise!Live
    BY <2>1, <1>o DEF Promise!Live, Begun, Ran, Failed, Dropped
  <2>3. UNCHANGED <<Phase, Begun, Given>>
    BY <1>4 DEF Panic, Leaves, LoseTrack, I!Lose, Phase, Begun, Given
  <2>4. UNCHANGED <<Ran, Dropped>> /\ Failed' = Failed \union {t}
    BY <1>4 DEF Panic, Leaves, LoseTrack, I!Lose, Ran, Failed, Dropped
  <2>5. QED
    BY <2>2, <2>3, <2>4 DEF Promise!Fail
<1>5. ASSUME Cancel(t) PROVE Promise!Cancel(t)
  <2>1. UNCHANGED <<Phase, Begun, Given>> /\ Phase \in {"ending", "over"}
    BY <1>5 DEF Cancel, LoseTrack, I!Lose, Phase, Begun, Given, EndPlaces
  <2>2. UNCHANGED <<Ran, Failed>> /\ t \in Promise!Live
    BY <1>5 DEF Cancel, LoseTrack, I!Lose, Ran, Failed, Promise!Live, Begun, Dropped
  <2>3. Dropped' = Dropped \union {t}
    BY <1>5 DEF Cancel, LoseTrack, I!Lose, Dropped
  <2>4. QED
    BY <2>1, <2>2, <2>3 DEF Promise!Cancel
<1>6. QED
  BY <1>1, <1>2, <1>3, <1>4, <1>5 DEF Running, Promise!Next

\* For any tasks and threads, the thread pool runtime with its counter, channel,
\* locks and threads does what CompatRuntime promises: shutdown_on_idle waits
\* for each counted task, nothing is cancelled before a shutdown, and nothing
\* runs after it.
THEOREM KeepsPromiseCorrect == Spec => KeepsPromise
<1>1. Init => Promise!Init
  BY DEF Init, I!Init, Promise!Init, Begun, Given, Ran, Failed, Dropped, Phase
<1>2. Known /\ TaskInv /\ [Next]_vars => [Promise!Next]_(Promise!vars)
  <2> SUFFICES ASSUME Known, TaskInv, [Next]_vars PROVE [Promise!Next]_(Promise!vars)
    OBVIOUS
  <2>1. CASE UNCHANGED vars
    BY <2>1, SamePromise DEF vars, idleVars, lifeVars, taskVars, Phase
  <2>2. QED
    BY <2>1, LifeKeepsPromise, SpawningKeepsPromise, RunningKeepsPromise DEF Next
<1>3. Spec => []Known
  BY LifeInvCorrect, IdleCorrectInPool, PTL DEF Known
<1>4. QED
  BY <1>1, <1>2, <1>3, TaskInvCorrect, PTL DEF Spec, KeepsPromise, Promise!Spec
-----------------------------------------------------------------------------
C == INSTANCE CompatRuntimeProofs WITH
  begun <- Begun, counted <- Given, ran <- Ran, failed <- Failed,
  cancelled <- Dropped, phase <- Phase

\* The two vocabularies for the abstract runtime, Promise and C, agree.
LEMMA SameRuntime ==
  /\ Promise!Init <=> C!Init
  /\ [Promise!Next]_(Promise!vars) <=> [C!Next]_(C!vars)
  /\ Promise!EndsOnce <=> C!EndsOnce
<1>1. Promise!Init <=> C!Init
  BY DEF Promise!Init, C!Init
<1>2. UNCHANGED Promise!vars <=> UNCHANGED C!vars
  BY DEF Promise!vars, C!vars
<1>3. ASSUME NEW t \in Tasks
      PROVE  /\ Promise!Begin(t) <=> C!Begin(t)
             /\ Promise!Run(t) <=> C!Run(t)
             /\ Promise!Fail(t) <=> C!Fail(t)
             /\ Promise!Cancel(t) <=> C!Cancel(t)
  BY DEF Promise!Begin, C!Begin, Promise!Run, C!Run, Promise!Fail, C!Fail,
         Promise!Cancel, C!Cancel, Promise!Live, C!Live
<1>4. /\ Promise!Wait <=> C!Wait
      /\ Promise!Return <=> C!Return
      /\ Promise!End <=> C!End
  BY DEF Promise!Wait, C!Wait, Promise!Return, C!Return, Promise!End, C!End
<1>5. Promise!Next <=> C!Next
  BY <1>3, <1>4 DEF Promise!Next, C!Next
<1>6. Promise!EndsOnce <=> C!EndsOnce
  BY DEF Promise!EndsOnce, C!EndsOnce
<1>7. QED
  BY <1>1, <1>2, <1>5, <1>6

\* What is proved of CompatRuntime holds of the thread pool runtime: a task that
\* has run, as far as its notification, is neither lost nor dropped; and the wait
\* of shutdown_on_idle is that of WaitIdle for the counted tasks that have not run.
THEOREM OutcomesCorrect == Spec => []Promise!EndsOnce /\ C!RefinesWaitIdle
<1>1. Spec => C!Spec
  <2>1. KeepsPromise => C!Spec
    BY SameRuntime, PTL DEF KeepsPromise, Promise!Spec, C!Spec
  <2>2. QED
    BY <2>1, KeepsPromiseCorrect, PTL
<1>2. C!Spec => []C!EndsOnce /\ C!RefinesWaitIdle
  BY C!EndsOnceCorrect, C!Refinement, PTL
<1>3. QED
  BY <1>1, <1>2, SameRuntime, PTL
=============================================================================
