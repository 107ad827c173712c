------------------------- MODULE CurrentThreadProofs -------------------------
(***************************************************************************)
(* Proofs about module CurrentThread, for every finite set of tasks: it    *)
(* uses the idle tracking only through its operations, its thread-locals   *)
(* follow its calls, no task is lost silently, run returns only when every *)
(* counted task is over and sleeps only while one can go on, and the       *)
(* runtime implements CompatRuntime.                                       *)
(***************************************************************************)
EXTENDS CurrentThread, FiniteSetTheorems, TLAPS
-----------------------------------------------------------------------------
\* Every step of the runtime is a step of the idle tracking or leaves it alone.
LEMMA StepUsesIdle == [Next]_vars => [I!Next]_(I!vars)
<1> SUFFICES ASSUME [Next]_vars PROVE [I!Next]_(I!vars)
  OBVIOUS
<1> USE DEF I!Next, I!vars, idleVars
<1>1. CASE UNCHANGED vars
  BY <1>1 DEF vars
<1>2. CASE Calling
  BY <1>2 DEF Calling, CallEnter, EnterReturns, CallRun, IdleLoad, IdleRecv,
              DropRuntime
<1>3. ASSUME NEW t \in Tasks, Spawning(t) PROVE [I!Next]_(I!vars)
  <2>1. ASSUME NEW p \in Spawners, NEW h \in {"local", "basic"}, Reserve(p, t, h)
        PROVE  I!Reserve(t)
    BY <2>1 DEF Reserve
  <2>2. ASSUME NEW p \in Spawners, NEW h \in {"local", "basic"}, SpawnHandle(p, t, h)
        PROVE  UNCHANGED I!vars
    BY <2>2 DEF SpawnHandle
  <2>3. ASSUME BlockOn(t) PROVE I!Reserve(t)
    BY <2>3 DEF BlockOn
  <2>4. ASSUME Submit(t) PROVE I!Lose(t) \/ UNCHANGED I!vars
    BY <2>4 DEF Submit, LoseTrack
  <2>5. ASSUME Refuse(t) PROVE I!Lose(t)
    BY <2>5 DEF Refuse
  <2>6. QED
    BY <1>3, <2>1, <2>2, <2>3, <2>4, <2>5 DEF Spawning
<1>4. ASSUME NEW t \in Tasks, Running(t) PROVE [I!Next]_(I!vars)
  <2>1. ASSUME Poll(t) \/ Pending(t) \/ Finish(t) \/ EnterAgain(t)
        PROVE  UNCHANGED I!vars
    BY <2>1 DEF Poll, Pending, Finish, EnterAgain
  <2>2. ASSUME GiveBack(t) \/ GiveLastBack(t) PROVE I!Complete(t)
    BY <2>2 DEF GiveBack, GiveLastBack
  <2>3. ASSUME Notify(t) PROVE I!Send(t)
    BY <2>3 DEF Notify
  <2>4. ASSUME Panic(t) \/ Cancel(t) PROVE I!Lose(t) \/ UNCHANGED I!vars
    BY <2>4 DEF Panic, Cancel, LoseTrack
  <2>5. QED
    BY <1>4, <2>1, <2>2, <2>3, <2>4 DEF Running, Ending
<1>5. QED
  BY <1>1, <1>2, <1>3, <1>4 DEF Next

P == INSTANCE IdleProofs

\* The two vocabularies for the idle tracking, I and P, agree.
LEMMA SameIdle ==
  /\ I!Init <=> P!Init
  /\ [I!Next]_(I!vars) <=> [P!Next]_(P!vars)
  /\ I!TypeOK <=> P!TypeOK
  /\ I!CounterExact <=> P!CounterExact
  /\ I!NoLostWakeup <=> P!NoLostWakeup
<1>1. I!Init <=> P!Init
  BY DEF I!Init, P!Init
<1>2. [I!Next]_(I!vars) <=> [P!Next]_(P!vars)
  BY DEF I!Next, I!vars, P!Next, P!vars,
         I!Reserve, I!Complete, I!Send, I!Lose, I!CallIdle, I!Load, I!Recv,
         P!Reserve, P!Complete, P!Send, P!Lose, P!CallIdle, P!Load, P!Recv
<1>3. I!TypeOK <=> P!TypeOK
  BY DEF I!TypeOK, P!TypeOK, I!TrackState, P!TrackState, I!RxState, P!RxState
<1>4. I!CounterExact <=> P!CounterExact
  BY DEF I!CounterExact, P!CounterExact, I!Counted, P!Counted,
         I!Cardinality, P!Cardinality
<1>5. I!NoLostWakeup <=> P!NoLostWakeup
  BY DEF I!NoLostWakeup, P!NoLostWakeup
<1>6. QED
  BY <1>1, <1>2, <1>3, <1>4, <1>5

\* The counter of the current-thread runtime is exact, and run loses no wake-up, as
\* proved of idle.rs.
THEOREM IdleCorrectInRuntime ==
  Spec => [](I!TypeOK /\ I!CounterExact /\ I!NoLostWakeup)
<1>1. Spec => P!Spec
  <2>1. Init => P!Init
    BY SameIdle DEF Init
  <2>2. [Next]_vars => [P!Next]_(P!vars)
    BY SameIdle, StepUsesIdle
  <2>3. QED
    BY <2>1, <2>2, PTL DEF Spec, P!Spec
<1>2. P!IsFiniteSet(Tasks)
  BY TasksAssumption DEF IsFiniteSet, P!IsFiniteSet
<1>3. P!Spec => [](P!TypeOK /\ P!CounterExact /\ P!NoLostWakeup)
  BY <1>2, P!TypeCorrect, P!CounterCorrect, P!WakeupCorrect, PTL
<1>4. QED
  BY <1>1, <1>3, SameIdle, PTL
-----------------------------------------------------------------------------
\* The types of everything but the idle tracking.
CallTypes ==
  /\ call \in {"out", "enter", "block_on", "run"}
  /\ entered \in BOOLEAN /\ current \in BOOLEAN /\ alive \in BOOLEAN
  /\ task \in [Tasks -> {"new", "reserved", "queued", "polled", "unwinding",
                         "done", "panicked", "cancelled", "refused"}]
  /\ home \in [Tasks -> Homes \union {None}]
  /\ by \in [Tasks -> Spawners \union {None}]
  /\ on \in Tasks \union {None}

\* Main polls one task at a time, inside a call; a call keeps the Runtime, and run
\* is in Rx::idle.
OnePolled ==
  /\ \A t \in Tasks : task[t] \in {"polled", "unwinding"} <=> on = t
  /\ on # None => call \in {"block_on", "run"}
  /\ call # "out" => alive
  /\ call = "run" => rx # "out"

\* The future of block_on is there only during that block_on.
RootInCall ==
  \A t \in Tasks :
    home[t] = "root" /\ task[t] \in {"queued", "polled", "unwinding"} =>
      /\ call = "block_on"
      /\ \A u \in Tasks :
           home[u] = "root" /\ task[u] \in {"queued", "polled", "unwinding"} =>
             u = t

\* Between reserve() and the spawn the spawner does nothing else.
SpawnerWaits ==
  \A t \in Tasks : task[t] = "reserved" =>
    /\ by[t] \in Spawners
    /\ by[t] \in Tasks =>
         on = by[t] /\ task[by[t]] = "polled" /\ track[by[t]] # "notify"
    /\ by[t] = Main => call \in {"out", "enter"}
    /\ home[t] # "root"
    /\ \A u \in Tasks : task[u] = "reserved" /\ by[u] = by[t] => u = t

\* The Track of a new task is new, with() notifies while its task is polled, and
\* once it has returned the task is over.
TracksFollow ==
  \A t \in Tasks :
    /\ task[t] = "new" => track[t] = "new"
    /\ track[t] = "notify" => task[t] = "polled"
    /\ track[t] = "done" => task[t] = "done"

\* The thread-locals of Main are set exactly while it is in a call.
LocalsFollowCalls == entered = (call # "out") /\ current = (call # "out")

\* Only a Runtime that was dropped has cancelled a task.
TasksSurviveCalls == \A t \in Tasks : task[t] = "cancelled" => ~alive

CallInv ==
  /\ CallTypes /\ LocalsFollowCalls
  /\ OnePolled /\ RootInCall /\ SpawnerWaits /\ TracksFollow
  /\ TasksSurviveCalls /\ ReservationsHaveTasks

\* A new Runtime is in no call and has no tasks.
LEMMA InitCallInv == Init => CallInv
BY DistinctActors
DEF Init, I!Init, CallInv, CallTypes, LocalsFollowCalls, OnePolled, RootInCall,
    SpawnerWaits, TracksFollow, TasksSurviveCalls, ReservationsHaveTasks

\* Calls begin and end with no task in the hands of Main.
LEMMA CallingCallInv ==
  ASSUME CallInv, I!TypeOK, Calling
  PROVE  CallInv'
<1> USE DEF CallInv, CallTypes, LocalsFollowCalls, OnePolled, RootInCall,
            SpawnerWaits, TracksFollow, TasksSurviveCalls, ReservationsHaveTasks,
            idleVars, callVars, taskVars, Free
<1>1. ASSUME CallEnter PROVE CallInv'
  <2>1. CallTypes' /\ LocalsFollowCalls' /\ OnePolled'
    BY <1>1 DEF CallEnter, Enter, AtRest
  <2>2. RootInCall'
    BY <1>1 DEF CallEnter, Enter, AtRest
  <2>3. SpawnerWaits'
    BY <1>1 DEF CallEnter, Enter, AtRest
  <2>4. TracksFollow' /\ TasksSurviveCalls' /\ ReservationsHaveTasks'
    BY <1>1 DEF CallEnter, Enter, AtRest
  <2>5. QED
    BY <2>1, <2>2, <2>3, <2>4
<1>2. ASSUME EnterReturns PROVE CallInv'
  <2>1. CallTypes' /\ LocalsFollowCalls' /\ OnePolled'
    BY <1>2 DEF EnterReturns, Leave
  <2>2. RootInCall'
    BY <1>2 DEF EnterReturns, Leave
  <2>3. SpawnerWaits'
    BY <1>2 DEF EnterReturns, Leave
  <2>4. TracksFollow' /\ TasksSurviveCalls' /\ ReservationsHaveTasks'
    BY <1>2 DEF EnterReturns, Leave
  <2>5. QED
    BY <2>1, <2>2, <2>3, <2>4
<1>3. ASSUME CallRun PROVE CallInv'
  <2>1. CallTypes' /\ LocalsFollowCalls' /\ OnePolled'
    BY <1>3 DEF CallRun, Enter, AtRest, I!CallIdle
  <2>2. RootInCall'
    BY <1>3 DEF CallRun, Enter, AtRest, I!CallIdle
  <2>3. SpawnerWaits'
    BY <1>3 DEF CallRun, Enter, AtRest, I!CallIdle
  <2>4. TracksFollow' /\ TasksSurviveCalls' /\ ReservationsHaveTasks'
    BY <1>3 DEF CallRun, Enter, AtRest, I!CallIdle
  <2>5. QED
    BY <2>1, <2>2, <2>3, <2>4
<1>4. ASSUME IdleLoad PROVE CallInv'
  <2>1. CallTypes' /\ LocalsFollowCalls' /\ OnePolled'
    BY <1>4 DEF IdleLoad, Leave, I!Load
  <2>2. RootInCall'
    BY <1>4 DEF IdleLoad, Leave, I!Load
  <2>3. SpawnerWaits'
    BY <1>4 DEF IdleLoad, Leave, I!Load
  <2>4. TracksFollow' /\ TasksSurviveCalls' /\ ReservationsHaveTasks'
    BY <1>4 DEF IdleLoad, Leave, I!Load
  <2>5. QED
    BY <2>1, <2>2, <2>3, <2>4
<1>5. ASSUME IdleRecv PROVE CallInv'
  <2>1. CallTypes' /\ LocalsFollowCalls' /\ OnePolled'
    BY <1>5 DEF IdleRecv, I!Recv
  <2>2. RootInCall'
    BY <1>5 DEF IdleRecv, I!Recv
  <2>3. SpawnerWaits'
    BY <1>5 DEF IdleRecv, I!Recv
  <2>4. TracksFollow' /\ TasksSurviveCalls' /\ ReservationsHaveTasks'
    BY <1>5 DEF IdleRecv, I!Recv
  <2>5. QED
    BY <2>1, <2>2, <2>3, <2>4
<1>6. ASSUME DropRuntime PROVE CallInv'
  <2>1. CallTypes' /\ LocalsFollowCalls' /\ OnePolled'
    BY <1>6 DEF DropRuntime, AtRest
  <2>2. RootInCall'
    BY <1>6 DEF DropRuntime, AtRest
  <2>3. SpawnerWaits'
    BY <1>6 DEF DropRuntime, AtRest
  <2>4. TracksFollow' /\ TasksSurviveCalls' /\ ReservationsHaveTasks'
    BY <1>6 DEF DropRuntime, AtRest
  <2>5. QED
    BY <2>1, <2>2, <2>3, <2>4
<1>7. QED
  BY <1>1, <1>2, <1>3, <1>4, <1>5, <1>6 DEF Calling

\* Spawning, and its refusal by spawn_local.
LEMMA SpawningCallInv ==
  ASSUME CallInv, I!TypeOK, NEW t \in Tasks, Spawning(t)
  PROVE  CallInv'
<1> USE DistinctActors
    DEF CallInv, CallTypes, LocalsFollowCalls, OnePolled, RootInCall,
        SpawnerWaits, TracksFollow, TasksSurviveCalls, ReservationsHaveTasks,
        idleVars, callVars, taskVars, Free, Homes, I!TypeOK
<1>1. ASSUME NEW p \in Spawners, NEW h \in {"local", "basic"}, Reserve(p, t, h)
      PROVE  CallInv'
  BY <1>1 DEF Reserve, MaySpawn, I!Reserve
<1>2. ASSUME NEW p \in Spawners, NEW h \in {"local", "basic"}, SpawnHandle(p, t, h)
      PROVE  CallInv'
  <2>1. CallTypes' /\ LocalsFollowCalls'
    BY <1>2 DEF SpawnHandle, MaySpawn, InLocalSet, Refused, Leave
  <2>2. OnePolled'
    BY <1>2 DEF SpawnHandle, MaySpawn, InLocalSet, Refused, Leave
  <2>3. RootInCall'
    BY <1>2 DEF SpawnHandle, MaySpawn, InLocalSet, Refused, Leave
  <2>4. SpawnerWaits'
    BY <1>2 DEF SpawnHandle, MaySpawn, InLocalSet, Refused, Leave
  <2>5. TracksFollow' /\ TasksSurviveCalls' /\ ReservationsHaveTasks'
    BY <1>2 DEF SpawnHandle, MaySpawn, InLocalSet, Refused, Leave
  <2>6. QED
    BY <2>1, <2>2, <2>3, <2>4, <2>5
<1>3. ASSUME BlockOn(t) PROVE CallInv'
  <2>1. CallTypes' /\ LocalsFollowCalls' /\ OnePolled'
    BY <1>3 DEF BlockOn, Enter, AtRest, I!Reserve, Spawners
  <2>2. RootInCall'
    BY <1>3 DEF BlockOn, Enter, AtRest, I!Reserve, Spawners
  <2>3. SpawnerWaits'
    BY <1>3 DEF BlockOn, Enter, AtRest, I!Reserve, Spawners
  <2>4. TracksFollow' /\ TasksSurviveCalls' /\ ReservationsHaveTasks'
    BY <1>3 DEF BlockOn, Enter, AtRest, I!Reserve, Spawners
  <2>5. QED
    BY <2>1, <2>2, <2>3, <2>4
<1>4. ASSUME Submit(t) PROVE CallInv'
  BY <1>4 DEF Submit, LoseTrack, I!Lose
<1>5. ASSUME Refuse(t) PROVE CallInv'
  <2>1. CallTypes' /\ LocalsFollowCalls'
    BY <1>5 DEF Refuse, Refused, InLocalSet, Leave, I!Lose
  <2>2. OnePolled'
    BY <1>5 DEF Refuse, Refused, InLocalSet, Leave, I!Lose
  <2>3. RootInCall'
    BY <1>5 DEF Refuse, Refused, InLocalSet, Leave, I!Lose
  <2>4. SpawnerWaits'
    BY <1>5 DEF Refuse, Refused, InLocalSet, Leave, I!Lose
  <2>5. TracksFollow' /\ TasksSurviveCalls' /\ ReservationsHaveTasks'
    BY <1>5 DEF Refuse, Refused, InLocalSet, Leave, I!Lose
  <2>6. QED
    BY <2>1, <2>2, <2>3, <2>4, <2>5
<1>6. QED
  BY <1>1, <1>2, <1>3, <1>4, <1>5 DEF Spawning

\* Polling and what may come of it.
LEMMA RunningCallInv ==
  ASSUME CallInv, I!TypeOK, NEW t \in Tasks, Running(t)
  PROVE  CallInv'
<1> USE DistinctActors
    DEF CallInv, CallTypes, LocalsFollowCalls, OnePolled, RootInCall,
        SpawnerWaits, TracksFollow, TasksSurviveCalls, ReservationsHaveTasks,
        idleVars, callVars, taskVars, Free, I!TypeOK
<1>1. ASSUME Poll(t) PROVE CallInv'
  BY <1>1 DEF Poll
<1>2. ASSUME Pending(t) PROVE CallInv'
  BY <1>2 DEF Pending, Leaves
<1>3. ASSUME Finish(t) PROVE CallInv'
  <2>1. CallTypes' /\ LocalsFollowCalls' /\ OnePolled'
    BY <1>3 DEF Finish, Leaves
  <2>2. RootInCall'
    BY <1>3 DEF Finish, Leaves
  <2>3. SpawnerWaits'
    BY <1>3 DEF Finish, Leaves
  <2>4. TracksFollow' /\ TasksSurviveCalls' /\ ReservationsHaveTasks'
    BY <1>3 DEF Finish, Leaves
  <2>5. QED
    BY <2>1, <2>2, <2>3, <2>4
<1>4. ASSUME GiveBack(t) PROVE CallInv'
  <2>1. CallTypes' /\ LocalsFollowCalls' /\ OnePolled'
    BY <1>4 DEF GiveBack, Leaves, EndOfCall, Leave, I!Complete
  <2>2. RootInCall'
    BY <1>4 DEF GiveBack, Leaves, EndOfCall, Leave, I!Complete
  <2>3. SpawnerWaits'
    BY <1>4 DEF GiveBack, Leaves, EndOfCall, Leave, I!Complete
  <2>4. TracksFollow' /\ TasksSurviveCalls' /\ ReservationsHaveTasks'
    BY <1>4 DEF GiveBack, Leaves, EndOfCall, Leave, I!Complete
  <2>5. QED
    BY <2>1, <2>2, <2>3, <2>4
<1>5. ASSUME GiveLastBack(t) PROVE CallInv'
  BY <1>5 DEF GiveLastBack, I!Complete
<1>6. ASSUME Notify(t) PROVE CallInv'
  <2>1. CallTypes' /\ LocalsFollowCalls' /\ OnePolled'
    BY <1>6 DEF Notify, Leaves, EndOfCall, Leave, I!Send
  <2>2. RootInCall'
    BY <1>6 DEF Notify, Leaves, EndOfCall, Leave, I!Send
  <2>3. SpawnerWaits'
    BY <1>6 DEF Notify, Leaves, EndOfCall, Leave, I!Send
  <2>4. TracksFollow' /\ TasksSurviveCalls' /\ ReservationsHaveTasks'
    BY <1>6 DEF Notify, Leaves, EndOfCall, Leave, I!Send
  <2>5. QED
    BY <2>1, <2>2, <2>3, <2>4
<1>7. ASSUME EnterAgain(t) PROVE CallInv'
  <2>1. CallTypes' /\ LocalsFollowCalls' /\ OnePolled'
    BY <1>7 DEF EnterAgain
  <2>2. RootInCall'
    BY <1>7 DEF EnterAgain
  <2>3. SpawnerWaits'
    BY <1>7 DEF EnterAgain
  <2>4. TracksFollow' /\ TasksSurviveCalls' /\ ReservationsHaveTasks'
    BY <1>7 DEF EnterAgain
  <2>5. QED
    BY <2>1, <2>2, <2>3, <2>4
<1>8. ASSUME Panic(t) PROVE CallInv'
  <2>1. CallTypes' /\ LocalsFollowCalls' /\ OnePolled'
    BY <1>8 DEF Panic, Leaves, LoseTrack, EndOfCall, Leave, I!Lose
  <2>2. RootInCall'
    BY <1>8 DEF Panic, Leaves, LoseTrack, EndOfCall, Leave, I!Lose
  <2>3. SpawnerWaits'
    BY <1>8 DEF Panic, Leaves, LoseTrack, EndOfCall, Leave, I!Lose
  <2>4. TracksFollow' /\ TasksSurviveCalls' /\ ReservationsHaveTasks'
    BY <1>8 DEF Panic, Leaves, LoseTrack, EndOfCall, Leave, I!Lose
  <2>5. QED
    BY <2>1, <2>2, <2>3, <2>4
<1>9. ASSUME Cancel(t) PROVE CallInv'
  BY <1>9 DEF Cancel, LoseTrack, I!Lose
<1>10. QED
  BY <1>1, <1>2, <1>3, <1>4, <1>5, <1>6, <1>7, <1>8, <1>9 DEF Running, Ending

\* In every state the calls, the tasks and their Tracks are as CallInv says.
THEOREM CallInvCorrect == Spec => []CallInv
<1>1. CallInv /\ I!TypeOK /\ [Next]_vars => CallInv'
  <2> SUFFICES ASSUME CallInv, I!TypeOK, [Next]_vars PROVE CallInv'
    OBVIOUS
  <2>1. CASE UNCHANGED vars
    BY <2>1 DEF vars, idleVars, callVars, taskVars, CallInv, CallTypes,
                LocalsFollowCalls, OnePolled, RootInCall, SpawnerWaits, TracksFollow,
                TasksSurviveCalls, ReservationsHaveTasks
  <2>2. QED
    BY <2>1, CallingCallInv, SpawningCallInv, RunningCallInv DEF Next
<1>2. Spec => []I!TypeOK
  BY IdleCorrectInRuntime, PTL
<1>3. QED
  BY <1>1, <1>2, InitCallInv, PTL DEF Spec

\* No value of the program leaves its type.
THEOREM TypeCorrect == Spec => []TypeOK
<1>1. CallInv /\ I!TypeOK => TypeOK
  BY DEF CallInv, CallTypes, TypeOK
<1>2. QED
  BY <1>1, CallInvCorrect, IdleCorrectInRuntime, PTL

\* While the Runtime lives, a reservation that is outstanding has a future that
\* will give it back, or the program saw a panic.
THEOREM ReservationsCorrect == Spec => []ReservationsHaveTasks
<1>1. CallInv => ReservationsHaveTasks
  BY DEF CallInv
<1>2. QED
  BY <1>1, CallInvCorrect, PTL

\* When the counter is zero no reservation is outstanding.
LEMMA ZeroIsIdle ==
  ASSUME I!CounterExact, spawned = 0
  PROVE  \A t \in Tasks : track[t] \notin {"running", "lost"}
<1>1. I!Counted \subseteq Tasks
  BY DEF I!Counted
<1>2. IsFiniteSet(I!Counted)
  BY <1>1, TasksAssumption, FS_Subset
<1>3. Cardinality(I!Counted) = 0
  BY DEF I!CounterExact, I!Cardinality, Cardinality
<1>4. I!Counted = {}
  BY <1>2, <1>3, FS_EmptySet
<1>5. QED
  BY <1>4 DEF I!Counted

\* The only way out of run() is idle() reading zero.
LEMMA RunLeft ==
  ASSUME CallInv, Next, call = "run", call' = "out"
  PROVE  IdleLoad /\ spawned = 0
<1> USE DEF callVars
<1>1. CASE Calling
  BY <1>1 DEF Calling, CallEnter, Enter, AtRest, EnterReturns, CallRun, IdleLoad,
              IdleRecv, DropRuntime, I!Load
<1>2. ASSUME NEW t \in Tasks, Spawning(t) PROVE FALSE
  <2>1. ASSUME NEW p \in Spawners, NEW h \in {"local", "basic"},
               Reserve(p, t, h) \/ SpawnHandle(p, t, h)
        PROVE  FALSE
    BY <2>1, DistinctActors DEF Reserve, SpawnHandle, MaySpawn, Refused
  <2>2. ASSUME BlockOn(t) \/ Submit(t) PROVE FALSE
    BY <2>2 DEF BlockOn, Enter, AtRest, Submit
  <2>3. ASSUME Refuse(t) PROVE FALSE
    BY <2>3 DEF Refuse, Refused, CallInv, SpawnerWaits
  <2>4. QED
    BY <1>2, <2>1, <2>2, <2>3 DEF Spawning
<1>3. ASSUME NEW t \in Tasks, Running(t) PROVE FALSE
  <2>1. ASSUME EndOfCall(t), task[t] \in {"polled", "unwinding"} PROVE FALSE
    BY <2>1 DEF EndOfCall, CallInv, RootInCall
  <2>2. ASSUME GiveBack(t) \/ Panic(t) PROVE FALSE
    BY <2>1, <2>2 DEF GiveBack, Panic
  <2>3. ASSUME Notify(t) PROVE FALSE
    BY <2>1, <2>3 DEF Notify, I!Send, CallInv, TracksFollow
  <2>4. QED
    BY <1>3, <2>2, <2>3
    DEF Running, Poll, Pending, Ending, Finish, GiveLastBack, EnterAgain, Cancel
<1>4. QED
  BY <1>1, <1>2, <1>3 DEF Next

\* From run Main goes nowhere but out.
LEMMA RunOrOut ==
  ASSUME [Next]_vars, call = "run"
  PROVE  call' \in {"run", "out"}
<1> USE DEF callVars
<1>1. ASSUME Leave \/ UNCHANGED callVars PROVE call' \in {"run", "out"}
  BY <1>1 DEF Leave
<1>2. CASE Calling
  BY <1>1, <1>2 DEF Calling, CallEnter, Enter, AtRest, EnterReturns, CallRun, IdleLoad,
                    IdleRecv, DropRuntime
<1>3. ASSUME NEW t \in Tasks, Spawning(t) PROVE call' \in {"run", "out"}
  BY <1>1, <1>3 DEF Spawning, Reserve, SpawnHandle, BlockOn, Enter, AtRest, Submit, Refuse,
                    Refused
<1>4. ASSUME NEW t \in Tasks, Running(t) PROVE call' \in {"run", "out"}
  BY <1>1, <1>4 DEF Running, Poll, Pending, Ending, Finish, GiveBack, GiveLastBack, Panic,
                    Notify, EnterAgain, Cancel, EndOfCall
<1>5. QED
  BY <1>1, <1>2, <1>3, <1>4 DEF Next, vars

\* run() returns only when every counted task is over, whoever spawned it.
THEOREM RunCorrect == Spec => RunFinishesTasks
<1> DEFINE Finished ==
      call = "run" /\ call' = "out" => \A t \in Tasks : track[t] \in {"new", "done"}
<1>1. CallInv /\ I!TypeOK /\ I!CounterExact /\ [Next]_vars => [Finished]_vars
  <2> SUFFICES ASSUME CallInv, I!TypeOK, I!CounterExact, Next, call = "run", call' = "out"
               PROVE  Finished
    BY DEF vars, callVars
  <2>1. IdleLoad /\ spawned = 0
    BY RunLeft
  <2>2. \A t \in Tasks : track[t] \notin {"running", "lost"}
    BY <2>1, ZeroIsIdle
  <2>3. \A t \in Tasks : track[t] # "notify"
    BY <2>1, DistinctActors DEF IdleLoad, CallInv, OnePolled, TracksFollow
  <2>4. QED
    BY <2>2, <2>3 DEF I!TypeOK, I!TrackState
<1>2. QED
  BY <1>1, CallInvCorrect, IdleCorrectInRuntime, PTL DEF Spec, RunFinishesTasks

\* The converse of RunEnds: once a counted task was lost, run does not return.
THEOREM LostTaskHangs ==
  ASSUME NEW t \in Tasks
  PROVE  Spec => [](track[t] = "lost" /\ call = "run" => [](call = "run"))
<1> DEFINE Hung == track[t] = "lost" /\ call = "run"
<1>1. CallInv /\ I!TypeOK /\ I!CounterExact /\ Hung /\ [Next]_vars => Hung'
  <2> SUFFICES ASSUME CallInv, I!TypeOK, I!CounterExact, Hung, [Next]_vars PROVE Hung'
    OBVIOUS
  <2>1. [I!Next]_(I!vars)
    BY StepUsesIdle
  <2>2. track'[t] = "lost"
    BY <2>1 DEF I!TypeOK, I!Next, I!vars, I!Reserve, I!Complete, I!Send, I!Lose,
                I!CallIdle, I!Load, I!Recv
  <2>3. call' = "run"
    <3>1. ASSUME call' = "out" PROVE FALSE
      <4>1. spawned = 0
        BY <3>1, RunLeft DEF vars, callVars
      <4>2. QED
        BY <4>1, ZeroIsIdle
    <3>2. call' \in {"run", "out"}
      BY RunOrOut
    <3>3. QED
      BY <3>1, <3>2
  <2>4. QED
    BY <2>2, <2>3
<1>2. Hung => call = "run"
  OBVIOUS
<1> HIDE DEF Hung
<1>3. Spec => [](Hung => [](call = "run"))
  BY <1>1, <1>2, CallInvCorrect, IdleCorrectInRuntime, PTL DEF Spec
<1>4. QED
  BY <1>3 DEF Hung

\* When the counter is not zero a reservation is outstanding.
LEMMA BusyHasTask ==
  ASSUME I!CounterExact, spawned # 0
  PROVE  \E t \in Tasks : track[t] \in {"running", "lost"}
<1> SUFFICES ASSUME \A t \in Tasks : track[t] \notin {"running", "lost"} PROVE FALSE
  OBVIOUS
<1>1. I!Counted = {}
  BY DEF I!Counted
<1>2. Cardinality({}) = 0
  BY FS_EmptySet
<1>3. QED
  BY <1>1, <1>2 DEF I!CounterExact, I!Cardinality, Cardinality

\* run sleeps in recv() only while Main has a counted task to poll, or a spawner is
\* about to submit one, unless one was lost: not even a future that an earlier
\* block_on left behind can keep it waiting.
THEOREM WaitsAnsweredCorrect == Spec => []WaitsAreAnswered
<1>1. CallInv /\ I!TypeOK /\ I!CounterExact /\ I!NoLostWakeup => WaitsAreAnswered
  <2> SUFFICES ASSUME CallInv, I!TypeOK, I!CounterExact, I!NoLostWakeup, call = "run"
               PROVE  /\ rx # "out"
                      /\ rx = "recv" /\ queue = 0 =>
                           \E t \in Tasks :
                             \/ track[t] = "lost"
                             \/ /\ track[t] \in {"running", "notify"}
                                /\ home[t] # "root"
                                /\ \/ task[t] = "queued" \/ on = t
                                   \/ task[t] = "reserved" /\ by[t] \in {Ext, on}
    BY DEF WaitsAreAnswered
  <2> USE DEF CallInv
  <2>1. rx # "out"
    BY DEF OnePolled
  <2>2. ASSUME rx = "recv", queue = 0
        PROVE  \E t \in Tasks : track[t] \in {"running", "lost", "notify"}
    <3>1. CASE spawned = 0
      BY <2>2, <3>1 DEF I!NoLostWakeup, I!TypeOK
    <3>2. CASE spawned # 0
      BY <3>2, BusyHasTask
    <3>3. QED
      BY <3>1, <3>2
  <2>3. ASSUME NEW t \in Tasks, track[t] \in {"running", "notify"}
        PROVE  /\ home[t] # "root"
               /\ \/ task[t] = "queued" \/ on = t
                  \/ task[t] = "reserved" /\ by[t] \in {Ext, on}
    <3>1. task[t] \in {"reserved", "queued", "polled", "unwinding"}
      BY <2>3 DEF OnePolled, ReservationsHaveTasks, TracksFollow
    <3>2. CASE task[t] = "reserved"
      BY <3>2 DEF SpawnerWaits, Spawners
    <3>3. CASE task[t] # "reserved"
      BY <3>1, <3>3 DEF OnePolled, RootInCall
    <3>4. QED
      BY <3>2, <3>3
  <2>4. QED
    BY <2>1, <2>2, <2>3
<1>2. QED
  BY <1>1, CallInvCorrect, IdleCorrectInRuntime, PTL
-----------------------------------------------------------------------------
\* The state of CompatRuntime depends on the tasks, their Tracks and the call.
LEMMA SamePromise ==
  ASSUME UNCHANGED <<task, track>>, Phase' = Phase
  PROVE  UNCHANGED Promise!vars
BY DEF Promise!vars, Begun, Given, Ran, Failed, Dropped

\* Calls begin, wait for and drop no task; the end of run is the return from
\* the wait.
LEMMA CallingKeepsPromise ==
  ASSUME CallInv, I!TypeOK, I!CounterExact, Calling
  PROVE  [Promise!Next]_(Promise!vars)
<1> USE DEF CallInv, CallTypes, idleVars, callVars, taskVars
<1>t. ASSUME UNCHANGED <<task, track>>
      PROVE  UNCHANGED <<Begun, Given, Ran, Failed, Dropped>>
  BY <1>t DEF Begun, Given, Ran, Failed, Dropped
<1>1. CASE CallEnter \/ EnterReturns
  BY <1>1, SamePromise DEF CallEnter, EnterReturns, Enter, Leave, AtRest, Phase
<1>2. CASE CallRun
  BY <1>2, <1>t
  DEF CallRun, Enter, AtRest, I!CallIdle, Phase, Promise!Next, Promise!Wait
<1>3. CASE IdleLoad
  <2>1. CASE spawned = 0
    <3>1. UNCHANGED <<task, track>> /\ Phase = "waiting" /\ Phase' = "open"
      BY <1>3, <2>1 DEF IdleLoad, I!Load, Leave, OnePolled, Phase
    <3>2. Given \subseteq Ran
      BY <2>1, ZeroIsIdle DEF I!TypeOK, I!TrackState, Given, Ran
    <3>3. QED
      BY <3>1, <3>2, <1>t DEF Promise!Next, Promise!Return
  <2>2. CASE spawned # 0
    BY <1>3, <2>2, SamePromise DEF IdleLoad, I!Load, Phase
  <2>3. QED
    BY <2>1, <2>2
<1>4. CASE IdleRecv
  BY <1>4, SamePromise DEF IdleRecv, I!Recv, Phase
<1>5. CASE DropRuntime
  BY <1>5, <1>t DEF DropRuntime, AtRest, Phase, Promise!Next, Promise!End
<1>6. QED
  BY <1>1, <1>2, <1>3, <1>4, <1>5 DEF Calling

\* Spawning begins a task, and loses it if spawn_local refuses it.
LEMMA SpawningKeepsPromise ==
  ASSUME CallInv, I!TypeOK, NEW t \in Tasks, Spawning(t)
  PROVE  [Promise!Next]_(Promise!vars)
<1> USE DistinctActors
    DEF CallInv, CallTypes, TracksFollow, I!TypeOK, idleVars, callVars, taskVars
<1>1. ASSUME NEW p \in Spawners, NEW h \in {"local", "basic"}, Reserve(p, t, h)
      PROVE  Promise!Begin(t)
  <2>1. UNCHANGED Phase /\ t \notin Begun /\ Begun' = Begun \union {t}
    BY <1>1 DEF Reserve, Phase, Begun
  <2>2. Given' = Given \union {t} /\ UNCHANGED <<Ran, Failed, Dropped>>
    BY <1>1 DEF Reserve, I!Reserve, Given, Ran, Failed, Dropped
  <2>3. QED
    BY <2>1, <2>2 DEF Promise!Begin
<1>2. ASSUME BlockOn(t) PROVE Promise!Begin(t)
  <2>1. UNCHANGED Phase /\ t \notin Begun /\ Begun' = Begun \union {t}
    BY <1>2 DEF BlockOn, Enter, AtRest, Phase, Begun
  <2>2. Given' = Given \union {t} /\ UNCHANGED <<Ran, Failed, Dropped>>
    BY <1>2 DEF BlockOn, I!Reserve, Given, Ran, Failed, Dropped
  <2>3. QED
    BY <2>1, <2>2 DEF Promise!Begin
<1>3. ASSUME NEW p \in Spawners, NEW h \in {"local", "basic"}, SpawnHandle(p, t, h)
      PROVE  Promise!Begin(t)
  <2>1. t \notin Begun /\ Given' = Given
    BY <1>3 DEF SpawnHandle, Begun, Given
  <2>2. CASE h = "local" /\ ~InLocalSet(p)
    <3>1. alive /\ UNCHANGED Phase
      BY <1>3, <2>2
      DEF SpawnHandle, MaySpawn, Refused, Leave, OnePolled, Spawners, Phase
    <3>2. Begun' = Begun \union {t} /\ Failed' = Failed \union {t}
      BY <1>3, <2>2 DEF SpawnHandle, MaySpawn, Refused, Begun, Failed
    <3>3. UNCHANGED <<Ran, Dropped>>
      BY <1>3, <2>2 DEF SpawnHandle, MaySpawn, Refused, Ran, Dropped
    <3>4. QED
      BY <2>1, <3>1, <3>2, <3>3 DEF Promise!Begin, Phase
  <2>3. CASE ~(h = "local" /\ ~InLocalSet(p))
    <3>1. UNCHANGED Phase /\ Begun' = Begun \union {t} /\ UNCHANGED <<Ran, Failed>>
      BY <1>3, <2>3 DEF SpawnHandle, Phase, Begun, Ran, Failed
    <3>2. UNCHANGED Dropped \/ (Phase = "over" /\ Dropped' = Dropped \union {t})
      BY <1>3, <2>3 DEF SpawnHandle, Phase, Dropped
    <3>3. QED
      BY <2>1, <3>1, <3>2 DEF Promise!Begin
  <2>4. QED
    BY <2>2, <2>3
<1>4. ASSUME Submit(t) PROVE UNCHANGED Promise!vars \/ Promise!Cancel(t)
  <2>1. UNCHANGED <<Phase, Begun, Given>>
    BY <1>4 DEF Submit, LoseTrack, I!Lose, Phase, Begun, Given
  <2>2. UNCHANGED <<Ran, Failed>> /\ t \in Promise!Live
    BY <1>4 DEF Submit, LoseTrack, I!Lose, Ran, Failed, Promise!Live, Begun, Dropped
  <2>3. UNCHANGED Dropped \/ (Phase = "over" /\ Dropped' = Dropped \union {t})
    BY <1>4 DEF Submit, LoseTrack, I!Lose, Dropped, Phase
  <2>4. QED
    BY <2>1, <2>2, <2>3 DEF Promise!Cancel, Promise!vars
<1>5. ASSUME Refuse(t) PROVE Promise!Fail(t)
  <2>1. alive /\ UNCHANGED Phase
    BY <1>5 DEF Refuse, Refused, Leave, InLocalSet, OnePolled, SpawnerWaits, Phase
  <2>2. UNCHANGED <<Begun, Given>> /\ Failed' = Failed \union {t}
    BY <1>5 DEF Refuse, Refused, I!Lose, SpawnerWaits, Begun, Given, Failed
  <2>3. UNCHANGED <<Ran, Dropped>> /\ t \in Promise!Live
    BY <1>5 DEF Refuse, Refused, I!Lose, SpawnerWaits, Ran, Dropped, Begun, Failed,
                Promise!Live
  <2>4. QED
    BY <2>1, <2>2, <2>3 DEF Promise!Fail, Phase
<1>6. QED
  BY <1>1, <1>2, <1>3, <1>4, <1>5 DEF Spawning, Promise!Next

\* A task ends in one way only, and runs only while the Runtime lives.
LEMMA RunningKeepsPromise ==
  ASSUME CallInv, I!TypeOK, NEW t \in Tasks, Running(t)
  PROVE  [Promise!Next]_(Promise!vars)
<1> USE DEF CallInv, CallTypes, TracksFollow, OnePolled, RootInCall, I!TypeOK,
            idleVars, callVars, taskVars
<1>o. ASSUME task[t] \in {"polled", "unwinding"} PROVE Phase # "over"
  BY <1>o, DistinctActors DEF Phase
<1>c. ASSUME task[t] \in {"polled", "unwinding"}, EndOfCall(t), UNCHANGED alive
      PROVE  Phase' = Phase
  BY <1>c DEF EndOfCall, Leave, Phase
<1>1. ASSUME Poll(t) \/ Pending(t) \/ EnterAgain(t) PROVE UNCHANGED Promise!vars
  BY <1>1 DEF Poll, Pending, EnterAgain, Leaves, Promise!vars, Phase, Begun, Given, Ran,
              Failed, Dropped
<1>2. ASSUME Finish(t) \/ GiveBack(t) \/ GiveLastBack(t) PROVE Promise!Run(t)
  <2>1. task[t] = "polled" /\ track[t] \in {"new", "running"}
    BY <1>2 DEF Finish, GiveBack, GiveLastBack, I!Complete
  <2>2. t \in Promise!Live
    BY <2>1 DEF Promise!Live, Begun, Ran, Failed, Dropped
  <2>3. UNCHANGED Phase
    BY <1>2, <1>c DEF Finish, GiveBack, GiveLastBack, Leaves, Phase
  <2>4. UNCHANGED <<Begun, Given, Failed, Dropped>>
    BY <1>2 DEF Finish, GiveBack, GiveLastBack, Leaves, I!Complete, Begun, Given,
                Failed, Dropped
  <2>5. Ran' = Ran \union {t}
    BY <1>2 DEF Finish, GiveBack, GiveLastBack, Leaves, I!Complete, Ran
  <2>6. QED
    BY <1>o, <2>1, <2>2, <2>3, <2>4, <2>5 DEF Promise!Run
<1>3. ASSUME Notify(t) PROVE UNCHANGED Promise!vars
  <2>1. task[t] = "polled" /\ UNCHANGED Phase
    BY <1>3, <1>c DEF Notify, Leaves, I!Send
  <2>2. UNCHANGED <<Begun, Given>>
    BY <1>3, <2>1 DEF Notify, Leaves, I!Send, Begun, Given
  <2>3. UNCHANGED <<Ran, Failed, Dropped>>
    BY <1>3, <2>1 DEF Notify, Leaves, I!Send, Ran, Failed, Dropped
  <2>4. QED
    BY <2>1, <2>2, <2>3 DEF Promise!vars
<1>4. ASSUME Panic(t) PROVE Promise!Fail(t)
  <2>1. t \in Promise!Live
    BY <1>4 DEF Panic, Promise!Live, Begun, Ran, Failed, Dropped
  <2>2. UNCHANGED Phase
    BY <1>4, <1>c DEF Panic, Leaves
  <2>3. UNCHANGED <<Begun, Given>>
    BY <1>4 DEF Panic, Leaves, LoseTrack, I!Lose, Begun, Given
  <2>4. UNCHANGED <<Ran, Dropped>> /\ Failed' = Failed \union {t}
    BY <1>4 DEF Panic, Leaves, LoseTrack, I!Lose, Ran, Failed, Dropped
  <2>5. QED
    BY <1>o, <1>4, <2>1, <2>2, <2>3, <2>4 DEF Promise!Fail, Panic
<1>5. ASSUME Cancel(t) PROVE Promise!Cancel(t)
  <2>1. UNCHANGED <<Phase, Begun, Given>> /\ Phase = "over"
    BY <1>5 DEF Cancel, LoseTrack, I!Lose, Phase, Begun, Given
  <2>2. UNCHANGED <<Ran, Failed>> /\ t \in Promise!Live
    BY <1>5 DEF Cancel, LoseTrack, I!Lose, Ran, Failed, Promise!Live, Begun, Dropped
  <2>3. Dropped' = Dropped \union {t}
    BY <1>5 DEF Cancel, LoseTrack, I!Lose, Dropped
  <2>4. QED
    BY <2>1, <2>2, <2>3 DEF Promise!Cancel
<1>6. QED
  BY <1>1, <1>2, <1>3, <1>4, <1>5 DEF Running, Ending, Promise!Next

\* For any tasks, the current-thread runtime with its thread-locals, LocalSet and
\* scheduler does what CompatRuntime promises: run waits for each counted task,
\* and nothing but the drop of the Runtime cancels one.
THEOREM KeepsPromiseCorrect == Spec => KeepsPromise
<1>1. Init => Promise!Init
  BY DEF Init, I!Init, Promise!Init, Begun, Given, Ran, Failed, Dropped, Phase
<1>2. CallInv /\ I!TypeOK /\ I!CounterExact /\ [Next]_vars => [Promise!Next]_(Promise!vars)
  <2> SUFFICES ASSUME CallInv, I!TypeOK, I!CounterExact, [Next]_vars
               PROVE  [Promise!Next]_(Promise!vars)
    OBVIOUS
  <2>1. CASE UNCHANGED vars
    BY <2>1, SamePromise DEF vars, idleVars, callVars, taskVars, Phase
  <2>2. QED
    BY <2>1, CallingKeepsPromise, SpawningKeepsPromise, RunningKeepsPromise DEF Next
<1>3. QED
  BY <1>1, <1>2, CallInvCorrect, IdleCorrectInRuntime, PTL
  DEF Spec, KeepsPromise, Promise!Spec
-----------------------------------------------------------------------------
C == INSTANCE CompatRuntimeProofs WITH
  begun <- Begun, counted <- Given, ran <- Ran, failed <- Failed,
  cancelled <- Dropped, phase <- Phase

\* The two vocabularies for the abstract runtime, Promise and C, agree.
LEMMA SameRuntime ==
  /\ Promise!Init <=> C!Init
  /\ [Promise!Next]_(Promise!vars) <=> [C!Next]_(C!vars)
  /\ Promise!EndsOnce <=> C!EndsOnce
<1>1. Promise!Init <=> C!Init
  BY DEF Promise!Init, C!Init
<1>2. UNCHANGED Promise!vars <=> UNCHANGED C!vars
  BY DEF Promise!vars, C!vars
<1>3. ASSUME NEW t \in Tasks
      PROVE  /\ Promise!Begin(t) <=> C!Begin(t)
             /\ Promise!Run(t) <=> C!Run(t)
             /\ Promise!Fail(t) <=> C!Fail(t)
             /\ Promise!Cancel(t) <=> C!Cancel(t)
  BY DEF Promise!Begin, C!Begin, Promise!Run, C!Run, Promise!Fail, C!Fail,
         Promise!Cancel, C!Cancel, Promise!Live, C!Live
<1>4. /\ Promise!Wait <=> C!Wait
      /\ Promise!Return <=> C!Return
      /\ Promise!End <=> C!End
  BY DEF Promise!Wait, C!Wait, Promise!Return, C!Return, Promise!End, C!End
<1>5. Promise!Next <=> C!Next
  BY <1>3, <1>4 DEF Promise!Next, C!Next
<1>6. Promise!EndsOnce <=> C!EndsOnce
  BY DEF Promise!EndsOnce, C!EndsOnce
<1>7. QED
  BY <1>1, <1>2, <1>5, <1>6

\* What is proved of CompatRuntime holds of the current-thread runtime: a task that
\* has run, as far as its notification, is neither lost nor dropped; and run is the
\* wait of WaitIdle for the counted tasks that have not run.
THEOREM OutcomesCorrect == Spec => []Promise!EndsOnce /\ C!RefinesWaitIdle
<1>1. Spec => C!Spec
  <2>1. KeepsPromise => C!Spec
    BY SameRuntime, PTL DEF KeepsPromise, Promise!Spec, C!Spec
  <2>2. QED
    BY <2>1, KeepsPromiseCorrect, PTL
<1>2. C!Spec => []C!EndsOnce /\ C!RefinesWaitIdle
  BY C!EndsOnceCorrect, C!Refinement, PTL
<1>3. QED
  BY <1>1, <1>2, SameRuntime, PTL
=============================================================================
