---------------------------- MODULE IdleOrdering ----------------------------
(***************************************************************************)
(* The memory orderings of src/runtime/idle.rs.  Module Idle takes every   *)
(* access of the counter as sequentially consistent; the code does not ask *)
(* for that: reserve() adds with Relaxed, with() subtracts with Release    *)
(* (and fences with Acquire), idle() loads with Acquire.  Here the counter *)
(* is its modification order, an element carries what an acquiring reader  *)
(* of it learns, and a load may return any value that is not older than    *)
(* what the loading thread already knows of.                               *)
(*                                                                         *)
(* A thread knows a position of the modification order and the completed   *)
(* tasks whose writes it sees.  Spawning a task and sending a notification *)
(* pass the knowledge of the sender on.                                    *)
(***************************************************************************)
EXTENDS Naturals, Sequences, FiniteSets

CONSTANTS
  Tasks,   \* one element for each call of Idle::reserve
  Main,    \* the thread that owns the runtime and calls idle()
  Ext      \* a thread that spawns through a TaskExecutor or a Handle

ASSUME TasksAssumption == IsFiniteSet(Tasks)

ASSUME ThreadsAssumption == Main # Ext /\ Main \notin Tasks /\ Ext \notin Tasks

VARIABLES
  spawned,   \* modification order of the AtomicUsize: [val, rel]
  known,     \* what each thread knows: [pos, seen]
  queue,     \* the channel: what each () message passes on
  at,        \* position of a task's fetch_add in the modification order
  track,     \* as in module Idle
  rx,        \* as in module Idle
  by         \* history: the thread that reserved for a task

vars == <<spawned, known, queue, at, track, rx, by>>

Threads == Tasks \union {Main, Ext}
Nothing == [pos |-> 1, seen |-> {}]

Merge(k, l) == [pos  |-> IF k.pos > l.pos THEN k.pos ELSE l.pos,
                seen |-> k.seen \union l.seen]

Last == spawned[Len(spawned)]
Fresh == Len(spawned) + 1

\* Idle::new
Init ==
  /\ spawned = <<[val |-> 0, rel |-> Nothing]>>
  /\ known = [p \in Threads |-> Nothing]
  /\ queue = <<>>
  /\ at = [t \in Tasks |-> 0]
  /\ track = [t \in Tasks |-> "new"]
  /\ rx = "out"
  /\ by = [t \in Tasks |-> t]

\* The owner spawns when it is not waiting, a task while it runs.
MaySpawn(p) ==
  \/ p = Main /\ rx = "out"
  \/ p = Ext
  \/ p \in Tasks /\ track[p] = "running"
-----------------------------------------------------------------------------
\* Faults a change to this code could introduce; only mutation checks use them.
ReserveByStore(p, t) ==         \* load and store instead of fetch_add
  /\ MaySpawn(p)
  /\ track[t] = "new"
  /\ spawned' = Append(spawned, [val |-> Last.val + 1, rel |-> Nothing])
  /\ known' = [known EXCEPT ![p].pos = Fresh,
                            ![t] = [pos |-> Fresh, seen |-> known[p].seen]]
  /\ at' = [at EXCEPT ![t] = Fresh]
  /\ track' = [track EXCEPT ![t] = "running"]
  /\ by' = [by EXCEPT ![t] = p]
  /\ UNCHANGED <<queue, rx>>

ReserveUncounted(p, t) ==       \* no fetch_add at all
  /\ MaySpawn(p)
  /\ track[t] = "new"
  /\ known' = [known EXCEPT ![t] = known[p]]
  /\ track' = [track EXCEPT ![t] = "running"]
  /\ by' = [by EXCEPT ![t] = p]
  /\ UNCHANGED <<spawned, queue, at, rx>>

RecvUnordered ==                \* a wake-up that orders nothing, a bare flag say
  /\ rx = "recv"
  /\ queue # <<>>
  /\ queue' = Tail(queue)
  /\ rx' = "load"
  /\ UNCHANGED <<spawned, known, at, track, by>>
-----------------------------------------------------------------------------
\* Idle::reserve by thread p for task t.  The Relaxed fetch_add continues the
\* release sequences before it and releases nothing of p's own; the task is
\* then handed over through the scheduler, which orders it after its spawner.
Reserve(p, t) ==
  /\ MaySpawn(p)
  /\ track[t] = "new"
  /\ spawned' = Append(spawned, [val |-> Last.val + 1, rel |-> Last.rel])
  /\ known' = [known EXCEPT ![p].pos = Fresh,
                            ![t] = [pos |-> Fresh, seen |-> known[p].seen]]
  /\ at' = [at EXCEPT ![t] = Fresh]
  /\ track' = [track EXCEPT ![t] = "running"]
  /\ by' = [by EXCEPT ![t] = p]
  /\ UNCHANGED <<queue, rx>>

\* Track::with: the writes of the task, the Release fetch_sub, and when that
\* returned one the Acquire fence.
Complete(t) ==
  LET own == [pos |-> Fresh, seen |-> known[t].seen \union {t}] IN
  /\ track[t] = "running"
  /\ spawned' = Append(spawned, [val |-> Last.val - 1, rel |-> Merge(Last.rel, own)])
  /\ known' = [known EXCEPT ![t] = IF Last.val = 1 THEN Merge(own, Last.rel) ELSE own]
  /\ track' = [track EXCEPT ![t] = IF Last.val = 1 THEN "notify" ELSE "done"]
  /\ UNCHANGED <<queue, at, rx, by>>

\* Track::with, the notification.
Send(t) ==
  /\ track[t] = "notify"
  /\ queue' = Append(queue, known[t])
  /\ track' = [track EXCEPT ![t] = "done"]
  /\ UNCHANGED <<spawned, known, at, rx, by>>

\* As in module Idle: the Track is dropped with its future.
Lose(t) ==
  /\ track[t] = "running"
  /\ track' = [track EXCEPT ![t] = "lost"]
  /\ UNCHANGED <<spawned, known, queue, at, rx, by>>

CallIdle ==
  /\ rx = "out"
  /\ rx' = "load"
  /\ UNCHANGED <<spawned, known, queue, at, track, by>>

\* The Acquire load of Rx::idle reads the i-th value of the modification order.
Load(i) ==
  /\ rx = "load"
  /\ i >= known[Main].pos
  /\ known' = [known EXCEPT ![Main] =
                 Merge([pos |-> i, seen |-> known[Main].seen], spawned[i].rel)]
  /\ rx' = IF spawned[i].val = 0 THEN "out" ELSE "recv"
  /\ UNCHANGED <<spawned, queue, at, track, by>>

Recv ==
  /\ rx = "recv"
  /\ queue # <<>>
  /\ known' = [known EXCEPT ![Main] = Merge(@, Head(queue))]
  /\ queue' = Tail(queue)
  /\ rx' = "load"
  /\ UNCHANGED <<spawned, at, track, by>>

Next ==
  \/ \E p \in Threads, t \in Tasks : Reserve(p, t)
  \/ \E t \in Tasks : Complete(t) \/ Send(t) \/ Lose(t)
  \/ CallIdle \/ Recv
  \/ \E i \in DOMAIN spawned : Load(i)

Spec == Init /\ [][Next]_vars

\* As in module Idle.  Which value a load returns is not assumed fair: it may
\* be stale every time.
Fairness ==
  /\ WF_vars(\E i \in DOMAIN spawned : Load(i))
  /\ WF_vars(Recv)
  /\ \A t \in Tasks : WF_vars(Send(t)) /\ WF_vars(Complete(t) \/ Lose(t))

FairSpec == Spec /\ Fairness
-----------------------------------------------------------------------------
Knowledge == [pos : 1..Len(spawned), seen : SUBSET Tasks]

TypeOK ==
  /\ \A i \in DOMAIN spawned : spawned[i].val \in Nat /\ spawned[i].rel \in Knowledge
  /\ known \in [Threads -> Knowledge]
  /\ \A i \in DOMAIN queue : queue[i] \in Knowledge
  /\ at \in [Tasks -> 0..Len(spawned)]
  /\ track \in [Tasks -> {"new", "running", "notify", "done", "lost"}]
  /\ rx \in {"out", "load", "recv"}
  /\ by \in [Tasks -> Threads]

\* t and all its ancestors are counted, the first of them was spawned by Main.
Rooted(t) ==
  \E S \in SUBSET Tasks :
    /\ t \in S
    /\ \A u \in S : track[u] # "new" /\ by[u] \in S \union {Main}

\* When idle() returns, every task whose reservation the returning thread is
\* ordered after has completed and what that task wrote is visible to it: the
\* tests read a plain result after run() or shutdown_on_idle().  The same holds of
\* everything Main spawned and that these tasks spawned in turn, although Main need
\* not be ordered after the reservations they made on other threads.
ReturnSeesTasks ==
  [][rx # "out" /\ rx' = "out" =>
       \A t \in Tasks : at[t] \in 1..known[Main].pos' \/ Rooted(t) =>
         t \in known[Main].seen' /\ track[t] \in {"notify", "done"}]_vars

\* Stale loads included, the receiver is never blocked while the counter is
\* zero with no notification in the channel or about to be sent.
NoLostWakeup ==
  rx = "recv" /\ Last.val = 0 =>
    queue # <<>> \/ \E t \in Tasks : track[t] = "notify"

\* Even if every load returns the oldest value it may, a wait ends unless a
\* task was lost.
HangsOnlyOnLostTask ==
  rx # "out" ~> rx = "out" \/ \E t \in Tasks : track[t] = "lost"
=============================================================================
