# tokio-compat in TLA+

Specifications of the `tokio-compat` runtimes (version 0.1.6): what they do when
tasks are spawned, run, lost and waited for, when a runtime is built, used by
several threads, nested and shut down, and what it keeps allocated. TLC checks the
specifications on small instances; TLAPS proves their safety properties for any
number of tasks, threads, runtimes and nested calls. Paths below are
relative to `src/runtime/` of the crate unless they start otherwise.

## 1. The system

`tokio-compat` runs futures written for tokio 0.1 and for tokio 0.2 on one
runtime. The tasks run on a tokio 0.2 scheduler; a background thread runs a tokio
0.1 reactor and timer; and thread-local defaults make `tokio_01::spawn`, timers
and I/O find their way from inside a task. tokio 0.2 has no "wait until idle", so
the crate counts tasks itself.

| component | state | operations | interacts with |
|---|---|---|---|
| idle tracking, `idle.rs` | an atomic counter, an unbounded channel of `()`, one receiver | `reserve`, `Track::with`, `Rx::idle` | every spawn that has no `JoinHandle`; `shutdown_on_idle`, `run` |
| background thread and defaults, `compat.rs` | a thread, its shutdown channel; per thread `COMPAT_GUARDS` | `Background::spawn`, `Drop`, `set_guards`, `unset_guards`, `CompatSpawner::spawn` | reactor and timer serve every poll; guards hold a runtime handle |
| thread pool runtime, `threadpool/mod.rs` | `Inner` (pool, background), idle ends, `compat_sender` | `spawn*`, `spawn_handle*`, `block_on*`, `enter`, `shutdown_on_idle`, `shutdown_now`, `Drop`, `run*` | all of the above |
| thread pool builder, `threadpool/builder.rs` | `compat_sender: Arc<RwLock<Option<..>>>`, held weakly by `on_thread_start` | `build`, the two thread callbacks | every pool thread that starts, at any time |
| thread pool executor, `threadpool/task_executor.rs` | clones of a handle and of `Idle` | `spawn*`, `spawn_handle*`, `execute` | used from any thread, also after the runtime has gone |
| current-thread runtime, `current_thread/runtime.rs` | inner basic scheduler, `LocalSet`, idle ends, `CURRENT_IDLE` per thread | `spawn*`, `block_on*`, `run`, `enter`, `Handle` | one thread runs everything; handles spawn from others |
| current-thread builder, `current_thread/builder.rs` | as the other builder, but a strong reference in the closure | `build` | blocking threads of the runtime |
| current-thread executor, `current_thread/task_executor.rs` | none; reads `CURRENT_IDLE` | `spawn_local*`, `spawn_handle*`, `execute`, `status` | `LocalSet` through tokio 0.2's own thread-local |
| entry points, `current_thread/mod.rs` | none | `block_on_all*`, `run*` | compose the runtime's operations |

### What is hard, and what makes each part correct

* **Idle tracking.** The counter, the channel and the loop of `idle()` are
  touched by all threads with no lock. Correct means: no lost wake-up; no return
  on a notification of an earlier moment of idleness; results of tasks visible to
  the waiter although the increments are `Relaxed`; an end to every wait if the
  tasks end. A future that panics or is cancelled is the hole in that (finding 1).
* **Thread pool.** Pool threads start while `build` still holds the lock and as
  late as the drop of the runtime; each needs the spawner. Shutdown must take the
  pool down before the background thread, reach the end whatever runs, wait for
  exactly the counted tasks, and leave no reference that keeps the pool's driver
  and its descriptors alive (release 0.1.5 fixed such a leak).
* **Spawning.** `reserve` comes before the spawn, so that a child is counted
  before its parent is over; a second thread may do both while the owner is
  already shutting down.
* **Current thread.** Nothing runs outside `block_on` and `run`; `CURRENT_IDLE`
  and the tokio 0.1 `enter` flag must be reset on each exit, a panic included;
  `TaskExecutor` reserves on one thread-local and spawns on another.
* **Thread-local defaults.** Every call installs the defaults of its runtime one
  by one; each installation panics when its slot is taken, and its guard empties the
  slot rather than restoring it. A call made inside another runtime is thus refused
  at some point of its prologue, and must leave the outer runtime's defaults in
  force and no reservation behind.
* **Handles.** The closure in the tokio 0.2 builder, `compat_sender` and the handle
  in it refer to each other. With a strong reference in the closure they are a
  cycle that is never freed.

`PROJECT.json` lists the hazards at their lines.

## 2. The modules

| module | models | status |
|---|---|---|
| `WaitIdle` | what idle tracking promises, without counter or channel: a set of live tasks and a gate that opens on the empty set | done |
| `Idle` | `idle.rs`, one action per access to the counter or channel | done |
| `IdleProofs` | theorems about `Idle` | done |
| `IdleOrdering` | `idle.rs` again, with the memory orderings of the code | done |
| `CompatRuntime` | what both runtimes promise about tasks: an abstract runtime with no threads, queues or counters; itself implements `WaitIdle` | done |
| `ThreadPool` | builder, pool threads, spawning, running and shutdown of the thread pool runtime, with the background thread; includes `Idle` through `INSTANCE`, implements `CompatRuntime` | done |
| `CurrentThread` | `block_on`, `run`, `enter`, spawning onto the `LocalSet` and the basic scheduler, `TaskExecutor`, `Handle` and drop of the current-thread runtime; includes `Idle` through `INSTANCE`, implements `CompatRuntime` | done |
| `Contexts` | the thread-locals of one thread and the calls of both runtimes nested on it | done |
| `Handles` | who holds which runtime handle: both builders, runtimes, threads, clones; reference counts | done |
| `IdleOrderingProofs`, `CompatRuntimeProofs`, `ThreadPoolProofs`, `CurrentThreadProofs`, `ContextsProofs`, `HandlesProofs` | theorems about these modules; those of the two runtimes carry over what `IdleProofs` and `CompatRuntimeProofs` prove | done |
| `MC*` | symmetry sets and restricted specifications for TLC | done |

`ThreadPool` composes the idle tracking, the background thread and the scheduler of
one runtime, with many tasks and threads. `CurrentThread` composes the idle tracking
with the two schedulers of one runtime and a second thread; it leaves the background
thread out, which nothing in the life of a current-thread runtime waits for but its
drop; who finds its timer and reactor is in `Contexts`. `Contexts` composes several
runtimes of both kinds on one thread and leaves the tasks out; `Handles` looks at the
life of one builder's runtimes and leaves both out.

### `Idle` and `WaitIdle`

`spawned` is the `AtomicUsize`, `queue` the number of messages in the channel,
`track[t]` the place of the t-th `Track`, `rx` the place of the receiver in the
loop of `Rx::idle`. `Reserve` is `Idle::reserve`; `Complete` the `fetch_sub` of
`Track::with` with the test of what it returned; `Send` the notification;
`CallIdle`, `Load` and `Recv` the call, the loop test and the `recv().await` of
`Rx::idle`. `Lose` is what happens to a `Track` whose future panics or is dropped:
nothing but its disappearance, since `Track` has no `Drop`. The subtraction and
the send are two actions, so are the load and the receive: that is where the
interleavings are. Senders live as long as the runtime does (the runtime itself
holds an `Idle`), so `recv()` never yields `None`; a send to a dropped receiver is
ignored by the code and has no effect a property could see.

`WaitIdle` has `live` and `waiting`. `Idle` implements it with `live` the
outstanding reservations and `waiting` the receiver being inside `idle()`:
`Complete` of the task is `Finish`, `Load` reading zero is `Return`, the channel
operations are stuttering steps.

### `IdleOrdering`

The counter is its modification order. Each element carries what an acquiring
reader of it learns: a `Release` subtraction adds the knowledge of its thread, any
read-modify-write continues the release sequence before it, a `Relaxed` addition
adds nothing of its own. A thread knows a position in that order (it never again
reads an older value) and a set of tasks whose writes it sees. `Load(i)` may read
any element from the known position on, so a load may be stale for as long as the
orderings allow. Read-modify-writes read the newest element. Handing a task to the
scheduler, and a message of the channel, pass on what the sender knows: that is
what tokio's queues guarantee. `by` records who reserved each task; nothing but
`Rooted`, the tasks that `Main` spawned and their descendants, depends on it.

`ReturnSeesTasks` has two parts. Of the tasks whose reservation the returning thread
knows of, all are over and their writes visible. And the rooted tasks are among those
that are, even though a task may have reserved its child on another thread with
`Relaxed`, and the load may have returned an old value of the counter.

### `ThreadPool`

The variables of `Idle` are part of the state, and every access to them is an
action of `Idle` conjoined with the rest of the handler. The other variables:

| variable | code |
|---|---|
| `owner` | how far the `Runtime` is: none, lock held (`locked`, `launched`), `ready`, in `idle()`, `returned` from it, being dropped (`closing`, `joining`), `gone`; `failed` when the inner build failed |
| `how` | which call ended it |
| `strong`, `sender` | strong references to `compat_sender`, and whether its `Option` is filled |
| `thread`, `guards` | each pool thread, and whether its `COMPAT_GUARDS` is set |
| `closed`, `bg` | the tokio 0.2 runtime told to shut down; the background thread |
| `task`, `by`, `on` | each task, who spawned it, which thread polls it |

The tokio 0.2 scheduler is external and modelled from how the crate uses it: it
starts threads while it lives (`Launch`), hands queued tasks to threads that have
run `on_thread_start` (`Poll`, `Pending`), contains panics of tasks (`Panic`),
drops what is given to it after it was closed (`Submit`) and, when dropped, drops
the queue (`Cancel`) and waits for its threads (`PoolGone`). A thread that stops
runs `on_thread_stop` (`Stop`).

`Reserve` and `Submit` are the two halves of every counted spawn, whoever calls:
the owner through `Runtime::spawn_std`, another thread through a `TaskExecutor`
(also after the runtime has gone), a task through the default executor, which is
`CompatSpawner`. `SpawnHandle` is a spawn that is not counted, by a `spawn_handle`
or with `tokio_02::spawn`. `BlockOn` is `block_on_std`, polled by the owner
itself. `run` is a `Reserve`, `Submit` and `ShutdownOnIdle` of the owner.
`shutdown_now` and the drop of a `Runtime` are one action, as they do the same.

The order in which `shutdown_on_idle` drops its locals (`runtime` before
`compat_bg`, then `self`) and in which `Inner` drops its fields is that of
`Close`, `StopBackground`, `BackgroundExits`, `Join`.

`enter` lets its closure spawn with the owner's rights, and nothing else; that is
`Reserve` and `SpawnHandle` of an owner at rest.

`WaitsAreAnswered` goes through the places where a thread waits: `recv().await` in
`shutdown_on_idle`, the join in `Drop for Background`, the read lock in
`on_thread_start`. In each, whoever will end the wait is at work: it is the safety core
of the liveness properties. `CurrentThread` has the same for `run`, where only tasks of
the `LocalSet` and of the basic scheduler count, since nobody polls a future that an
earlier `block_on` was given.

### `CompatRuntime`

What a program may rely on, of both runtimes. `begun` and `counted` are the tasks it
spawned, `counted` those without a `JoinHandle`; `ran`, `failed` and `cancelled` how
they ended; `phase` whether the owner is waiting for idleness, and whether the
runtime is ending or over. `Return` is the point: the wait ends only when all
counted tasks have run. A task that comes too late is cancelled when it is begun,
nothing is cancelled before the end, nothing runs after it. The mapping is at the
end of the two runtimes' modules; a task has run, for it, once its future is done,
though its notification may still be on its way. In `ThreadPool` the wait is
`shutdown_on_idle`, the end the drop of the tokio 0.2 runtime; in `CurrentThread` it
is `run`, after which the runtime is open again. `EndsOnce` says what a program
may conclude of a task's end, and with `live` the counted tasks that have not run, an
abstract runtime is a `WaitIdle` (`RefinesWaitIdle`). Both are proved, not run: the
runtimes' runs check the refinement from which they follow (`KeepsPromise`).

### `CurrentThread`

| variable | code |
|---|---|
| `call` | the call the owner thread is in: `enter`, `block_on`, `run`, or `out` |
| `entered`, `current` | the thread-locals: tokio 0.1's `Enter` flag and `CURRENT_IDLE` |
| `alive` | the `Runtime` has not been dropped |
| `task`, `by`, `on` | each task, who spawned it, the task being polled |
| `home` | who polls it: `block_on` itself (`root`), the `LocalSet`, the basic scheduler |

`Enter` is the common beginning of the three calls (`executor_01::enter().unwrap()`,
the defaults, `with_idle`) and `Leave` the drop of their guards, which `Reset`
makes happen after a panic too: these are assignments here; how the guards
bring them about, one by one and in nested calls, is in `Contexts`. `run` is `CallRun` and then `IdleLoad` and
`IdleRecv`, polled in turn with the tasks. `block_on_all` is `BlockOn`, `CallRun`;
`current_thread::run` is `Reserve`, `Submit`, `CallRun`. `Reserve` and `Submit`
stand for every counted spawn: `Runtime::spawn` and `TaskExecutor::spawn_local` go
to the `LocalSet`, `Handle::spawn` and the default executor to the basic scheduler.
`Refuse` is the second half of a `spawn_local` that panics: the `Track` goes, the
panic is on its way through the spawner (`unwinding`, then `Panic`; the closure of
`enter` leaves at once). `EnterAgain` is a task that calls into a runtime again.

All polling happens on the owner's thread, so the steps of `Track::with` and of
`Rx::idle` never overlap each other; what interleaves with them is another thread
that spawns through a `Handle`.

External: the basic scheduler and the `LocalSet` of tokio 0.2. They poll what is
queued in an order the model leaves open, contain panics of tasks, drop their tasks
when the runtime is dropped (scheduler first, as the fields are declared), and
`spawn_local` finds the `LocalSet` only while `LocalSet::block_on` polls its own
future or a local task (`run_until`, in all but the first 0.2 releases).

### `Contexts`

One thread. `slot` has the owner of each thread-local: tokio 0.1's `enter` flag, the
default timer, reactor and executor, `CURRENT_IDLE` (`idle`) and the context of a
tokio 0.2 runtime (`run02`). `stack` has the calls under way, `done` says how much
of its prologue each has done. `Steps` gives for every call what it does before it
runs code of the program, in the order of the source; `Install`, `Refuse`, `WithIdle`
and `Reserve` do the next item. Then the code of the program may make another call,
return or panic; `Leave` drops the guards. What panics and what a task may catch is
in `Panicking` and `Unwind`, what Rust's borrow rules let a program nest in
`Borrowed`: `enter` takes `&self`, `block_on` and `run` take `&mut self`,
`shutdown_on_idle` takes the runtime itself, and a current-thread `Runtime` stays on
its thread. Contexts of other crates (`tokio01`, `tokio02`) may be anywhere around.

External: that `set_default` and `with_default` of tokio 0.1, its `enter`, and
`block_on` of tokio 0.2 panic on a slot that is taken, and that dropping their guards
empties the slot.

### `Handles`

`held` has the strong references from outside: those of the `Builder`, of the locals
of `build`, of each `Runtime`, of each thread and of the clones of a `TaskExecutor` or
`Handle`. `Children` has the references among the three objects of a build: the
`RwLock` behind `compat_sender`, the `on_thread_start` closure, and what tokio 0.2
handles share. `Rehold` lets holders change what they hold and frees by reference
counting what that leaves unreferenced; a cycle is not freed. `Kind` tells the two
builders apart: the closure of the thread pool builder holds a weak reference, that
of the current-thread builder a strong one, and the current-thread `Runtime` does not
keep `compat_sender`. Each builder may build several times, fail, and be dropped at
any time; threads start, upgrade the weak reference and set their guards. TLC
runs `Kind = "pool"` for the properties and `Kind = "local"` for finding 4;
`UpgradeSucceeds` and `NothingKeptAtLast` are proved for the kinds they hold of.

External: `Arc` and `Weak`, and that the tokio 0.2 runtime keeps the closure as long
as a handle to it exists.

## 3. What TLC checks

Deadlock is not checked in any run (`CHECK_DEADLOCK FALSE`): the tasks are finitely
many, so each behaviour stops when they are used up, and a receiver that waits for
a lost task really does stop. Liveness runs check what must not stop.

| run | instance | states | shows |
|---|---|---|---|
| `idle` | 5 tasks | 18 718 | the counter is exact, no wake-up is lost; `Idle` implements `WaitIdle`, its steps (`idle()` returns only with no reservation outstanding) and that the gate opens; if futures end, a wait ends unless a task was lost |
| `idle_panic` | 2 tasks | | **violated**, finding 1: after a panic nothing is left to run and the wait goes on |
| `idle_ordering` | 3 tasks | 122 018 | with the code's orderings: results visible, those of a rooted task while others spawn too, no lost wake-up, and the wait ends even if each load is as stale as allowed |
| `thread_pool` | 3 tasks, 2 threads | 301 659 | thread start, service order, nothing left behind, what `shutdown_on_idle` waits for and that no wait is for what cannot come; the runtime implements `CompatRuntime` (`KeepsPromise`) |
| `thread_pool_ends` | 2 tasks, 1 thread | 10 764 | `shutdown_now` and `Drop` end even if the futures never do; `shutdown_on_idle` ends if they do, unless a counted task was lost |
| `thread_pool_spawn_std` | 2 tasks, 1 thread | | **violated**, finding 2: `run` may skip a task spawned with `tokio_02::spawn` |
| `current_thread` | 3 tasks | 68 584 | reservations have tasks, what `run` waits for, and that it sleeps only while a task can still be polled; the runtime implements `CompatRuntime`, so that tasks survive the calls (`KeepsPromise`) |
| `current_thread_ends` | 2 tasks | 6 170 | `run` ends unless a counted task was lost |
| `current_thread_spawn_local` | 2 tasks | | **violated**, finding 3: `spawn_local` within `run` may panic and keep its reservation |
| `contexts` | 2 runtimes of each kind, 1 foreign | 67 506 | each thread-local belongs to one call, the innermost runtime serves, calls documented to panic within an executor run nothing there, `with_idle` finds `CURRENT_IDLE` empty, a refused `block_on` of the current-thread runtime loses nothing |
| `handles` | 3 builds, 2 threads, thread pool | 8 478 | nothing is kept but from outside, `compat_sender` goes with its `Runtime`, no reference dangles |
| `handles_current_thread` | 2 builds, 1 thread, current thread | | **violated**, finding 4: a cycle stays when everything else is gone |

The states are distinct states, after symmetry where it is used.

**Bounds.** The only bounds but one are the sizes of the sets. Five tasks give two
separate moments of idleness with overlapping tasks each, hence stale
notifications met by a wait for later tasks; three are enough for a task, its
child and a foreign spawn. Two pool threads let one start while the other stops.
Two runtimes of each kind give every pair of an outer and an inner one, of the same
kind too; the depth of the stack needs no bound, since each call takes a slot or is
refused. Three builds let a `Builder` be used again while threads and clones of
earlier runtimes are left. No counter of the code is bounded: `spawned`, `queue` and
the modification order are bounded by the number of tasks. `MaxReserved` is the
exception, in `Contexts`: there each refused `block_on` of the thread pool loses a
reservation for good, and a loop of such calls would count on; two are enough to see
one reservation lost and another taken. The `usize` counter would need 2^64 live
reservations to wrap.

**Symmetry** is used in runs that check safety only (tasks, pool threads, runtimes);
`KeepsPromise` is safety, too.

**Fairness.** `Idle!Scheduling`: the waiting thread runs when woken, and a worker
that has subtracted goes on to send (weak fairness, the actions stay enabled).
`TasksEnd`: a spawned future ends, well or badly; it is an assumption on the
program, made only where a property needs it. In `ThreadPool` the shutdown steps,
thread callbacks and the second half of a spawn are straight-line code (weak
fairness). A queued task competes with others for a thread, so `Poll` is strongly
fair. That a poll by a pool thread ends, with the future pending, ready or panicked, is
weakly fair; that the future is not pending for ever is an assumption on the program,
`FuturesEnd`, which only `ShutdownOnIdleEnds` makes: `shutdown_now` is there for
tasks that never end. `RunEnds` assumes it too: in `CurrentThread` it is part of
`Fairness` (`Ending` strongly fair), since `run` waits for its tasks. There the polls of
`idle()` alternate with those of tasks on one thread, so `IdleLoad` and `IdleRecv` are
strongly fair as well. `Stop` of a pool thread is enabled only between two polls, where
a closed scheduler looks at its shutdown flag, so it is strongly fair too. `IdleOrdering` assumes what `Idle` does; nothing is
assumed of which value a load returns, except that the receiver has acquired what the
notification passed on. Nothing is assumed of what the owner calls or of who spawns.
`Contexts` and `Handles` state safety only and assume no fairness.

**Findings.**
1. `Track` has no `Drop`: a counted task that panics or is cancelled keeps its
   reservation, and `shutdown_on_idle` (`run`, `block_on_all`) never returns, against
   `threadpool/mod.rs:455-459`. Run `idle_panic`; `HangsOnlyOnLostTask` and
   `ShutdownOnIdleEnds` show that this is the only way to hang, and the theorems
   `LostTaskHangs` that there is no way out of it, for any number of tasks.
2. `tests/rt_threadpool.rs:46` asserts that a task spawned with `tokio_02::spawn`
   has run when `run` returns; the code does not count it. Run
   `thread_pool_spawn_std`.
3. `TaskExecutor::spawn_local` reserves whenever `CURRENT_IDLE` is set and then
   calls `tokio_02::task::spawn_local`, which panics in a task of the basic
   scheduler (where `Handle::spawn` and `tokio_01::spawn` put theirs) and in the
   closure of `enter`. `current_thread/task_executor.rs:25` asks only to be within
   a call to `run`. The panic keeps the reservation, so that `run` does not return.
   Run `current_thread_spawn_local`.
4. The current-thread builder gives the `on_thread_start` closure a strong clone of
   `compat_sender` (`current_thread/builder.rs:70`). `compat_sender` holds a tokio 0.2
   handle, which keeps the closure: each current-thread runtime leaves all three
   allocated for good. The thread pool builder had the same cycle until release 0.1.5
   and has a weak reference since. Run `handles_current_thread`; the run `handles` and
   `NoOrphansCorrect` show that the weak reference is the cure, `EveryBuildLeaks` that
   without it no runtime is ever freed, in whatever order things are dropped.

`block_on` of the thread pool runtime, unlike that of the current-thread runtime,
takes its reservation before it installs the defaults, so that a refused call loses
it and a later `shutdown_on_idle` waits forever (`Steps` of `Contexts`). The function
announces the panic, and asks not to be called there, so this is no finding;
`RefusedUncounted` is stated for the current-thread runtime, where it holds.

Every property of a passing run has a mutant in `PROJECT.json`: an operator marked
as a fault in the module that, put in the place of the real one, makes TLC find
the property violated.

## 4. What is proved

The assumptions on constants are that there are finitely many tasks
(`TasksAssumption`; `CompatRuntime` needs none), that the names of tasks, threads,
runtimes and holders differ (`DistinctActors`, `ThreadsAssumption`, `DistinctRuntimes`,
`DistinctHolders`), and the two values of `Kind`. The number of pool threads, of
runtimes and of builds, and the depth of nested calls are arbitrary.

**`IdleProofs`**: the types, `CounterExact`, `NoLostWakeup`, `ReturnsOnlyIdle`, and
that `Idle` implements the safety part of `WaitIdle`. The inductive invariant is
`IInv == TypeOK /\ CounterExact /\ NoLostWakeup`.
`TypeOK` alone is not inductive, since `spawned - 1` is a natural number only
because the completing task is counted, which is `CounterExact`; that in turn
needs the type of `track`. `Counted`, the outstanding reservations, moves by one
element with `Reserve` and `Complete` and not at all otherwise; the theorems of
`FiniteSetTheorems` carry that over to its cardinality. `ReturnsOnlyIdle` and the
refinement follow: the only step out of `idle()` is a `Load` of zero, and by
`CounterExact` zero means that the set is empty. `LostTaskHangs` is the converse of
`HangsOnlyOnLostTask`, and a safety property: a lost task stays in the set, so that no
load ever reads zero again. Both runtimes' modules have it too, of `shutdown_on_idle`
and of `run`: finding 1 for every number of tasks and threads.

**`CompatRuntimeProofs`**: the types, `EndsOnce`, and that the abstract runtime
implements the safety part of `WaitIdle`. `TypeOK /\ EndsOnce` is inductive, since a task
is `Live` when it comes to its end. In the refinement a step of a counted task that runs
is `Finish`; one that fails is a stutter, so that its wait stays closed.

**`ThreadPoolProofs`**: every safety property that the run `thread_pool` checks.
`StepUsesIdle` comes first: each step of the runtime is a step of `Idle` or leaves its
variables alone, so that what `IdleProofs` proves holds inside the runtime
(`IdleCorrectInPool`).

`LifeInv`, the inductive invariant about owner and threads, says more than
`ServicesOutliveTasks`, `ThreadsStart` and `NothingLeft`, which follow from it:
the owner holds `compat_sender` and the background thread is up in every state
from `locked` to `closing` (`PoolServed`); a thread is in `on_thread_start` only
while there is a pool, holds `compat_sender` only there, and has its guards exactly
while it is past it (`ThreadsInPool`). Without these a thread could be in
`on_thread_start` of a pool that is gone, where `upgrade()` fails.

`OwnTasksFinish` and `WaitsForCounted` need to know how a task and its `Track` move
together (`TaskPlaces`), that no task is polled twice at a time (`PollPlaces`), and
how far the runtime is (`EndPlaces`). `RootsOver` then says that once the wait is
through, every task with a root is over. The wait ends on a counter of zero, which
by `CounterExact` means that no reservation is outstanding; afterwards
`RootedGrows` shows that a new task has a root only if the task that spawns it has
one, and such a task spawns nothing any more.

`KeepsPromiseCorrect` is the refinement: the initial state maps to that of
`CompatRuntime`, and each action maps to one of its steps or a stutter. Its one hard
case is the end of the wait, which is `Return` only since every counted task has run:
again zero by `CounterExact`. `OutcomesCorrect` puts the refinements together: what
`CompatRuntimeProofs` proves of the abstract runtime holds of this one, so that nothing
that has run is dropped by a shutdown, and `shutdown_on_idle` is a wait for idleness in
the sense of `WaitIdle`.

`WaitsAnsweredCorrect` is about a runtime that sleeps. By `NoLostWakeup`, carried over
from `IdleProofs`, the counter is not zero or a worker is about to notify; by
`CounterExact` some reservation is outstanding (`BusyHasTask`); and `WaitedIsUnderWay`
follows its task: the spawner of a reserved task is still polled, since a task does not
end between the two halves of a spawn (`SpawnPlaces`), a queued one has a scheduler
that is not closed while the owner waits, and a polled one has its thread.

**`CurrentThreadProofs`**: every safety property that the run `current_thread`
checks. `CallInv` adds to them that one task is polled at a time and only in
`block_on` or `run` (`OnePolled`), that the thread-locals are set just while the thread
is in a call (`LocalsFollowCalls`), that nothing but the drop of the `Runtime` cancels
(`TasksSurviveCalls`), that the future of `block_on` is there only
during that `block_on` (`RootInCall`), that who has reserved does nothing before it
has spawned (`SpawnerWaits`), and that a task that notifies is still polled
(`TracksFollow`). `RunFinishesTasks` follows: by `RootInCall` and `SpawnerWaits` no
end of a task or refused spawn leaves `run`, so it is `idle()` reading zero
(`RunLeft`); then no reservation is outstanding, and by `OnePolled` no task is about
to notify. `KeepsPromiseCorrect`, `OutcomesCorrect` and `WaitsAnsweredCorrect`
follow in the same way.

**`IdleOrderingProofs`**: the types, `NoLostWakeup` and `ReturnSeesTasks` with the
memory orderings. `OrderInv` is inductive. Its core is `Exact`: every value in the
modification order, not only the last, is the number of tasks counted up to there
whose writes an acquiring reader of that value does not see. So a load that reads
zero, however old the zero is, sees every task counted before it, which is
the first part of `ReturnSeesTasks`. `Bounded` (nobody knows more than the last value
would teach) and
`Placed` (only what a completed task wrote is seen) keep `Exact` inductive.
`NoLostWakeup` speaks of the newest value but the waiter tests an old one: `ZeroTold`
says that while the newest value is zero, the waiter knows its position, or a
message or a notifying task carries it.

The second part of `ReturnSeesTasks` is about reservations that the waiter was told
nothing of. `RootInv` closes the gap: every zero that the waiter may still read is
younger than the reservations of all rooted tasks (`RootsCounted`). When the waiter
spawns, no value but its own is left for it to read. When a rooted task spawns, it still
runs; a zero that is left to read would be younger than its reservation and so, as in
the first part, would have it over: there is none.

**`ContextsProofs`**: every property of the run `contexts`. `ContextInv` has the calls
below the innermost running their code, slots owned by one call each (`Owned`), and
where a panic began (`PanicBegan`). `StepsOrder` is what the proofs use of the
prologues: `enter` before `idle` in each, `timer`, `reactor` and `executor` in all
calls of tokio-compat. `NeverEnteredTwice` is that order at work: whoever has
`CURRENT_IDLE` took the `enter` flag, which the call at hand took as well, and a slot
has one owner. It is needed for the invariant itself, as `with_idle` overwrites.
`RefusedUncounted` counts reservations that no call holds: `LostStep` shows that only a
panic leaving a call that holds one adds to them, `RefusedByForeign` that in a
current-thread `block_on` that is refused after its `reserve()` the slot in the way
belongs to a call that took neither timer nor `enter`. `PanicsInContext` is about two
calls at any two depths of the stack, both in code of the program: such a call holds
every slot of its prologue, and alone (`BodyHolds`). So the outer one is foreign, else
both held `timer`; a tokio 0.2 runtime, else both held `executor`; and the inner one is
`enter`, the only one that does not need `run02`, or starts a thread, which no call does
(`ThreadsOutermost`).

**`HandlesProofs`**: every property of the run `handles`, and for both values of `Kind`
`TypeOK` and `UpgradeSucceeds`. With `Kind = "pool"` also
`NoOrphans`, `SenderFreed` and that nothing is kept at last, which fails for the other
kind; of that, `EveryBuildLeaks` says that whatever one of its runtimes has
allocated stays.
`HolderInv` says who holds what at each stage of a build (`BuildHolds`,
`RuntimeHolds`, `ThreadHolds`) and who may hold `compat_sender` (`SenderHolders`).
`CountingExact` is the lemma about reference counting: as the references of the thread
pool builder form a chain, three rounds leave exactly what can be reached from outside.
Where they form a cycle, the three objects of a build keep each other alive (`Looped`).
`SenderFreed` follows since nothing inside refers to `compat_sender`, and its holders
are gone with the `Runtime`.

Only model-checked: liveness (`ImplementsWaitIdle`, `HangsOnlyOnLostTask` of both idle
modules, `ShutdownNowEnds`, `ShutdownOnIdleEnds`, `RunEnds`), which the prover cannot
do under fairness. `WaitsAreAnswered` is the part of these that needs no fairness. That
the properties of the four violation runs fail is shown by one behaviour each;
`LostTaskHangs` and `EveryBuildLeaks` prove for two of them that the failure does not
depend on the instance.

## 5. Not modelled

* The setters of the builders, formatting, the conversion of futures 0.1 to 0.3, I/O
  and time themselves: no state of the crate depends on them.
* The internals of tokio 0.1 and 0.2. What the crate relies on is external in the
  modules above. That the reactor manages no I/O resources, which the documentation
  lists as a condition of idleness, is not tested by the code and is not a condition
  in the model.
* A `Runtime` that is dropped by one of its own blocking threads, through an `Arc` in a
  task: it waits for itself, or not, inside tokio 0.2.
* `tokio_02::task::block_in_place`, which lets a worker leave its context: the crate
  does not call it.
* `src/lib.rs`, `src/prelude.rs` and `src/runtime/mod.rs` are re-exports and
  documentation; the documentation is quoted by the properties.

## 6. Plan

Done, in this order: idle tracking and its abstract specification; the two runtimes;
memory orderings; the abstract runtime and both refinements; nested contexts; handles;
proofs of all safety properties; that no wait is for what cannot come; that the
abstract runtime contains the abstract wait, and what this says of both runtimes;
both kinds of `Handles`; the two findings that can be proved of every instance.

Next: `WaitsAreAnswered` for the rest of a shutdown, the drop of the tokio 0.2 runtime
that waits for its threads; and the theorems about `shutdown_on_idle` in `Contexts`,
where the reservations lost to refused calls of the thread pool are counted.

Left, should the code change: a `Drop` for `Track` (finding 1) would let
`HangsOnlyOnLostTask` and the two `...Ends` properties lose their exception, and make
`Lose` give the reservation back, and `LostTaskHangs` false; a weak reference in the
current-thread builder, with `compat_sender` kept by the `Runtime` as in the thread pool
(finding 4), would make the two values of `Kind` the same, and all theorems of
`HandlesProofs` but `EveryBuildLeaks` hold for both.
