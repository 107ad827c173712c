------------------------------- MODULE Handles -------------------------------
(***************************************************************************)
(* Who keeps whom alive.  Both builders share a tokio 0.2 builder, in      *)
(* which they leave the on_thread_start closure of the last build; the     *)
(* tokio 0.2 runtime keeps the closure as long as a handle to it is alive; *)
(* compat_sender holds a handle once it is filled, and the closure holds   *)
(* compat_sender: weakly in threadpool/builder.rs, strongly in             *)
(* current_thread/builder.rs.  Memory is freed by reference counts, so     *)
(* whatever a cycle of strong references keeps is never freed.             *)
(*                                                                         *)
(* A tokio 0.2 handle is external; it shares the blocking pool, which has  *)
(* the closure, with the runtime.                                          *)
(***************************************************************************)
EXTENDS Naturals, FiniteSets

CONSTANTS
  Runtimes,   \* the runtimes one Builder builds, one after the other or not
  Threads,    \* threads that a tokio 0.2 runtime may start
  Kind,       \* "pool" or "local": which builder this is
  Builder,    \* who holds strong references, besides Runtimes and Threads:
  Build,      \* the locals of build()
  Clones,     \* clones of a TaskExecutor or a Handle, anywhere in the program
  None

ASSUME KindAssumption == Kind \in {"pool", "local"}

ASSUME DistinctHolders ==
  /\ Runtimes \intersect Threads = {}
  /\ {Builder, Build, Clones, None} \intersect (Runtimes \union Threads) = {}
  /\ Builder # Build /\ Builder # Clones /\ Build # Clones

VARIABLES
  alive,     \* the objects that are allocated
  filled,    \* the runtimes whose compat_sender has its spawner
  held,      \* the strong references from outside the objects
  runtime,   \* the life of each runtime
  thread     \* the runtime each thread belongs to and how far it is

vars == <<alive, filled, held, runtime, thread>>

\* What one build allocates: the RwLock behind compat_sender, the closure, and
\* what a tokio 0.2 handle shares with the runtime.
Sender(r) == <<"sender", r>>
Closure(r) == <<"closure", r>>
Shared(r) == <<"shared", r>>
Built(r) == {Sender(r), Closure(r), Shared(r)}
Objects == {"sender", "closure", "shared"} \X Runtimes

Holders == Runtimes \union Threads \union {Builder, Build, Clones}

ClosureRefsStrong(r) == {Sender(r)}   \* fault: the clone that release 0.1.5 removed

\* What the closure of on_thread_start keeps: Arc::downgrade of the thread pool
\* builder, clone of the other one.
ClosureRefs(r) == IF Kind = "pool" THEN {} ELSE {Sender(r)}

\* The strong references of an object, the senders in f being filled.
Children(o, f) ==
  LET r == o[2] IN
  IF o = Closure(r) THEN ClosureRefs(r)
  ELSE IF o = Shared(r) THEN {Closure(r)}
  ELSE IF r \in f THEN {Shared(r)} ELSE {}

Held(h) == UNION {h[x] : x \in Holders}

\* One round of reference counting: what nobody refers to is dropped, and with
\* it its references.  Three rounds reach the end, one build having three objects.
Sweep(S, h, f) == S \intersect (Held(h) \union UNION {Children(o, f) : o \in S})
Counted(S, h, f) == Sweep(Sweep(Sweep(S, h, f), h, f), h, f)

\* The holders h replace what they hold; alive is what that leaves of S.
Rehold(S, h, f) == held' = h /\ filled' = f /\ alive' = Counted(S, h, f)

Init ==
  /\ alive = {} /\ filled = {}
  /\ held = [x \in Holders |-> {}]
  /\ runtime = [r \in Runtimes |-> "none"]
  /\ thread = [w \in Threads |-> [of |-> None, at |-> "off"]]
-----------------------------------------------------------------------------
(* Building. *)

\* compat_sender and the closure that refers to it; on_thread_start replaces the
\* closure of the build before.  build takes &mut self, so one is under way at a
\* time.  A Builder that was dropped may be followed by a new one.
Prepare(r) ==
  /\ runtime[r] = "none" /\ held[Build] = {}
  /\ runtime' = [runtime EXCEPT ![r] = "building"]
  /\ Rehold(alive \union {Sender(r), Closure(r)},
            [held EXCEPT ![Build] = {Sender(r)}, ![Builder] = {Closure(r)}], filled)
  /\ UNCHANGED thread

\* build()? of the tokio 0.2 builder fails: the locals go, the Builder stays.
BuildFails(r) ==
  /\ runtime[r] = "building"
  /\ runtime' = [runtime EXCEPT ![r] = "failed"]
  /\ Rehold(alive, [held EXCEPT ![Build] = {}], filled)
  /\ UNCHANGED thread

Launch(r) ==
  /\ runtime[r] = "building"
  /\ runtime' = [runtime EXCEPT ![r] = "launched"]
  /\ Rehold(alive \union {Shared(r)}, [held EXCEPT ![r] = {Shared(r)}], filled)
  /\ UNCHANGED thread

\* compat_sender is filled with a handle, and kept by the Runtime of the thread
\* pool; the current-thread Runtime has no field for it.
Publish(r) ==
  /\ runtime[r] = "launched"
  /\ runtime' = [runtime EXCEPT ![r] = "ready"]
  /\ Rehold(alive,
            [held EXCEPT ![Build] = {},
                         ![r] = @ \union IF Kind = "pool" THEN {Sender(r)} ELSE {}],
            filled \union {r})
  /\ UNCHANGED thread

DropBuilder ==
  /\ held[Build] = {} /\ held[Builder] # {}
  /\ Rehold(alive, [held EXCEPT ![Builder] = {}], filled)
  /\ UNCHANGED <<runtime, thread>>
-----------------------------------------------------------------------------
(* Threads of the tokio 0.2 runtime, workers and blocking ones. *)

\* External: a thread shares the blocking pool with the handles.
Start(w, r) ==
  /\ thread[w].at = "off" /\ runtime[r] \in {"launched", "ready"}
  /\ thread' = [thread EXCEPT ![w] = [of |-> r, at |-> "starting"]]
  /\ Rehold(alive, [held EXCEPT ![w] = {Shared(r)}], filled)
  /\ UNCHANGED runtime

\* on_thread_start: compat_sender is reached, through an upgrade or directly; a
\* failed upgrade panics, and the thread is gone.
Upgrade(w) ==
  LET r == thread[w].of IN
  /\ thread[w].at = "starting"
  /\ IF Sender(r) \in alive
     THEN /\ thread' = [thread EXCEPT ![w].at = "upgraded"]
          /\ Rehold(alive, [held EXCEPT ![w] = @ \union {Sender(r)}], filled)
     ELSE /\ thread' = [thread EXCEPT ![w] = [of |-> None, at |-> "off"]]
          /\ Rehold(alive, [held EXCEPT ![w] = {}], filled)
  /\ UNCHANGED runtime

\* The guards get a clone of the handle; the upgraded reference is dropped.
SetGuards(w) ==
  LET r == thread[w].of IN
  /\ thread[w].at = "upgraded" /\ r \in filled
  /\ thread' = [thread EXCEPT ![w].at = "running"]
  /\ Rehold(alive, [held EXCEPT ![w] = {Shared(r)}], filled)
  /\ UNCHANGED runtime

\* on_thread_stop, for a closed runtime or a thread that idled too long.
Stop(w) ==
  /\ thread[w].at = "running"
  /\ thread' = [thread EXCEPT ![w] = [of |-> None, at |-> "off"]]
  /\ Rehold(alive, [held EXCEPT ![w] = {}], filled)
  /\ UNCHANGED runtime
-----------------------------------------------------------------------------
(* The program. *)

CloneTooLate(r) ==              \* fault: a handle without the runtime's own count
  /\ runtime[r] # "none"
  /\ Rehold(alive, [held EXCEPT ![Clones] = @ \union {Shared(r)}], filled)
  /\ UNCHANGED <<runtime, thread>>

\* executor() and handle(); a task of the runtime holds no more than that.
Clone(r) ==
  /\ runtime[r] = "ready"
  /\ Rehold(alive, [held EXCEPT ![Clones] = @ \union {Shared(r)}], filled)
  /\ UNCHANGED <<runtime, thread>>

DropClones(r) ==
  /\ Shared(r) \in held[Clones]
  /\ Rehold(alive, [held EXCEPT ![Clones] = @ \ {Shared(r)}], filled)
  /\ UNCHANGED <<runtime, thread>>

\* The Runtime is dropped: tokio 0.2 waits for its threads, the fields go.
Close(r) ==
  /\ runtime[r] = "ready"
  /\ runtime' = [runtime EXCEPT ![r] = "closing"]
  /\ UNCHANGED <<alive, filled, held, thread>>

Drop(r) ==
  /\ runtime[r] = "closing"
  /\ \A w \in Threads : thread[w].of # r
  /\ runtime' = [runtime EXCEPT ![r] = "gone"]
  /\ Rehold(alive, [held EXCEPT ![r] = {}], filled)
  /\ UNCHANGED thread

Next ==
  \/ \E r \in Runtimes :
       \/ Prepare(r) \/ BuildFails(r) \/ Launch(r) \/ Publish(r)
       \/ Clone(r) \/ DropClones(r) \/ Close(r) \/ Drop(r)
       \/ \E w \in Threads : Start(w, r)
  \/ \E w \in Threads : Upgrade(w) \/ SetGuards(w) \/ Stop(w)
  \/ DropBuilder

Spec == Init /\ [][Next]_vars
-----------------------------------------------------------------------------
TypeOK ==
  /\ alive \subseteq Objects
  /\ filled \subseteq Runtimes
  /\ held \in [Holders -> SUBSET alive]
  /\ runtime \in [Runtimes -> {"none", "building", "failed", "launched", "ready",
                              "closing", "gone"}]
  /\ thread \in [Threads -> [of : Runtimes \union {None},
                             at : {"off", "starting", "upgraded", "running"}]]

Reached(S) == S \union UNION {Children(o, filled) : o \in S}

\* Nothing is kept alive but from outside: by the Builder, a Runtime, a thread
\* of one or a clone of its handle.  There is no cycle, however often a Builder
\* is used, whether a build failed, and in whatever order all of these go.
NoOrphans == alive = Reached(Reached(Reached(Held(held))))

\* threadpool/mod.rs: compat_sender is "the only long-living strong ref to the
\* handle, and once the Runtime is dropped, it should also be deallocated", even
\* while the Builder lives on or clones of the handle do.
SenderFreed == \A r \in Runtimes : runtime[r] = "gone" => Sender(r) \notin alive

\* A thread that runs on_thread_start finds compat_sender, as late as it starts:
\* in the thread pool "since the runtime will still be acitve the upgrade should
\* work", and the closure of the other builder keeps it.
UpgradeSucceeds ==
  \A w \in Threads : thread[w].at = "starting" => Sender(thread[w].of) \in alive

\* The least that the same comment asks of the other builder: when the program
\* has let go of everything, its Builder included, nothing is left.
NothingKeptAtLast == Held(held) = {} => alive = {}
=============================================================================
