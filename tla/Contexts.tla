------------------------------ MODULE Contexts ------------------------------
(***************************************************************************)
(* The thread-local defaults of one thread and the calls nested on it.     *)
(* block_on, enter, run and shutdown_on_idle of both runtimes, and the     *)
(* threads of a runtime, first install tokio 0.1 defaults (timer, reactor, *)
(* executor), tokio 0.1's Enter flag, CURRENT_IDLE and the tokio 0.2       *)
(* context, each a thread-local with one slot; then they run code of the   *)
(* program, which may make such a call again, of this or another runtime.  *)
(*                                                                         *)
(* The set_default functions of tokio 0.1 and block_on of tokio 0.2 are    *)
(* external: they panic when their slot is taken, and their guards empty   *)
(* it when they are dropped; they do not restore what was there before.    *)
(***************************************************************************)
EXTENDS Integers, Sequences, FiniteSets

CONSTANTS
  Pools,        \* thread pool runtimes
  Locals,       \* current-thread runtimes, all built on this thread
  Foreign,      \* any runtime that is not one of tokio-compat
  None,
  MaxReserved   \* bounds the calls of block_on that lose their reservation

ASSUME DistinctRuntimes ==
  /\ Pools \intersect Locals = {}
  /\ {Foreign, None} \intersect (Pools \union Locals) = {} /\ Foreign # None
  /\ MaxReserved \in Nat

VARIABLES
  slot,       \* whose value each thread-local has
  stack,      \* the calls this thread is in: [rt, op, done]
  reserved,   \* the idle counter of each runtime, this thread's share
  unwinding,  \* a panic is on its way out of the innermost call
  gone        \* the runtimes consumed by shutdown_on_idle

vars == <<slot, stack, reserved, unwinding, gone>>

Compat == Pools \union Locals
Slots == {"enter", "timer", "reactor", "executor", "idle", "run02"}

\* Faults a change to this code could introduce; only mutation checks use them.
PoolStepsNoReactor == <<"timer", "executor">>
IdleFirst == <<"idle", "enter", "reactor", "timer", "executor">>
ReserveFirst == <<"reserve", "enter", "reactor", "timer", "executor", "idle", "run02">>

\* What a call does before it runs code of the program, in its order: a thread
\* of a runtime in on_thread_start; enter of the thread pool runtime; enter and
\* block_on of the current-thread runtime.
ThreadSteps == <<"executor", "timer", "reactor">>
PoolSteps == <<"timer", "reactor", "executor">>
LocalSteps == <<"enter", "reactor", "timer", "executor", "idle">>
BlockOnSteps == <<"enter", "reactor", "timer", "reserve", "executor", "idle", "run02">>

\* The last two are contexts of other crates: with_default of tokio 0.1 and a
\* runtime of tokio 0.2.
Steps == [
  worker         |-> Append(ThreadSteps, "run02"),
  blocking       |-> ThreadSteps,
  pool_block_on  |-> <<"reserve">> \o Append(PoolSteps, "run02"),
  pool_enter     |-> PoolSteps,
  pool_shutdown  |-> Append(PoolSteps, "run02"),
  local_block_on |-> BlockOnSteps,
  local_run      |-> Append(LocalSteps, "run02"),
  local_enter    |-> LocalSteps,
  tokio01        |-> <<"enter", "executor">>,
  tokio02        |-> <<"run02">>]

Ops == DOMAIN Steps
ThreadOps == {"worker", "blocking"}
LocalOps == {"local_block_on", "local_run", "local_enter"}
ForeignOps == {"tokio01", "tokio02"}
BlockOns == {"pool_block_on", "local_block_on"}
Enters == {"pool_enter", "local_enter"}

\* Whose panics leave them; a panic of a task never leaves its thread or run.
Panicking == BlockOns \union Enters \union ForeignOps

OpsOf(r) ==
  IF r \in Pools THEN {"worker", "blocking", "pool_block_on", "pool_enter", "pool_shutdown"}
  ELSE IF r \in Locals THEN {"blocking"} \union LocalOps
  ELSE ForeignOps

Depth == Len(stack)
Top == stack[Depth]
Popped == SubSeq(stack, 1, Depth - 1)

Reserves(f) == f.op \in BlockOns /\ \E i \in 1..f.done : Steps[f.op][i] = "reserve"
Held(f) == {Steps[f.op][i] : i \in 1..f.done} \ {"reserve"}
InBody(f) == f.done = Len(Steps[f.op])

Init ==
  /\ slot = [s \in Slots |-> None]
  /\ stack = <<>>
  /\ reserved = [r \in Compat |-> 0]
  /\ unwinding = FALSE
  /\ gone = {}
-----------------------------------------------------------------------------
\* enter() borrows the Runtime, block_on and run borrow it mutably and
\* shutdown_on_idle consumes it; a current-thread Runtime never leaves the
\* thread that built it.
Borrowed(r, op) ==
  \E i \in 1..Depth : stack[i].rt = r /\
    IF op \in Enters THEN stack[i].op \notin Enters \union ThreadOps
                     ELSE stack[i].op \notin ThreadOps

Usable(r, op) ==
  /\ r \notin gone
  /\ r \in Compat => ~Borrowed(r, op)
  /\ r \in Locals => ~\E i \in 1..Depth : stack[i].rt = r /\ stack[i].op = "blocking"

\* A thread whose stack is empty is as good as a new one, so that a runtime's
\* thread may start on it; anything else is called from code of the program.
Call(r, op) ==
  /\ ~unwinding
  /\ IF Depth = 0 THEN TRUE
     ELSE InBody(Top) /\ Top.op # "pool_shutdown" /\ op \notin ThreadOps
  /\ Usable(r, op)
  /\ op \in BlockOns => reserved[r] < MaxReserved
  /\ stack' = Append(stack, [rt |-> r, op |-> op, done |-> 0])
  /\ UNCHANGED <<slot, reserved, unwinding, gone>>

\* The innermost call is about to do s.
AboutTo(s) ==
  /\ Depth > 0 /\ ~unwinding
  /\ ~InBody(Top)
  /\ Steps[Top.op][Top.done + 1] = s

Done == stack' = [stack EXCEPT ![Depth].done = @ + 1]

Reserve ==
  /\ AboutTo("reserve")
  /\ reserved' = [reserved EXCEPT ![Top.rt] = @ + 1]
  /\ Done
  /\ UNCHANGED <<slot, unwinding, gone>>

\* set_default, with_default, enter() or block_on finds its slot empty ...
Install(s) ==
  /\ AboutTo(s)
  /\ slot[s] = None
  /\ slot' = [slot EXCEPT ![s] = Top.rt]
  /\ Done
  /\ UNCHANGED <<reserved, unwinding, gone>>

\* ... or panics and leaves it as it is.
Refuse(s) ==
  /\ AboutTo(s)
  /\ slot[s] # None
  /\ unwinding' = TRUE
  /\ UNCHANGED <<slot, stack, reserved, gone>>

\* with_idle puts its Idle in CURRENT_IDLE before it asserts that nothing was
\* there; what was there is lost, and no Reset is armed yet.
WithIdle ==
  /\ AboutTo("idle")
  /\ slot' = [slot EXCEPT !["idle"] = Top.rt]
  /\ IF slot["idle"] = None THEN Done /\ UNCHANGED unwinding
     ELSE unwinding' = TRUE /\ UNCHANGED stack
  /\ UNCHANGED <<reserved, gone>>
-----------------------------------------------------------------------------
LeaveResetLate ==               \* fault: CURRENT_IDLE is reset after f(), not by a guard
  /\ slot' = [s \in Slots |-> IF s \in Held(Top) /\ ~(unwinding /\ s = "idle")
                              THEN None ELSE slot[s]]
  /\ stack' = Popped
  /\ gone' = IF Top.op = "pool_shutdown" THEN gone \union {Top.rt} ELSE gone

LeaveArmedEarly ==              \* fault: the guards exist before their slots are taken
  /\ slot' = [s \in Slots |-> IF \E i \in 1..Len(Steps[Top.op]) : Steps[Top.op][i] = s
                              THEN None ELSE slot[s]]
  /\ stack' = Popped
  /\ gone' = IF Top.op = "pool_shutdown" THEN gone \union {Top.rt} ELSE gone

\* The guards of the innermost call are dropped, shutdown_on_idle drops the
\* Runtime as well.
Leave ==
  /\ slot' = [s \in Slots |-> IF s \in Held(Top) THEN None ELSE slot[s]]
  /\ stack' = Popped
  /\ gone' = IF Top.op = "pool_shutdown" THEN gone \union {Top.rt} ELSE gone

\* The call is over; the future of block_on was tracked; run and
\* shutdown_on_idle wait until nothing is.
Return ==
  /\ Depth > 0 /\ ~unwinding /\ InBody(Top)
  /\ Top.op \in {"local_run", "pool_shutdown"} => reserved[Top.rt] = 0
  /\ reserved' = IF Top.op \in BlockOns THEN [reserved EXCEPT ![Top.rt] = @ - 1]
                 ELSE reserved
  /\ Leave
  /\ UNCHANGED unwinding

\* The future of block_on or the closure of enter panics.
Panic ==
  /\ Depth > 0 /\ ~unwinding /\ InBody(Top)
  /\ Top.op \in Panicking
  /\ unwinding' = TRUE
  /\ UNCHANGED <<slot, stack, reserved, gone>>

UnwindGivesBack ==              \* fault: block_on gives back whether it reserved or not
  /\ unwinding
  /\ Leave
  /\ unwinding' = FALSE
  /\ reserved' = IF Top.op \in BlockOns THEN [reserved EXCEPT ![Top.rt] = @ - 1]
                 ELSE reserved

\* The panic leaves the innermost call.  The program, or tokio 0.2 if this was
\* a task, may catch it outside; the Track of block_on has no Drop.
Unwind ==
  /\ unwinding
  /\ Leave
  /\ \/ unwinding' = FALSE
     \/ Depth > 1 /\ stack[Depth - 1].op \in Panicking /\ UNCHANGED unwinding
  /\ UNCHANGED reserved

Next ==
  \/ \E r \in Compat \union {Foreign} : \E op \in OpsOf(r) : Call(r, op)
  \/ Reserve \/ WithIdle
  \/ \E s \in Slots \ {"idle"} : Install(s) \/ Refuse(s)
  \/ Return \/ Panic \/ Unwind

Spec == Init /\ [][Next]_vars
-----------------------------------------------------------------------------
TypeOK ==
  /\ slot \in [Slots -> Compat \union {Foreign, None}]
  /\ \A i \in 1..Depth :
       /\ stack[i].rt \in Compat \union {Foreign}
       /\ stack[i].op \in OpsOf(stack[i].rt)
       /\ stack[i].done \in 0..Len(Steps[stack[i].op])
  /\ reserved \in [Compat -> 0..MaxReserved]
  /\ unwinding \in BOOLEAN
  /\ gone \subseteq Pools

\* Each thread-local belongs to one call that is still on the stack, and names
\* its runtime; in particular nothing is left behind when the last call ended,
\* by a return or by a panic at any point of its prologue, and a refused call
\* leaves those around it as they were.
SlotsOwned ==
  \A s \in Slots :
    LET holders == {i \in 1..Depth : s \in Held(stack[i])} IN
    \/ slot[s] = None /\ holders = {}
    \/ \E i \in holders : holders = {i} /\ slot[s] = stack[i].rt

\* Code that runs in a call of a runtime, or in one of its threads, finds that
\* runtime's timer, reactor and executor, and in the calls of a current-thread
\* runtime also its CURRENT_IDLE, however deep the call is nested.
InnermostServes ==
  Depth > 0 /\ ~unwinding /\ InBody(Top) /\ Top.rt \in Compat =>
    /\ \A s \in {"timer", "reactor", "executor"} : slot[s] = Top.rt
    /\ Top.op \in LocalOps => slot["idle"] = Top.rt

\* threadpool/mod.rs, "panics ... if called within an asynchronous execution context",
\* and current_thread/mod.rs alike: block_on, run and shutdown_on_idle get as far
\* as their future only if no runtime is around them, of either kind or foreign,
\* however many such calls were refused before; enter, which promises no panic,
\* gets on within a tokio 0.2 runtime but nowhere else.
PanicsInContext ==
  \A i, j \in 1..Depth :
    j < i /\ InBody(stack[i]) /\ stack[i].rt \in Compat =>
      stack[i].op \in Enters /\ stack[j].op = "tokio02"

\* runtime.rs, with_idle: "entered current_thread runtime twice!" never fires,
\* so that CURRENT_IDLE is never replaced.
NeverEnteredTwice == AboutTo("idle") => slot["idle"] = None

Lost(r) ==
  reserved[r] - Cardinality({i \in 1..Depth : stack[i].rt = r /\ Reserves(stack[i])})

\* block_on of a current-thread runtime that is refused because the thread is
\* already in a runtime of tokio-compat, or in one of its threads, keeps no
\* reservation, or a later run would wait forever.  Only a panic of its future
\* does, and a tokio 0.2 runtime around it.
RefusedUncounted ==
  [][\A r \in Locals :
       Lost(r)' > Lost(r) => InBody(Top) \/ slot["run02"] = Foreign]_vars
=============================================================================
