--------------------------- MODULE ContextsProofs ---------------------------
(***************************************************************************)
(* Proofs about module Contexts, for any number of runtimes and any depth  *)
(* of nested calls: whose defaults are in force, which calls get as far as *)
(* their code within another, that CURRENT_IDLE is never replaced, and     *)
(* which refused calls lose no reservation.                                *)
(***************************************************************************)
EXTENDS Contexts, FiniteSetTheorems, TLAPS

\* A call on the stack.
Calls == [rt : Compat \union {Foreign}, op : Ops, done : Nat]

\* What the order of installation in the calls of both runtimes provides.
LEMMA StepsOrder ==
  ASSUME NEW op \in Ops
  PROVE  /\ Len(Steps[op]) \in Nat
         /\ \A i \in 1..Len(Steps[op]) : Steps[op][i] = "idle" =>
              /\ \E j \in 1..(i - 1) : Steps[op][j] = "enter"
              /\ \A j \in 1..Len(Steps[op]) : Steps[op][j] = "idle" => j = i
         /\ \A i \in 1..Len(Steps[op]) : Steps[op][i] = "reserve" =>
              /\ op \in BlockOns
              /\ \A j \in 1..Len(Steps[op]) : Steps[op][j] = "reserve" => j = i
         /\ op \in BlockOns => \E i \in 1..Len(Steps[op]) : Steps[op][i] = "reserve"
         /\ op \notin ForeignOps =>
              \A s \in {"timer", "reactor", "executor"} :
                \E i \in 1..Len(Steps[op]) : Steps[op][i] = s
         /\ op \in LocalOps => \E i \in 1..Len(Steps[op]) : Steps[op][i] = "idle"
         /\ op = "tokio01" => \E i \in 1..Len(Steps[op]) : Steps[op][i] = "executor"
         /\ op \notin Enters \union {"blocking", "tokio01"} =>
              \E i \in 1..Len(Steps[op]) : Steps[op][i] = "run02"
<1>1. Ops = {"worker", "blocking", "pool_block_on", "pool_enter", "pool_shutdown",
             "local_block_on", "local_run", "local_enter", "tokio01", "tokio02"}
  BY DEF Ops, Steps
<1>2. CASE op = "worker"
  <2>1. /\ Len(Steps[op]) = 4
        /\ Steps[op][1] = "executor" /\ Steps[op][2] = "timer" /\ Steps[op][3] = "reactor"
        /\ Steps[op][4] = "run02"
    BY <1>2 DEF Steps, ThreadSteps
  <2>2. QED
    BY <1>2, <2>1 DEF Slots, ForeignOps, LocalOps, BlockOns, Enters
<1>3. CASE op = "blocking"
  <2>1. /\ Len(Steps[op]) = 3
        /\ Steps[op][1] = "executor" /\ Steps[op][2] = "timer" /\ Steps[op][3] = "reactor"
    BY <1>3 DEF Steps, ThreadSteps
  <2>2. QED
    BY <1>3, <2>1 DEF Slots, ForeignOps, LocalOps, BlockOns, Enters
<1>4. CASE op = "pool_block_on"
  <2>1. /\ Len(Steps[op]) = 5
        /\ Steps[op][1] = "reserve" /\ Steps[op][2] = "timer" /\ Steps[op][3] = "reactor"
        /\ Steps[op][4] = "executor" /\ Steps[op][5] = "run02"
    BY <1>4 DEF Steps, PoolSteps
  <2>2. QED
    BY <1>4, <2>1 DEF Slots, ForeignOps, LocalOps, BlockOns, Enters
<1>5. CASE op = "pool_enter"
  <2>1. /\ Len(Steps[op]) = 3
        /\ Steps[op][1] = "timer" /\ Steps[op][2] = "reactor" /\ Steps[op][3] = "executor"
    BY <1>5 DEF Steps, PoolSteps
  <2>2. QED
    BY <1>5, <2>1 DEF Slots, ForeignOps, LocalOps, BlockOns, Enters
<1>6. CASE op = "pool_shutdown"
  <2>1. /\ Len(Steps[op]) = 4
        /\ Steps[op][1] = "timer" /\ Steps[op][2] = "reactor" /\ Steps[op][3] = "executor"
        /\ Steps[op][4] = "run02"
    BY <1>6 DEF Steps, PoolSteps
  <2>2. QED
    BY <1>6, <2>1 DEF Slots, ForeignOps, LocalOps, BlockOns, Enters
<1>7. CASE op = "local_block_on"
  <2>1. /\ Len(Steps[op]) = 7
        /\ Steps[op][1] = "enter" /\ Steps[op][2] = "reactor" /\ Steps[op][3] = "timer"
        /\ Steps[op][4] = "reserve" /\ Steps[op][5] = "executor" /\ Steps[op][6] = "idle"
        /\ Steps[op][7] = "run02"
    BY <1>7 DEF Steps, BlockOnSteps
  <2>2. QED
    BY <1>7, <2>1 DEF Slots, ForeignOps, LocalOps, BlockOns, Enters
<1>8. CASE op = "local_run"
  <2>1. /\ Len(Steps[op]) = 6
        /\ Steps[op][1] = "enter" /\ Steps[op][2] = "reactor" /\ Steps[op][3] = "timer"
        /\ Steps[op][4] = "executor" /\ Steps[op][5] = "idle" /\ Steps[op][6] = "run02"
    BY <1>8 DEF Steps, LocalSteps
  <2>2. QED
    BY <1>8, <2>1 DEF Slots, ForeignOps, LocalOps, BlockOns, Enters
<1>9. CASE op = "local_enter"
  <2>1. /\ Len(Steps[op]) = 5
        /\ Steps[op][1] = "enter" /\ Steps[op][2] = "reactor" /\ Steps[op][3] = "timer"
        /\ Steps[op][4] = "executor" /\ Steps[op][5] = "idle"
    BY <1>9 DEF Steps, LocalSteps
  <2>2. QED
    BY <1>9, <2>1 DEF Slots, ForeignOps, LocalOps, BlockOns, Enters
<1>10. CASE op = "tokio01"
  <2>1. /\ Len(Steps[op]) = 2
        /\ Steps[op][1] = "enter" /\ Steps[op][2] = "executor"
    BY <1>10 DEF Steps
  <2>2. QED
    BY <1>10, <2>1 DEF Slots, ForeignOps, LocalOps, BlockOns, Enters
<1>11. CASE op = "tokio02"
  <2>1. /\ Len(Steps[op]) = 1
        /\ Steps[op][1] = "run02"
    BY <1>11 DEF Steps
  <2>2. QED
    BY <1>11, <2>1 DEF Slots, ForeignOps, LocalOps, BlockOns, Enters
<1>12. QED
  BY <1>1, <1>2, <1>3, <1>4, <1>5, <1>6, <1>7, <1>8, <1>9, <1>10, <1>11
-----------------------------------------------------------------------------
\* The calls on the stack; all but the innermost are running their code.
CallTypes ==
  /\ slot \in [Slots -> Compat \union {Foreign, None}]
  /\ stack \in Seq(Calls)
  /\ \A i \in 1..Depth :
       /\ stack[i].op \in OpsOf(stack[i].rt)
       /\ stack[i].done <= Len(Steps[stack[i].op])
  /\ \A i \in 1..(Depth - 1) : InBody(stack[i])
  /\ reserved \in [Compat -> Int]
  /\ unwinding \in BOOLEAN

\* SlotsOwned, call by call: a slot is empty and nobody's, or somebody's alone.
Owned ==
  \A s \in Slots :
    \/ slot[s] = None /\ \A i \in 1..Depth : s \notin Held(stack[i])
    \/ \E i \in 1..Depth :
         /\ s \in Held(stack[i]) /\ slot[s] = stack[i].rt
         /\ \A j \in 1..Depth : s \in Held(stack[j]) => j = i

\* A panic begins in the code of a call or where a slot is taken.
PanicBegan ==
  unwinding =>
    /\ Depth > 0
    /\ ~InBody(Top) => slot[Steps[Top.op][Top.done + 1]] # None

ContextInv == CallTypes /\ Owned /\ PanicBegan

\* The innermost call.
LEMMA TopCall ==
  ASSUME CallTypes, Depth > 0
  PROVE  /\ Depth \in Nat /\ Top \in Calls /\ Top = stack[Depth]
         /\ Top.op \in Ops /\ Top.done \in Nat /\ Top.op \in OpsOf(Top.rt)
         /\ Len(Steps[Top.op]) \in Nat /\ Top.done \in 0..Len(Steps[Top.op])
<1>1. Depth \in Nat /\ Top \in Calls /\ Top = stack[Depth]
  BY DEF CallTypes, Depth, Top
<1>2. Top.op \in Ops /\ Top.done \in Nat
  BY <1>1 DEF Calls
<1>3. Len(Steps[Top.op]) \in Nat
  BY <1>2, StepsOrder
<1>4. QED
  BY <1>1, <1>2, <1>3 DEF CallTypes

\* Only with_idle takes the slot of CURRENT_IDLE, and finds it empty: a call that
\* has it took the Enter flag before, which the call at hand took as well.
LEMMA IdleEmpty == ContextInv => NeverEnteredTwice
<1> SUFFICES ASSUME ContextInv, AboutTo("idle"), slot["idle"] # None PROVE FALSE
  BY DEF NeverEnteredTwice
<1>1. /\ Depth \in Nat /\ Depth > 0 /\ Top = stack[Depth]
      /\ Top.op \in Ops /\ Top.done \in Nat /\ Top.done < Len(Steps[Top.op])
      /\ Len(Steps[Top.op]) \in Nat
      /\ Steps[Top.op][Top.done + 1] = "idle"
  BY TopCall DEF ContextInv, AboutTo, InBody
<1>2. "enter" \in Held(Top) /\ "idle" \notin Held(Top)
  <2>1. PICK j \in 1..Top.done : Steps[Top.op][j] = "enter"
    BY <1>1, StepsOrder
  <2>2. \A k \in 1..Top.done : Steps[Top.op][k] # "idle"
    BY <1>1, StepsOrder
  <2>3. QED
    BY <2>1, <2>2 DEF Held
<1>3. PICK i \in 1..Depth : "idle" \in Held(stack[i])
  BY DEF ContextInv, Owned, Slots
<1>4. "enter" \in Held(stack[i])
  <2>1. stack[i].op \in Ops /\ stack[i].done \in Nat /\ Len(Steps[stack[i].op]) \in Nat
        /\ stack[i].done <= Len(Steps[stack[i].op])
    <3>1. stack[i] \in Calls
      BY DEF ContextInv, CallTypes, Depth
    <3>2. QED
      BY <3>1, StepsOrder DEF Calls, ContextInv, CallTypes
  <2>2. PICK k \in 1..stack[i].done : Steps[stack[i].op][k] = "idle"
    BY <1>3 DEF Held
  <2>3. PICK j \in 1..(k - 1) : Steps[stack[i].op][j] = "enter"
    BY <2>1, <2>2, StepsOrder
  <2>4. QED
    BY <2>1, <2>2, <2>3 DEF Held
<1>5. i = Depth
  BY <1>1, <1>2, <1>4 DEF ContextInv, Owned, Slots
<1>6. QED
  BY <1>1, <1>2, <1>3, <1>5
-----------------------------------------------------------------------------
\* A call enters the stack on top and holds nothing yet.
LEMMA CallContextInv ==
  ASSUME ContextInv, NEW r \in Compat \union {Foreign}, NEW op \in OpsOf(r), Call(r, op)
  PROVE  ContextInv'
<1> DEFINE c == [rt |-> r, op |-> op, done |-> 0]
<1>1. Depth \in Nat /\ stack \in Seq(Calls)
  BY DEF ContextInv, CallTypes, Depth
<1>2. op \in Ops /\ Len(Steps[op]) \in Nat
  <2>1. op \in Ops
    BY DEF OpsOf, LocalOps, ForeignOps, Ops, Steps
  <2>2. QED
    BY <2>1, StepsOrder
<1>3. c \in Calls
  BY <1>2 DEF Calls
<1>4. /\ stack' \in Seq(Calls) /\ Depth' = Depth + 1
      /\ \A i \in 1..Depth : stack'[i] = stack[i]
      /\ stack'[Depth + 1] = c
  BY <1>1, <1>3 DEF Call, Depth
<1>5. UNCHANGED <<slot, reserved, unwinding>> /\ ~unwinding
  BY DEF Call
<1>6. CallTypes'
  <2>1. ASSUME NEW i \in 1..Depth'
        PROVE  /\ stack'[i].op \in OpsOf(stack'[i].rt)
               /\ stack'[i].done <= Len(Steps[stack'[i].op])
    <3>1. c.rt = r /\ c.op = op /\ c.done = 0
      OBVIOUS
    <3>2. CASE i = Depth + 1
      BY <1>2, <1>4, <3>1, <3>2
    <3>3. CASE i # Depth + 1
      <4>1. i \in 1..Depth /\ stack'[i] = stack[i]
        BY <1>1, <1>4, <3>3
      <4>2. QED
        BY <4>1 DEF ContextInv, CallTypes
    <3>4. QED
      BY <3>2, <3>3
  <2>2. ASSUME NEW i \in 1..(Depth' - 1) PROVE InBody(stack'[i])
    <3>1. i \in 1..Depth /\ stack'[i] = stack[i]
      BY <1>1, <1>4
    <3>2. CASE i = Depth
      <4>1. InBody(Top)
        BY <1>1, <3>1, <3>2 DEF Call
      <4>2. stack'[i] = Top
        BY <3>1, <3>2 DEF Top
      <4>3. QED
        BY <4>1, <4>2
    <3>3. CASE i # Depth
      BY <1>1, <3>1, <3>3 DEF ContextInv, CallTypes
    <3>4. QED
      BY <3>2, <3>3
  <2>3. QED
    BY <1>4, <1>5, <2>1, <2>2 DEF ContextInv, CallTypes
<1>7. Owned'
  <2>1. Held(c) = {}
    BY DEF Held
  <2>2. ASSUME NEW s \in Slots, slot[s] = None,
               \A i \in 1..Depth : s \notin Held(stack[i])
        PROVE  \A i \in 1..Depth' : s \notin Held(stack'[i])
    BY <1>1, <1>4, <2>1, <2>2
  <2>3. ASSUME NEW s \in Slots, NEW i \in 1..Depth, s \in Held(stack[i]),
               \A j \in 1..Depth : s \in Held(stack[j]) => j = i
        PROVE  \A j \in 1..Depth' : s \in Held(stack'[j]) => j = i
    BY <1>1, <1>4, <2>1, <2>3
  <2>4. 1..Depth \subseteq 1..Depth'
    BY <1>1, <1>4
  <2>5. ASSUME NEW s \in Slots
        PROVE  \/ slot'[s] = None /\ \A i \in 1..Depth' : s \notin Held(stack'[i])
               \/ \E i \in 1..Depth' :
                    /\ s \in Held(stack'[i]) /\ slot'[s] = stack'[i].rt
                    /\ \A j \in 1..Depth' : s \in Held(stack'[j]) => j = i
    <3>1. CASE slot[s] = None /\ \A i \in 1..Depth : s \notin Held(stack[i])
      BY <1>5, <2>2, <3>1
    <3>2. CASE \E i \in 1..Depth :
                 /\ s \in Held(stack[i]) /\ slot[s] = stack[i].rt
                 /\ \A j \in 1..Depth : s \in Held(stack[j]) => j = i
      BY <1>4, <1>5, <2>3, <2>4, <3>2
    <3>3. QED
      BY <3>1, <3>2 DEF ContextInv, Owned
  <2>6. QED
    BY <2>5 DEF Owned
<1>8. QED
  BY <1>5, <1>6, <1>7 DEF ContextInv, PanicBegan

\* The innermost call has done one step more of its prologue.
LEMMA StepDone ==
  ASSUME ContextInv, NEW s, AboutTo(s), Done
  PROVE  /\ Depth \in Nat \ {0} /\ Depth' = Depth
         /\ stack' \in Seq(Calls)
         /\ \A i \in 1..Depth : stack'[i].rt = stack[i].rt /\ stack'[i].op = stack[i].op
         /\ \A i \in 1..(Depth - 1) : stack'[i] = stack[i]
         /\ stack'[Depth].done = Top.done + 1
         /\ Held(stack'[Depth]) = (Held(Top) \union {s}) \ {"reserve"}
<1>1. /\ Depth \in Nat /\ Depth > 0 /\ Top \in Calls /\ Top = stack[Depth]
      /\ Top.done \in Nat /\ Steps[Top.op][Top.done + 1] = s
      /\ stack \in Seq(Calls)
  BY TopCall DEF ContextInv, AboutTo, CallTypes
<1> DEFINE c == [Top EXCEPT !.done = @ + 1]
<1>2. /\ c \in Calls /\ c.rt = Top.rt /\ c.op = Top.op /\ c.done = Top.done + 1
  BY <1>1 DEF Calls
<1>3. stack' = [stack EXCEPT ![Depth] = c]
  BY <1>1 DEF Done
<1>4. /\ stack' \in Seq(Calls) /\ Depth' = Depth /\ stack'[Depth] = c
      /\ \A i \in 1..(Depth - 1) : stack'[i] = stack[i]
  BY <1>1, <1>2, <1>3 DEF Depth
<1>5. Held(c) = (Held(Top) \union {s}) \ {"reserve"}
  <2>1. 1..c.done = 1..Top.done \union {Top.done + 1}
    BY <1>1, <1>2
  <2>2. QED
    BY <1>1, <1>2, <2>1 DEF Held
<1>6. ASSUME NEW i \in 1..Depth
      PROVE  stack'[i].rt = stack[i].rt /\ stack'[i].op = stack[i].op
  <2>1. i = Depth \/ i \in 1..(Depth - 1)
    BY <1>1
  <2>2. QED
    BY <1>1, <1>2, <1>4, <2>1
<1>7. stack'[Depth].done = Top.done + 1
  BY <1>2, <1>4
<1>8. QED
  BY <1>1, <1>4, <1>5, <1>6, <1>7

\* The innermost call leaves the stack.
LEMMA Popping ==
  ASSUME ContextInv, Depth > 0, stack' = Popped
  PROVE  /\ Depth \in Nat \ {0} /\ Depth' = Depth - 1
         /\ stack' \in Seq(Calls)
         /\ \A i \in 1..(Depth - 1) : stack'[i] = stack[i]
<1>1. Depth \in Nat \ {0} /\ stack \in Seq(Calls) /\ Depth = Len(stack)
  BY DEF ContextInv, CallTypes, Depth
<1>2. ASSUME NEW q \in Seq(Calls), NEW n \in 0..Len(q)
      PROVE  /\ SubSeq(q, 1, n) \in Seq(Calls) /\ Len(SubSeq(q, 1, n)) = n
             /\ \A i \in 1..n : SubSeq(q, 1, n)[i] = q[i]
  OBVIOUS
<1>3. Depth - 1 \in 0..Len(stack)
  BY <1>1
<1>4. Depth' = Len(Popped) /\ Popped = SubSeq(stack, 1, Depth - 1)
  BY DEF Depth, Popped
<1>5. QED
  BY <1>1, <1>2, <1>3, <1>4
-----------------------------------------------------------------------------
\* A step of a prologue keeps the calls what they are.
LEMMA StepTypes ==
  ASSUME ContextInv, NEW s, AboutTo(s), Done, UNCHANGED unwinding,
         slot' \in [Slots -> Compat \union {Foreign, None}],
         reserved' \in [Compat -> Int]
  PROVE  CallTypes' /\ PanicBegan'
<1>1. /\ Depth \in Nat \ {0} /\ Depth' = Depth
      /\ stack' \in Seq(Calls)
      /\ \A i \in 1..Depth : stack'[i].rt = stack[i].rt /\ stack'[i].op = stack[i].op
      /\ \A i \in 1..(Depth - 1) : stack'[i] = stack[i]
      /\ stack'[Depth].done = Top.done + 1
  BY StepDone
<1>2. /\ ~unwinding /\ Top = stack[Depth] /\ Top.done \in Nat
      /\ Len(Steps[Top.op]) \in Nat /\ Top.done < Len(Steps[Top.op])
  BY TopCall, <1>1 DEF ContextInv, AboutTo, InBody
<1>3. ASSUME NEW i \in 1..Depth
      PROVE  /\ stack'[i].op \in OpsOf(stack'[i].rt)
             /\ stack'[i].done <= Len(Steps[stack'[i].op])
  <2>1. CASE i = Depth
    BY <1>1, <1>2, <2>1 DEF ContextInv, CallTypes
  <2>2. CASE i # Depth
    <3>1. stack'[i] = stack[i]
      BY <1>1, <2>2
    <3>2. QED
      BY <3>1 DEF ContextInv, CallTypes
  <2>3. QED
    BY <2>1, <2>2
<1>4. \A i \in 1..(Depth - 1) : InBody(stack'[i])
  BY <1>1 DEF ContextInv, CallTypes
<1>5. CallTypes'
  BY <1>1, <1>3, <1>4 DEF ContextInv, CallTypes
<1>6. QED
  BY <1>2, <1>5 DEF PanicBegan

\* A call takes a slot that is empty.
LEMMA TakeSlot ==
  ASSUME ContextInv, NEW s \in Slots, AboutTo(s), slot[s] = None, Done,
         slot' = [slot EXCEPT ![s] = Top.rt], UNCHANGED <<reserved, unwinding>>
  PROVE  ContextInv'
<1>1. /\ Depth \in Nat \ {0} /\ Depth' = Depth
      /\ \A i \in 1..Depth : stack'[i].rt = stack[i].rt
      /\ \A i \in 1..(Depth - 1) : stack'[i] = stack[i]
      /\ Held(stack'[Depth]) = (Held(Top) \union {s}) \ {"reserve"}
  BY StepDone
<1>2. /\ Top = stack[Depth] /\ Top.rt \in Compat \union {Foreign}
      /\ slot \in [Slots -> Compat \union {Foreign, None}]
      /\ reserved \in [Compat -> Int]
  BY <1>1, TopCall DEF ContextInv, CallTypes, Calls
<1>3. CallTypes' /\ PanicBegan'
  BY <1>2, StepTypes
<1>4. ASSUME NEW u \in Slots \ {s}, NEW i \in 1..Depth
      PROVE  u \in Held(stack'[i]) <=> u \in Held(stack[i])
  <2>1. u # "reserve"
    BY DEF Slots
  <2>2. i = Depth \/ i \in 1..(Depth - 1)
    BY <1>1
  <2>3. QED
    BY <1>1, <1>2, <2>1, <2>2
<1>5. \A u \in Slots \ {s} : slot'[u] = slot[u]
  BY <1>2
<1>6. slot'[s] = Top.rt /\ s # "reserve"
  BY <1>2 DEF Slots
<1>7. s \in Held(stack'[Depth]) /\ \A j \in 1..Depth : s \in Held(stack'[j]) => j = Depth
  <2>1. Top.rt # None
    BY <1>2, DistinctRuntimes DEF Compat
  <2>2. \A i \in 1..Depth : stack[i].rt # None
    <3>1. ASSUME NEW i \in 1..Depth PROVE stack[i] \in Calls
      BY DEF ContextInv, CallTypes, Depth
    <3>2. QED
      BY <3>1, DistinctRuntimes DEF Calls, Compat
  <2>3. \A i \in 1..Depth : s \notin Held(stack[i])
    BY <2>2 DEF ContextInv, Owned
  <2>4. QED
    BY <1>1, <1>6, <2>3
<1>8. ASSUME NEW u \in Slots
      PROVE  \/ slot'[u] = None /\ \A i \in 1..Depth : u \notin Held(stack'[i])
             \/ \E i \in 1..Depth :
                  /\ u \in Held(stack'[i]) /\ slot'[u] = stack'[i].rt
                  /\ \A j \in 1..Depth : u \in Held(stack'[j]) => j = i
  <2>1. CASE u = s
    BY <1>1, <1>2, <1>6, <1>7, <2>1
  <2>2. CASE u # s
    BY <1>1, <1>4, <1>5, <2>2 DEF ContextInv, Owned
  <2>3. QED
    BY <2>1, <2>2
<1>9. QED
  BY <1>1, <1>3, <1>8 DEF ContextInv, Owned

\* A reservation takes no slot.
LEMMA ReserveContextInv ==
  ASSUME ContextInv, Reserve
  PROVE  ContextInv'
<1>1. /\ Depth \in Nat \ {0} /\ Depth' = Depth
      /\ \A i \in 1..Depth : stack'[i].rt = stack[i].rt
      /\ \A i \in 1..(Depth - 1) : stack'[i] = stack[i]
      /\ Held(stack'[Depth]) = (Held(Top) \union {"reserve"}) \ {"reserve"}
  BY StepDone DEF Reserve
<1>2. "reserve" \notin Held(Top) /\ Top = stack[Depth]
  BY DEF Held, Top
<1>3. ASSUME NEW i \in 1..Depth PROVE Held(stack'[i]) = Held(stack[i])
  <2>1. i = Depth \/ i \in 1..(Depth - 1)
    BY <1>1
  <2>2. QED
    BY <1>1, <1>2, <2>1
<1>4. reserved' \in [Compat -> Int]
  <2>1. reserved \in [Compat -> Int] /\ \A r \in Compat : reserved[r] + 1 \in Int
    BY DEF ContextInv, CallTypes
  <2>2. reserved' = [reserved EXCEPT ![Top.rt] = @ + 1]
    BY DEF Reserve
  <2>3. QED
    BY <2>1, <2>2
<1>5. CallTypes' /\ PanicBegan'
  BY <1>4, StepTypes DEF Reserve, ContextInv, CallTypes
<1>6. Owned'
  BY <1>1, <1>3 DEF ContextInv, Owned, Reserve
<1>7. QED
  BY <1>5, <1>6 DEF ContextInv

\* The innermost call goes, and with it what it holds.
LEMMA LeaveContextInv ==
  ASSUME ContextInv, Depth > 0, Leave, reserved' \in [Compat -> Int],
         unwinding' \in BOOLEAN, unwinding' => Depth > 1
  PROVE  ContextInv'
<1>1. /\ Depth \in Nat \ {0} /\ Depth' = Depth - 1
      /\ stack' \in Seq(Calls)
      /\ \A i \in 1..(Depth - 1) : stack'[i] = stack[i]
  BY Popping DEF Leave
<1>2. /\ Top = stack[Depth]
      /\ slot \in [Slots -> Compat \union {Foreign, None}]
      /\ slot' = [s \in Slots |-> IF s \in Held(Top) THEN None ELSE slot[s]]
  BY DEF Top, Leave, ContextInv, CallTypes
<1>3. CallTypes'
  <2>1. slot' \in [Slots -> Compat \union {Foreign, None}]
    BY <1>2
  <2>2. ASSUME NEW i \in 1..Depth'
        PROVE  /\ i \in 1..Depth /\ i \in 1..(Depth - 1) /\ stack'[i] = stack[i]
    BY <1>1
  <2>3. \A i \in 1..Depth' : /\ stack'[i].op \in OpsOf(stack'[i].rt)
                             /\ stack'[i].done <= Len(Steps[stack'[i].op])
    BY <2>2 DEF ContextInv, CallTypes
  <2>4. \A i \in 1..(Depth' - 1) : i \in 1..Depth'
    BY <1>1
  <2>5. \A i \in 1..(Depth' - 1) : InBody(stack'[i])
    BY <2>2, <2>4 DEF ContextInv, CallTypes
  <2>6. QED
    BY <1>1, <2>1, <2>3, <2>5 DEF CallTypes
<1>4. PanicBegan'
  <2> SUFFICES ASSUME unwinding' PROVE Depth' > 0 /\ InBody(Top')
    BY DEF PanicBegan
  <2>1. Depth - 1 \in 1..(Depth - 1)
    BY <1>1
  <2>2. Top' = stack[Depth - 1]
    BY <1>1, <2>1 DEF Top
  <2>3. QED
    BY <1>1, <2>1, <2>2 DEF ContextInv, CallTypes
<1>5. ASSUME NEW s \in Slots
      PROVE  \/ slot'[s] = None /\ \A i \in 1..Depth' : s \notin Held(stack'[i])
             \/ \E i \in 1..Depth' :
                  /\ s \in Held(stack'[i]) /\ slot'[s] = stack'[i].rt
                  /\ \A j \in 1..Depth' : s \in Held(stack'[j]) => j = i
  <2>1. ASSUME NEW i \in 1..Depth'
        PROVE  /\ i \in 1..Depth /\ i # Depth /\ stack'[i] = stack[i]
    BY <1>1
  <2>2. CASE s \in Held(Top)
    <3>1. slot'[s] = None
      BY <1>2, <2>2
    <3>2. ASSUME NEW i \in 1..Depth PROVE s \in Held(stack[i]) => i = Depth
      <4>1. Depth \in 1..Depth
        BY <1>1
      <4>2. QED
        BY <1>2, <2>2, <4>1 DEF ContextInv, Owned
    <3>3. QED
      BY <2>1, <3>1, <3>2
  <2>3. CASE s \notin Held(Top)
    <3>1. slot'[s] = slot[s]
      BY <1>2, <2>3
    <3>2. CASE slot[s] = None /\ \A i \in 1..Depth : s \notin Held(stack[i])
      BY <2>1, <3>1, <3>2
    <3>3. ASSUME NEW i \in 1..Depth, s \in Held(stack[i]), slot[s] = stack[i].rt,
                 \A j \in 1..Depth : s \in Held(stack[j]) => j = i
          PROVE  \E k \in 1..Depth' :
                   /\ s \in Held(stack'[k]) /\ slot'[s] = stack'[k].rt
                   /\ \A j \in 1..Depth' : s \in Held(stack'[j]) => j = k
      <4>1. i # Depth
        BY <1>2, <2>3, <3>3
      <4>2. i \in 1..Depth'
        BY <1>1, <4>1
      <4>3. QED
        BY <2>1, <3>1, <3>3, <4>2
    <3>4. QED
      BY <3>2, <3>3 DEF ContextInv, Owned
  <2>4. QED
    BY <2>2, <2>3
<1>6. Owned'
  BY <1>5 DEF Owned
<1>7. QED
  BY <1>3, <1>4, <1>6 DEF ContextInv
-----------------------------------------------------------------------------
\* However calls nest, are refused and panic, what they install stays in order.
THEOREM ContextInvCorrect == Spec => []ContextInv
<1>1. Init => ContextInv
  <2> SUFFICES ASSUME Init PROVE ContextInv
    OBVIOUS
  <2>1. Depth = 0 /\ stack \in Seq(Calls)
    BY DEF Init, Depth
  <2>2. CallTypes
    <3>1. 1..Depth = {} /\ 1..(Depth - 1) = {}
      BY <2>1
    <3>2. /\ slot \in [Slots -> Compat \union {Foreign, None}]
          /\ reserved \in [Compat -> Int] /\ unwinding \in BOOLEAN
      <4>1. reserved = [r \in Compat |-> 0] /\ 0 \in Int
        BY DEF Init
      <4>2. QED
        BY <4>1 DEF Init
    <3>3. QED
      BY <2>1, <3>1, <3>2 DEF CallTypes
  <2>3. Owned /\ PanicBegan
    BY <2>1 DEF Init, Owned, PanicBegan
  <2>4. QED
    BY <2>2, <2>3 DEF ContextInv
<1>2. ContextInv /\ [Next]_vars => ContextInv'
  <2> SUFFICES ASSUME ContextInv, [Next]_vars PROVE ContextInv'
    OBVIOUS
  <2>1. CASE UNCHANGED vars
    <3>1. CallTypes'
      BY <2>1 DEF vars, ContextInv, CallTypes, Depth, InBody
    <3>2. Owned'
      BY <2>1 DEF vars, ContextInv, Owned, Depth, Held
    <3>3. PanicBegan'
      BY <2>1 DEF vars, ContextInv, PanicBegan, Depth, Top, InBody
    <3>4. QED
      BY <3>1, <3>2, <3>3 DEF ContextInv
  <2>2. ASSUME NEW r \in Compat \union {Foreign}, NEW op \in OpsOf(r), Call(r, op)
        PROVE  ContextInv'
    BY <2>2, CallContextInv
  <2>3. CASE Reserve
    BY <2>3, ReserveContextInv
  <2>4. CASE WithIdle
    <3>1. slot["idle"] = None
      BY <2>4, IdleEmpty DEF WithIdle, NeverEnteredTwice
    <3>2. QED
      BY <2>4, <3>1, TakeSlot DEF WithIdle, Slots
  <2>5. ASSUME NEW s \in Slots \ {"idle"}, Install(s) PROVE ContextInv'
    BY <2>5, TakeSlot DEF Install
  <2>6. ASSUME NEW s \in Slots \ {"idle"}, Refuse(s) PROVE ContextInv'
    <3>1. UNCHANGED <<slot, stack, reserved>> /\ unwinding' = TRUE
      BY <2>6 DEF Refuse
    <3>2. CallTypes' /\ Owned'
      BY <3>1 DEF ContextInv, CallTypes, Owned, Depth, InBody, Held
    <3>3. PanicBegan'
      BY <2>6, <3>1 DEF Refuse, AboutTo, PanicBegan, Depth, Top, InBody
    <3>4. QED
      BY <3>2, <3>3 DEF ContextInv
  <2>7. CASE Return
    <3>1. reserved' \in [Compat -> Int]
      <4>1. reserved \in [Compat -> Int] /\ \A r \in Compat : reserved[r] - 1 \in Int
        BY DEF ContextInv, CallTypes
      <4>2. \/ reserved' = [reserved EXCEPT ![Top.rt] = @ - 1]
            \/ reserved' = reserved
        BY <2>7 DEF Return
      <4>3. QED
        BY <4>1, <4>2
    <3>2. QED
      BY <2>7, <3>1, LeaveContextInv DEF Return, ContextInv, CallTypes
  <2>8. CASE Panic
    <3>1. UNCHANGED <<slot, stack, reserved>> /\ unwinding' = TRUE
      BY <2>8 DEF Panic
    <3>2. CallTypes' /\ Owned'
      BY <3>1 DEF ContextInv, CallTypes, Owned, Depth, InBody, Held
    <3>3. PanicBegan'
      BY <2>8, <3>1 DEF Panic, PanicBegan, Depth, Top, InBody
    <3>4. QED
      BY <3>2, <3>3 DEF ContextInv
  <2>9. CASE Unwind
    <3>1. Depth > 0 /\ reserved' \in [Compat -> Int] /\ unwinding' \in BOOLEAN
      BY <2>9 DEF Unwind, ContextInv, CallTypes, PanicBegan
    <3>2. unwinding' => Depth > 1
      BY <2>9 DEF Unwind
    <3>3. QED
      BY <2>9, <3>1, <3>2, LeaveContextInv DEF Unwind
  <2>10. QED
    BY <2>1, <2>2, <2>3, <2>4, <2>5, <2>6, <2>7, <2>8, <2>9 DEF Next
<1>3. QED
  BY <1>1, <1>2, PTL DEF Spec

\* Each thread-local belongs to one call on the stack and names its runtime.
THEOREM SlotsCorrect == Spec => []SlotsOwned
<1>1. ContextInv => SlotsOwned
  <2> SUFFICES ASSUME ContextInv, NEW s \in Slots
               PROVE  LET holders == {i \in 1..Depth : s \in Held(stack[i])} IN
                      \/ slot[s] = None /\ holders = {}
                      \/ \E i \in holders : holders = {i} /\ slot[s] = stack[i].rt
    BY DEF SlotsOwned
  <2>1. CASE slot[s] = None /\ \A i \in 1..Depth : s \notin Held(stack[i])
    BY <2>1
  <2>2. ASSUME NEW i \in 1..Depth, s \in Held(stack[i]), slot[s] = stack[i].rt,
               \A j \in 1..Depth : s \in Held(stack[j]) => j = i
        PROVE  {j \in 1..Depth : s \in Held(stack[j])} = {i}
    BY <2>2
  <2>3. QED
    BY <2>1, <2>2 DEF ContextInv, Owned
<1>2. QED
  BY <1>1, ContextInvCorrect, PTL

\* Code of the program finds the defaults of the innermost runtime around it.
THEOREM ServesCorrect == Spec => []InnermostServes
<1>1. ContextInv => InnermostServes
  <2> SUFFICES ASSUME ContextInv, Depth > 0, InBody(Top), Top.rt \in Compat
               PROVE  /\ \A s \in {"timer", "reactor", "executor"} : slot[s] = Top.rt
                      /\ Top.op \in LocalOps => slot["idle"] = Top.rt
    BY DEF InnermostServes
  <2>1. /\ Depth \in 1..Depth /\ Top = stack[Depth] /\ Top.op \in Ops
        /\ Top.done = Len(Steps[Top.op])
    BY TopCall DEF ContextInv, InBody
  <2>2. Top.op \notin ForeignOps
    <3>1. Top.op \in OpsOf(Top.rt)
      BY TopCall DEF ContextInv
    <3>2. QED
      BY <3>1, DistinctRuntimes DEF OpsOf, LocalOps, ForeignOps, Compat
  <2>3. ASSUME NEW s \in Slots, \E i \in 1..Len(Steps[Top.op]) : Steps[Top.op][i] = s
        PROVE  slot[s] = Top.rt
    <3>1. s \in Held(Top)
      BY <2>1, <2>3 DEF Held, Slots
    <3>2. QED
      BY <2>1, <3>1 DEF ContextInv, Owned
  <2>4. QED
    BY <2>1, <2>2, <2>3, StepsOrder DEF Slots
<1>2. QED
  BY <1>1, ContextInvCorrect, PTL

\* A thread of a runtime starts with an empty stack.
ThreadsOutermost == \A i \in 1..Depth : stack[i].op \in ThreadOps => i = 1

\* No step makes a thread start on top of a call.
LEMMA ThreadsStayOutermost ==
  ASSUME ContextInv, ThreadsOutermost, [Next]_vars
  PROVE  ThreadsOutermost'
<1>d. Depth \in Nat /\ stack \in Seq(Calls)
  BY DEF ContextInv, CallTypes, Depth
<1>1. ASSUME UNCHANGED stack PROVE ThreadsOutermost'
  BY <1>1 DEF ThreadsOutermost, Depth
<1>2. ASSUME NEW r \in Compat \union {Foreign}, NEW op \in OpsOf(r), Call(r, op)
      PROVE  ThreadsOutermost'
  <2> DEFINE c == [rt |-> r, op |-> op, done |-> 0]
  <2>1. c \in Calls
    BY DEF Calls, OpsOf, LocalOps, ForeignOps, Ops, Steps
  <2>2. /\ Depth' = Depth + 1 /\ stack'[Depth + 1] = c
        /\ \A i \in 1..Depth : stack'[i] = stack[i]
    BY <1>d, <1>2, <2>1 DEF Call, Depth
  <2>3. Depth # 0 => c.op \notin ThreadOps
    BY <1>2 DEF Call
  <2>4. ASSUME NEW i \in 1..(Depth + 1), stack'[i].op \in ThreadOps PROVE i = 1
    <3>1. CASE i = Depth + 1
      BY <1>d, <2>2, <2>3, <2>4, <3>1
    <3>2. CASE i # Depth + 1
      BY <1>d, <2>2, <2>4, <3>2 DEF ThreadsOutermost
    <3>3. QED
      BY <3>1, <3>2
  <2>5. QED
    BY <2>2, <2>4 DEF ThreadsOutermost
<1>3. ASSUME NEW s, AboutTo(s), Done PROVE ThreadsOutermost'
  BY <1>3, StepDone DEF ThreadsOutermost
<1>4. ASSUME Depth > 0, Leave PROVE ThreadsOutermost'
  <2>1. /\ Depth \in Nat \ {0} /\ Depth' = Depth - 1
        /\ \A i \in 1..(Depth - 1) : stack'[i] = stack[i]
    BY <1>4, Popping DEF Leave
  <2>2. QED
    BY <2>1 DEF ThreadsOutermost
<1>5. ASSUME NEW s \in Slots, Install(s) \/ Refuse(s) PROVE ThreadsOutermost'
  BY <1>1, <1>3, <1>5 DEF Install, Refuse
<1>6. CASE Reserve \/ WithIdle
  BY <1>1, <1>3, <1>6 DEF Reserve, WithIdle
<1>7. CASE Return \/ Panic
  BY <1>1, <1>4, <1>7 DEF Return, Panic
<1>8. CASE Unwind
  BY <1>4, <1>8 DEF Unwind, ContextInv, PanicBegan
<1>9. CASE UNCHANGED vars
  BY <1>1, <1>9 DEF vars
<1>10. QED
  BY <1>2, <1>5, <1>6, <1>7, <1>8, <1>9 DEF Next

\* A call that runs its code holds every slot of its prologue, for itself.
LEMMA BodyHolds ==
  ASSUME ContextInv, NEW i \in 1..Depth, InBody(stack[i]), NEW s \in Slots,
         \E k \in 1..Len(Steps[stack[i].op]) : Steps[stack[i].op][k] = s
  PROVE  /\ s \in Held(stack[i])
         /\ \A j \in 1..Depth : s \in Held(stack[j]) => j = i
<1>1. s \in Held(stack[i])
  BY DEF InBody, Held, Slots
<1>2. QED
  BY <1>1 DEF ContextInv, Owned

\* The calls that the documentation says panic in the context of an executor run
\* nothing there, for any number of runtimes and after any sequence of refusals.
THEOREM PanicsInContextCorrect == Spec => []PanicsInContext
<1>1. ContextInv /\ ThreadsOutermost => PanicsInContext
  <2> SUFFICES ASSUME ContextInv, ThreadsOutermost, NEW i \in 1..Depth,
                      NEW j \in 1..Depth, j < i,
                      InBody(stack[i]), stack[i].rt \in Compat
               PROVE  stack[i].op \in Enters /\ stack[j].op = "tokio02"
    BY DEF PanicsInContext
  <2>1. Depth \in Nat /\ stack[i] \in Calls /\ stack[j] \in Calls
    BY DEF ContextInv, CallTypes, Depth
  <2>2. InBody(stack[j])
    BY <2>1 DEF ContextInv, CallTypes
  <2>3. i # j /\ stack[i].op \in Ops /\ stack[j].op \in Ops
    BY <2>1 DEF Calls
  <2>4. stack[i].op \notin ForeignOps
    BY DistinctRuntimes DEF ContextInv, CallTypes, OpsOf, LocalOps, ForeignOps, Compat
  <2>5. \A s \in {"timer", "executor"} : \A k \in 1..Depth :
          s \in Held(stack[k]) => k = i
    BY <2>3, <2>4, StepsOrder, BodyHolds DEF Slots
  <2>6. stack[j].op \in ForeignOps
    <3>1. ASSUME stack[j].op \notin ForeignOps PROVE "timer" \in Held(stack[j])
      BY <2>2, <2>3, <3>1, StepsOrder, BodyHolds DEF Slots
    <3>2. QED
      BY <2>3, <2>5, <3>1
  <2>7. stack[j].op # "tokio01"
    <3>1. ASSUME stack[j].op = "tokio01" PROVE "executor" \in Held(stack[j])
      BY <2>2, <2>3, <3>1, StepsOrder, BodyHolds DEF Slots
    <3>2. QED
      BY <2>3, <2>5, <3>1
  <2>8. stack[j].op = "tokio02"
    BY <2>6, <2>7 DEF ForeignOps
  <2>9. stack[i].op \in Enters
    <3> SUFFICES ASSUME stack[i].op \notin Enters PROVE FALSE
      OBVIOUS
    <3>1. stack[i].op \notin {"blocking", "tokio01"}
      BY <2>1, <2>4 DEF ThreadsOutermost, ThreadOps, ForeignOps
    <3>2. "run02" \in Held(stack[j])
      BY <2>2, <2>3, <2>8, StepsOrder, BodyHolds DEF Slots, Enters
    <3>3. \A k \in 1..Depth : "run02" \in Held(stack[k]) => k = i
      BY <2>3, <3>1, StepsOrder, BodyHolds DEF Slots
    <3>4. QED
      BY <2>3, <3>2, <3>3
  <2>10. QED
    BY <2>8, <2>9
<1>2. Init => ThreadsOutermost
  BY DEF Init, ThreadsOutermost, Depth
<1>3. QED
  BY <1>1, <1>2, ThreadsStayOutermost, ContextInvCorrect, PTL DEF Spec

\* runtime.rs: the assertion of with_idle never fires.
THEOREM EnteredCorrect == Spec => []NeverEnteredTwice
BY IdleEmpty, ContextInvCorrect, PTL
-----------------------------------------------------------------------------
\* The calls that hold a reservation of r.
Holding(r) == {i \in 1..Depth : stack[i].rt = r /\ Reserves(stack[i])}

\* Lost in terms of Holding, now and after a step.
LEMMA LostIs ==
  ASSUME NEW r
  PROVE  /\ Lost(r) = reserved[r] - Cardinality(Holding(r))
         /\ Lost(r)' = reserved'[r] - Cardinality(Holding(r)')
BY DEF Lost, Holding

\* They are finitely many.
LEMMA HoldingFinite ==
  ASSUME ContextInv, NEW r
  PROVE  IsFiniteSet(Holding(r)) /\ Cardinality(Holding(r)) \in Nat
<1>1. Depth \in Nat
  BY DEF ContextInv, CallTypes, Depth
<1>2. IsFiniteSet(1..Depth)
  BY <1>1, FS_Interval
<1>3. IsFiniteSet(Holding(r))
  BY <1>2, FS_Subset DEF Holding
<1>4. QED
  BY <1>3, FS_CardinalityType

\* A prologue that takes a slot counts nothing.
LEMMA SlotCountsNothing ==
  ASSUME ContextInv, NEW s \in Slots, AboutTo(s), Done, NEW r
  PROVE  /\ Holding(r)' = Holding(r)
         /\ Reserves(stack'[Depth]) <=> Reserves(stack[Depth])
<1>1. /\ Depth \in Nat \ {0} /\ Depth' = Depth
      /\ \A i \in 1..Depth : stack'[i].rt = stack[i].rt /\ stack'[i].op = stack[i].op
      /\ \A i \in 1..(Depth - 1) : stack'[i] = stack[i]
      /\ stack'[Depth].done = Top.done + 1
  BY StepDone
<1>2. /\ Top = stack[Depth] /\ Top.done \in Nat
      /\ Steps[Top.op][Top.done + 1] # "reserve"
  BY <1>1, TopCall DEF ContextInv, AboutTo, Slots
<1>3. Reserves(stack'[Depth]) <=> Reserves(stack[Depth])
  <2>1. 1..(Top.done + 1) = 1..Top.done \union {Top.done + 1}
    BY <1>2
  <2>2. Depth \in 1..Depth
    BY <1>1
  <2>3. QED
    BY <1>1, <1>2, <2>1, <2>2 DEF Reserves
<1>4. ASSUME NEW i \in 1..Depth PROVE Reserves(stack'[i]) <=> Reserves(stack[i])
  <2>1. i = Depth \/ i \in 1..(Depth - 1)
    BY <1>1
  <2>2. QED
    BY <1>1, <1>3, <2>1
<1>5. QED
  BY <1>1, <1>3, <1>4 DEF Holding

\* reserve() is held by the call that made it.
LEMMA ReserveHeld ==
  ASSUME ContextInv, Reserve, NEW r \in Compat
  PROVE  /\ Lost(r)' = Lost(r)
         /\ Top.op \in BlockOns /\ ~Reserves(stack[Depth]) /\ Reserves(stack'[Depth])
<1>1. /\ Depth \in Nat \ {0} /\ Depth' = Depth
      /\ \A i \in 1..Depth : stack'[i].rt = stack[i].rt /\ stack'[i].op = stack[i].op
      /\ \A i \in 1..(Depth - 1) : stack'[i] = stack[i]
      /\ stack'[Depth].done = Top.done + 1
  BY StepDone DEF Reserve
<1>2. /\ Top = stack[Depth] /\ Top.done \in Nat /\ Top.op \in Ops
      /\ Len(Steps[Top.op]) \in Nat /\ Top.done + 1 \in 1..Len(Steps[Top.op])
      /\ Steps[Top.op][Top.done + 1] = "reserve"
  BY <1>1, TopCall DEF ContextInv, Reserve, AboutTo, InBody
<1>3. Top.op \in BlockOns /\ Reserves(stack'[Depth]) /\ ~Reserves(stack[Depth])
  <2>1. /\ Top.op \in BlockOns
        /\ \A j \in 1..Len(Steps[Top.op]) :
             Steps[Top.op][j] = "reserve" => j = Top.done + 1
    BY <1>2, StepsOrder
  <2>2. Depth \in 1..Depth /\ Top.done + 1 \in 1..(Top.done + 1)
    BY <1>1, <1>2
  <2>3. Reserves(stack'[Depth])
    BY <1>1, <1>2, <2>1, <2>2 DEF Reserves
  <2>4. ASSUME NEW j \in 1..Top.done PROVE Steps[Top.op][j] # "reserve"
    BY <1>2, <2>1
  <2>5. QED
    BY <1>2, <2>1, <2>3, <2>4 DEF Reserves
<1>4. \A i \in 1..Depth : i = Depth \/ i \in 1..(Depth - 1)
  BY <1>1
<1>5. reserved \in [Compat -> Int] /\ reserved' = [reserved EXCEPT ![Top.rt] = @ + 1]
  BY DEF Reserve, ContextInv, CallTypes
<1>6. CASE Top.rt = r
  <2>1. Holding(r)' = Holding(r) \union {Depth} /\ Depth \notin Holding(r)
    BY <1>1, <1>2, <1>3, <1>4, <1>6 DEF Holding
  <2>2. Cardinality(Holding(r)') = Cardinality(Holding(r)) + 1
    BY <2>1, HoldingFinite, FS_AddElement
  <2>3. reserved'[r] = reserved[r] + 1
    BY <1>5, <1>6
  <2>4. QED
    BY <1>3, <1>5, <2>2, <2>3, LostIs, HoldingFinite
<1>7. CASE Top.rt # r
  <2>1. Holding(r)' = Holding(r)
    BY <1>1, <1>2, <1>3, <1>4, <1>7 DEF Holding
  <2>2. reserved'[r] = reserved[r]
    BY <1>5, <1>7
  <2>3. QED
    BY <1>3, <2>1, <2>2, LostIs
<1>8. QED
  BY <1>6, <1>7

\* A call of block_on that runs its future has reserved.
LEMMA BodyReserved ==
  ASSUME ContextInv, NEW i \in 1..Depth, InBody(stack[i]), stack[i].op \in BlockOns
  PROVE  Reserves(stack[i])
<1>1. stack[i] \in Calls
  BY DEF ContextInv, CallTypes, Depth
<1>2. stack[i].op \in Ops
  BY <1>1 DEF Calls
<1>3. QED
  BY <1>2, StepsOrder DEF Reserves, InBody

\* The number of reservations of r that no call holds changes only when a panic
\* leaves a call that holds one.
LEMMA LostStep ==
  ASSUME ContextInv, Next, NEW r \in Compat
  PROVE  \/ Lost(r)' = Lost(r)
         \/ /\ Unwind /\ Depth > 0 /\ Top.rt = r /\ Reserves(Top)
            /\ Lost(r)' = Lost(r) + 1
<1> DEFINE Goal ==
      \/ Lost(r)' = Lost(r)
      \/ /\ Unwind /\ Depth > 0 /\ Top.rt = r /\ Reserves(Top)
         /\ Lost(r)' = Lost(r) + 1
<1>1. reserved \in [Compat -> Int]
  BY DEF ContextInv, CallTypes
<1>2. Holding(r)' = Holding(r) /\ reserved' = reserved => Goal
  BY LostIs
<1>3. ASSUME NEW q \in Compat \union {Foreign}, NEW op \in OpsOf(q), Call(q, op)
      PROVE  Goal
  <2> DEFINE c == [rt |-> q, op |-> op, done |-> 0]
  <2>1. /\ Depth \in Nat /\ stack' = Append(stack, c) /\ stack \in Seq(Calls)
        /\ reserved' = reserved
    BY <1>3 DEF Call, ContextInv, CallTypes, Depth
  <2>2. /\ Depth' = Depth + 1 /\ stack'[Depth + 1] = c
        /\ \A i \in 1..Depth : stack'[i] = stack[i]
    BY <2>1 DEF Depth
  <2>3. ~Reserves(c)
    BY DEF Reserves
  <2>4. \A i \in 1..(Depth + 1) : i \in 1..Depth \/ i = Depth + 1
    BY <2>1
  <2>5. 1..Depth \subseteq 1..(Depth + 1)
    BY <2>1
  <2>6. Holding(r)' = Holding(r)
    BY <2>2, <2>3, <2>4, <2>5 DEF Holding
  <2>7. QED
    BY <1>2, <2>1, <2>6
<1>4. CASE Reserve
  BY <1>4, ReserveHeld
<1>5. ASSUME NEW s \in Slots, AboutTo(s), Done, reserved' = reserved PROVE Goal
  BY <1>2, <1>5, SlotCountsNothing
<1>6. CASE WithIdle
  BY <1>5, <1>6, IdleEmpty DEF WithIdle, NeverEnteredTwice, Slots
<1>7. ASSUME NEW s \in Slots \ {"idle"}, Install(s) PROVE Goal
  BY <1>5, <1>7 DEF Install
<1>8. ASSUME UNCHANGED <<stack, reserved>> PROVE Goal
  BY <1>2, <1>8 DEF Holding, Depth
<1>9. ASSUME Depth > 0, Leave
      PROVE  /\ Depth \in 1..Depth /\ Top = stack[Depth]
             /\ Holding(r)' = Holding(r) \ {Depth}
  <2>1. /\ Depth \in Nat \ {0} /\ Depth' = Depth - 1
        /\ \A i \in 1..(Depth - 1) : stack'[i] = stack[i]
    BY <1>9, Popping DEF Leave
  <2>2. \A i : i \in 1..(Depth - 1) <=> i \in 1..Depth /\ i # Depth
    BY <2>1
  <2>3. QED
    BY <2>1, <2>2 DEF Holding, Top
<1>10. ASSUME Depth > 0, Leave, Top.rt = r, Reserves(Top)
       PROVE  Cardinality(Holding(r)') = Cardinality(Holding(r)) - 1
  <2>1. Depth \in Holding(r) /\ Holding(r)' = Holding(r) \ {Depth}
    BY <1>9, <1>10 DEF Holding
  <2>2. QED
    BY <2>1, HoldingFinite, FS_RemoveElement
<1>11. ASSUME Depth > 0, Leave, ~(Top.rt = r /\ Reserves(Top))
       PROVE  Holding(r)' = Holding(r)
  BY <1>9, <1>11 DEF Holding
<1>12. CASE Return
  <2>1. Depth > 0 /\ InBody(Top) /\ Leave
    BY <1>12 DEF Return
  <2>2. CASE Top.op \in BlockOns
    <3>1. Reserves(Top)
      BY <1>9, <2>1, <2>2, BodyReserved
    <3>2. reserved' = [reserved EXCEPT ![Top.rt] = @ - 1]
      BY <1>12, <2>2 DEF Return
    <3>3. CASE Top.rt = r
      <4>1. reserved'[r] = reserved[r] - 1 /\ reserved[r] \in Int
        BY <1>1, <3>2, <3>3
      <4>2. QED
        BY <1>10, <2>1, <3>1, <3>3, <4>1, LostIs, HoldingFinite
    <3>4. CASE Top.rt # r
      <4>1. reserved'[r] = reserved[r]
        BY <1>1, <3>2, <3>4
      <4>2. QED
        BY <1>11, <2>1, <3>4, <4>1, LostIs
    <3>5. QED
      BY <3>3, <3>4
  <2>3. CASE Top.op \notin BlockOns
    <3>1. ~Reserves(Top) /\ reserved' = reserved
      BY <1>12, <2>3 DEF Return, Reserves
    <3>2. QED
      BY <1>2, <1>11, <2>1, <3>1
  <2>4. QED
    BY <2>2, <2>3
<1>13. CASE Unwind
  <2>1. Depth > 0 /\ Leave /\ reserved' = reserved
    BY <1>13 DEF Unwind, ContextInv, PanicBegan
  <2>2. CASE Top.rt = r /\ Reserves(Top)
    <3>1. reserved'[r] = reserved[r] /\ reserved[r] \in Int
      BY <1>1, <2>1
    <3>2. QED
      BY <1>10, <1>13, <2>1, <2>2, <3>1, LostIs, HoldingFinite
  <2>3. CASE ~(Top.rt = r /\ Reserves(Top))
    BY <1>2, <1>11, <2>1, <2>3
  <2>4. QED
    BY <2>2, <2>3
<1>14. QED
  BY <1>3, <1>4, <1>6, <1>7, <1>8, <1>12, <1>13 DEF Next, Refuse, Panic

\* block_on of a current-thread runtime takes the Enter flag and the timer before
\* it reserves.  Who has the slot that stops it afterwards has neither, and so is
\* a tokio 0.2 runtime.
LEMMA RefusedByForeign ==
  ASSUME ContextInv, unwinding, ~InBody(Top), Top.rt \in Locals, Reserves(Top)
  PROVE  slot["run02"] = Foreign
<1>1. /\ Depth \in Nat \ {0} /\ Top = stack[Depth] /\ Top.done \in Nat
      /\ Top.op \in OpsOf(Top.rt) /\ Top.done < Len(Steps[Top.op])
      /\ slot[Steps[Top.op][Top.done + 1]] # None
  BY TopCall DEF ContextInv, PanicBegan, InBody
<1>2. Top.op = "local_block_on"
  BY <1>1, DistinctRuntimes DEF Reserves, BlockOns, OpsOf, LocalOps
<1>3. /\ Len(Steps[Top.op]) = 7
      /\ Steps[Top.op][1] = "enter" /\ Steps[Top.op][2] = "reactor"
      /\ Steps[Top.op][3] = "timer" /\ Steps[Top.op][4] = "reserve"
      /\ Steps[Top.op][5] = "executor" /\ Steps[Top.op][6] = "idle"
      /\ Steps[Top.op][7] = "run02"
  BY <1>2 DEF Steps, BlockOnSteps
<1>4. Top.done \in 4..6
  BY <1>1, <1>3 DEF Reserves
<1>5. "enter" \in Held(Top) /\ "timer" \in Held(Top)
  BY <1>3, <1>4 DEF Held
<1> DEFINE s == Steps[Top.op][Top.done + 1]
<1>6. s \in {"executor", "idle", "run02"} /\ s \notin Held(Top)
  BY <1>3, <1>4 DEF Held
<1>7. PICK i \in 1..Depth : s \in Held(stack[i]) /\ slot[s] = stack[i].rt
  BY <1>1, <1>6 DEF ContextInv, Owned, Slots
<1>8. /\ i # Depth /\ i \in 1..(Depth - 1) /\ InBody(stack[i])
      /\ stack[i] \in Calls /\ stack[i].op \in Ops /\ stack[i].op \in OpsOf(stack[i].rt)
  <2>1. i # Depth /\ i \in 1..(Depth - 1)
    BY <1>1, <1>6, <1>7
  <2>2. stack[i] \in Calls
    BY DEF ContextInv, CallTypes, Depth
  <2>3. QED
    BY <2>1, <2>2 DEF ContextInv, CallTypes, Calls
<1>9. "enter" \notin Held(stack[i]) /\ "timer" \notin Held(stack[i])
  <2>1. Depth \in 1..Depth
    BY <1>1
  <2>2. ASSUME NEW u \in Slots, u \in Held(Top) PROVE u \notin Held(stack[i])
    BY <1>1, <1>8, <2>1, <2>2 DEF ContextInv, Owned
  <2>3. QED
    BY <1>5, <2>2 DEF Slots
<1>10. stack[i].op \in ForeignOps
  <2> SUFFICES ASSUME stack[i].op \notin ForeignOps PROVE FALSE
    OBVIOUS
  <2>1. PICK j \in 1..Len(Steps[stack[i].op]) : Steps[stack[i].op][j] = "timer"
    BY <1>8, StepsOrder
  <2>2. QED
    BY <1>8, <1>9, <2>1 DEF Held, InBody
<1>11. stack[i].op = "tokio02"
  <2> SUFFICES ASSUME stack[i].op = "tokio01" PROVE FALSE
    BY <1>10 DEF ForeignOps
  <2>1. Len(Steps[stack[i].op]) = 2 /\ Steps[stack[i].op][1] = "enter"
    BY DEF Steps
  <2>2. QED
    BY <1>8, <1>9, <2>1 DEF Held, InBody
<1>12. s = "run02"
  <2>1. Len(Steps[stack[i].op]) = 1 /\ Steps[stack[i].op][1] = "run02"
    BY <1>11 DEF Steps
  <2>2. QED
    BY <1>7, <1>8, <2>1 DEF Held, InBody
<1>13. stack[i].rt = Foreign
  BY <1>8, <1>11, DistinctRuntimes DEF OpsOf, LocalOps, Calls, Compat
<1>14. QED
  BY <1>7, <1>12, <1>13

\* runtime.rs, block_on: a call that is refused leaves no reservation behind that
\* would keep a later run waiting.
THEOREM RefusedCorrect == Spec => RefusedUncounted
<1>1. ContextInv /\ [Next]_vars =>
        [\A r \in Locals :
           Lost(r)' > Lost(r) => InBody(Top) \/ slot["run02"] = Foreign]_vars
  <2> SUFFICES ASSUME ContextInv, Next, NEW r \in Locals,
                      Lost(r)' > Lost(r), ~InBody(Top)
               PROVE  slot["run02"] = Foreign
    BY DEF vars
  <2>1. r \in Compat /\ reserved[r] \in Int
    BY DEF ContextInv, CallTypes, Compat
  <2>2. Lost(r) \in Int
    BY <2>1, LostIs, HoldingFinite
  <2>3. Unwind /\ Top.rt = r /\ Reserves(Top)
    BY <2>1, <2>2, LostStep
  <2>4. QED
    BY <2>3, RefusedByForeign DEF Unwind
<1>2. QED
  BY <1>1, ContextInvCorrect, PTL DEF Spec, RefusedUncounted
-----------------------------------------------------------------------------
\* No reservation is given back twice, none is taken beyond the bound, and only
\* shutdown_on_idle consumes a runtime.
CountInv ==
  /\ \A r \in Compat : Lost(r) >= 0 /\ reserved[r] <= MaxReserved
  /\ Depth > 0 /\ Top.op \in BlockOns /\ ~Reserves(Top) =>
       reserved[Top.rt] < MaxReserved
  /\ gone \subseteq Pools

\* The counters and the consumed runtimes follow the calls.
LEMMA CountStep ==
  ASSUME ContextInv, CountInv, Next
  PROVE  CountInv'
<1>1. reserved \in [Compat -> Int] /\ MaxReserved \in Nat
  BY DistinctRuntimes DEF ContextInv, CallTypes
<1>2. ASSUME NEW r \in Compat PROVE Lost(r)' >= 0
  <2>1. Lost(r) \in Int /\ Lost(r) >= 0
    BY <1>1, LostIs, HoldingFinite DEF CountInv
  <2>2. QED
    BY <2>1, LostStep
<1>3. ASSUME Depth > 0, Top.op \in BlockOns PROVE Top.rt \in Compat
  <2>1. Top.op \in OpsOf(Top.rt) /\ Top.rt \in Compat \union {Foreign}
    BY <1>3, TopCall DEF ContextInv, Calls
  <2>2. QED
    BY <1>3, <2>1, DistinctRuntimes DEF OpsOf, LocalOps, ForeignOps, BlockOns, Compat
<1>4. ASSUME NEW r \in Compat PROVE reserved'[r] <= MaxReserved
  <2>1. CASE reserved' = reserved
    BY <2>1 DEF CountInv
  <2>2. CASE Reserve
    <3>1. /\ Depth > 0 /\ Top.op \in BlockOns /\ ~Reserves(Top)
          /\ reserved' = [reserved EXCEPT ![Top.rt] = @ + 1]
      BY <2>2, ReserveHeld DEF Reserve, AboutTo, Top
    <3>2. reserved[Top.rt] < MaxReserved /\ Top.rt \in Compat
      BY <1>3, <3>1 DEF CountInv
    <3>3. QED
      BY <1>1, <3>1, <3>2 DEF CountInv
  <2>3. CASE reserved' = [reserved EXCEPT ![Top.rt] = @ - 1]
    BY <1>1, <2>3 DEF CountInv
  <2>4. QED
    BY <2>1, <2>2, <2>3
    DEF Next, Call, WithIdle, Install, Refuse, Return, Panic, Unwind
<1>5. ASSUME Depth' > 0, Top'.op \in BlockOns, ~Reserves(Top')
      PROVE  reserved'[Top'.rt] < MaxReserved
  <2>1. ASSUME NEW q \in Compat \union {Foreign}, NEW op \in OpsOf(q), Call(q, op)
        PROVE  reserved'[Top'.rt] < MaxReserved
    <3> DEFINE c == [rt |-> q, op |-> op, done |-> 0]
    <3>1. stack' = Append(stack, c) /\ stack \in Seq(Calls) /\ reserved' = reserved
      BY <2>1 DEF Call, ContextInv, CallTypes
    <3>2. Top' = c
      BY <3>1 DEF Top, Depth
    <3>3. c.rt = q /\ c.op = op
      OBVIOUS
    <3>4. op \in BlockOns
      BY <1>5, <3>2, <3>3
    <3>5. QED
      BY <2>1, <3>1, <3>2, <3>3, <3>4 DEF Call
  <2>2. CASE Reserve
    <3>1. Depth' = Depth
      BY <2>2, StepDone DEF Reserve
    <3>2. \A r \in Compat : Reserves(stack'[Depth])
      BY <2>2, ReserveHeld
    <3>3. Top' = stack'[Depth]
      BY <3>1 DEF Top
    <3>4. Depth > 0 /\ Top.rt \in Compat \union {Foreign} /\ Top.op \in OpsOf(Top.rt)
      BY <2>2, TopCall DEF Reserve, AboutTo, ContextInv, Calls
    <3>5. Top'.op = Top.op
      BY <2>2, <3>3, StepDone DEF Reserve, Top
    <3>6. Top.rt \in Compat
      BY <1>3, <1>5, <3>4, <3>5
    <3>7. QED
      BY <1>5, <3>2, <3>3, <3>6
  <2>3. ASSUME NEW s \in Slots, AboutTo(s), Done, reserved' = reserved
        PROVE  reserved'[Top'.rt] < MaxReserved
    <3>1. /\ Depth \in 1..Depth /\ Depth > 0
          /\ Top' = stack'[Depth] /\ Top = stack[Depth]
          /\ stack'[Depth].rt = stack[Depth].rt /\ stack'[Depth].op = stack[Depth].op
      BY <2>3, StepDone DEF Top
    <3>2. Reserves(stack'[Depth]) <=> Reserves(stack[Depth])
      BY <2>3, SlotCountsNothing
    <3>3. QED
      BY <1>5, <2>3, <3>1, <3>2 DEF CountInv
  <2>4. CASE WithIdle
    BY <2>3, <2>4, IdleEmpty DEF WithIdle, NeverEnteredTwice, Slots
  <2>5. ASSUME NEW s \in Slots \ {"idle"}, Install(s)
        PROVE  reserved'[Top'.rt] < MaxReserved
    BY <2>3, <2>5 DEF Install
  <2>6. ASSUME UNCHANGED <<stack, reserved>> PROVE reserved'[Top'.rt] < MaxReserved
    BY <1>5, <2>6 DEF CountInv, Top, Depth
  <2>7. ASSUME Depth > 0, Leave PROVE FALSE
    <3>1. /\ Depth \in Nat \ {0} /\ Depth' = Depth - 1
          /\ \A i \in 1..(Depth - 1) : stack'[i] = stack[i]
      BY <2>7, Popping DEF Leave
    <3>2. Depth - 1 \in 1..(Depth - 1) /\ Depth - 1 \in 1..Depth
      BY <1>5, <3>1
    <3>3. Top' = stack[Depth - 1] /\ InBody(stack[Depth - 1])
      BY <3>1, <3>2 DEF Top, ContextInv, CallTypes
    <3>4. QED
      BY <1>5, <3>2, <3>3, BodyReserved
  <2>8. ~Return /\ ~Unwind
    BY <2>7 DEF Return, Unwind, ContextInv, PanicBegan
  <2>9. QED
    BY <2>1, <2>2, <2>4, <2>5, <2>6, <2>8 DEF Next, Refuse, Panic
<1>6. gone' \subseteq Pools
  <2>1. CASE gone' = gone
    BY <2>1 DEF CountInv
  <2>2. CASE Leave /\ Depth > 0
    <3>1. Top.op \in OpsOf(Top.rt)
      BY <2>2, TopCall DEF ContextInv
    <3>2. Top.op = "pool_shutdown" => Top.rt \in Pools
      BY <3>1 DEF OpsOf, LocalOps, ForeignOps
    <3>3. QED
      BY <2>2, <3>2 DEF Leave, CountInv
  <2>3. QED
    BY <2>1, <2>2
    DEF Next, Call, Reserve, WithIdle, Install, Refuse, Return, Panic, Unwind,
        ContextInv, PanicBegan
<1>7. QED
  BY <1>2, <1>4, <1>5, <1>6 DEF CountInv

\* Every reachable state is well typed; in particular no counter falls below zero.
THEOREM TypeCorrect == Spec => []TypeOK
<1>1. Init /\ ContextInv => CountInv
  <2> SUFFICES ASSUME Init, ContextInv PROVE CountInv
    OBVIOUS
  <2>1. Depth = 0
    BY DEF Init, Depth
  <2>2. ASSUME NEW r \in Compat PROVE Lost(r) = 0 /\ reserved[r] = 0
    <3>1. Holding(r) = {}
      BY <2>1 DEF Holding
    <3>2. reserved[r] = 0
      BY DEF Init
    <3>3. Cardinality(Holding(r)) = 0
      BY <3>1, FS_EmptySet
    <3>4. Lost(r) = reserved[r] - Cardinality(Holding(r))
      BY LostIs
    <3>5. QED
      BY <3>2, <3>3, <3>4
  <2>3. QED
    BY <2>1, <2>2, DistinctRuntimes DEF Init, CountInv
<1>2. ContextInv /\ CountInv /\ [Next]_vars => CountInv'
  <2> SUFFICES ASSUME ContextInv, CountInv, UNCHANGED vars PROVE CountInv'
    BY CountStep
  <2>1. \A r : Lost(r)' = Lost(r)
    BY DEF vars, Lost, Depth, Reserves
  <2>2. QED
    BY <2>1 DEF vars, CountInv, Depth, Top, Reserves
<1>3. ContextInv /\ CountInv => TypeOK
  <2> SUFFICES ASSUME ContextInv, CountInv PROVE TypeOK
    OBVIOUS
  <2>1. ASSUME NEW i \in 1..Depth
        PROVE  /\ stack[i].rt \in Compat \union {Foreign}
               /\ stack[i].op \in OpsOf(stack[i].rt)
               /\ stack[i].done \in 0..Len(Steps[stack[i].op])
    <3>1. stack[i] \in Calls
      BY DEF ContextInv, CallTypes, Depth
    <3>2. Len(Steps[stack[i].op]) \in Nat
      BY <3>1, StepsOrder DEF Calls
    <3>3. QED
      BY <3>1, <3>2 DEF Calls, ContextInv, CallTypes
  <2>2. reserved \in [Compat -> 0..MaxReserved]
    <3>1. reserved \in [Compat -> Int] /\ MaxReserved \in Nat
      BY DistinctRuntimes DEF ContextInv, CallTypes
    <3>2. ASSUME NEW r \in Compat PROVE reserved[r] \in 0..MaxReserved
      BY <3>1, LostIs, HoldingFinite DEF CountInv
    <3>3. QED
      BY <3>1, <3>2
  <2>3. QED
    BY <2>1, <2>2 DEF TypeOK, ContextInv, CallTypes, CountInv
<1>4. QED
  BY <1>1, <1>2, <1>3, ContextInvCorrect, PTL DEF Spec
=============================================================================
