----------------------------- MODULE IdleProofs -----------------------------
(***************************************************************************)
(* Proofs about module Idle, for every finite set of Tracks: the counter   *)
(* is exact, no wake-up is lost, idle() returns only when nothing is       *)
(* outstanding, hence never once a task was lost, and the protocol         *)
(* implements WaitIdle.                                                    *)
(***************************************************************************)
EXTENDS Idle, FiniteSetTheorems, TLAPS

\* Neither conjunct of interest is inductive by itself: that fetch_sub stays in
\* Nat needs the exact counter, and the exact counter needs the types.
IInv == TypeOK /\ CounterExact /\ NoLostWakeup

\* The outstanding reservations are finitely many.
LEMMA CountedFinite == IsFiniteSet(Counted)
BY TasksAssumption, FS_Subset DEF Counted

\* reserve() adds exactly one element to the outstanding reservations.
LEMMA ReserveCounts ==
  ASSUME TypeOK, NEW t \in Tasks, Reserve(t)
  PROVE  /\ Counted' = Counted \union {t}
         /\ t \notin Counted
BY DEF TypeOK, Reserve, Counted, TrackState

\* with() takes exactly one element out when its future is ready.
LEMMA CompleteCounts ==
  ASSUME TypeOK, NEW t \in Tasks, Complete(t)
  PROVE  /\ Counted' = Counted \ {t}
         /\ t \in Counted
BY DEF TypeOK, Complete, Counted, TrackState

\* Nothing else moves the set, a lost Track least of all.
LEMMA OthersKeepCounted ==
  ASSUME TypeOK,
         \/ \E t \in Tasks : Send(t) \/ Lose(t)
         \/ CallIdle \/ Load \/ Recv
         \/ UNCHANGED vars
  PROVE  Counted' = Counted
BY DEF TypeOK, Send, Lose, CallIdle, Load, Recv, vars, Counted, TrackState

\* Idle::new establishes the inductive invariant.
LEMMA InitIInv == Init => IInv
<1> SUFFICES ASSUME Init PROVE IInv
  OBVIOUS
<1>1. TypeOK
  BY DEF Init, TypeOK, TrackState, RxState
<1>2. Counted = {}
  BY DEF Init, Counted
<1>3. CounterExact
  BY <1>2, FS_EmptySet DEF CounterExact, Init
<1>4. NoLostWakeup
  BY DEF Init, NoLostWakeup
<1>5. QED
  BY <1>1, <1>3, <1>4 DEF IInv

\* Every operation of idle.rs, by whichever thread, preserves it.
LEMMA NextIInv == IInv /\ [Next]_vars => IInv'
<1> SUFFICES ASSUME IInv, [Next]_vars PROVE IInv'
  OBVIOUS
<1> USE DEF IInv
<1>f. IsFiniteSet(Counted) /\ Cardinality(Counted) \in Nat
  BY CountedFinite, FS_CardinalityType
<1>1. ASSUME NEW t \in Tasks, Reserve(t) PROVE IInv'
  <2>1. TypeOK'
    BY <1>1 DEF TypeOK, Reserve, TrackState
  <2>2. Counted' = Counted \union {t} /\ t \notin Counted
    BY <1>1, ReserveCounts
  <2>3. Cardinality(Counted') = Cardinality(Counted) + 1
    BY <2>2, <1>f, FS_AddElement
  <2>4. CounterExact'
    BY <2>3, <1>1 DEF CounterExact, Reserve
  <2>5. NoLostWakeup'
    BY <1>1, <2>1 DEF NoLostWakeup, Reserve, TypeOK
  <2>6. QED
    BY <2>1, <2>4, <2>5
<1>2. ASSUME NEW t \in Tasks, Complete(t) PROVE IInv'
  <2>1. Counted' = Counted \ {t} /\ t \in Counted
    BY <1>2, CompleteCounts
  <2>2. Cardinality(Counted') = Cardinality(Counted) - 1
    BY <2>1, <1>f, FS_RemoveElement
  <2>3. IsFiniteSet(Counted') /\ Cardinality(Counted') \in Nat
    BY <2>1, <1>f, FS_RemoveElement, FS_CardinalityType
  <2>4. CounterExact'
    BY <2>2, <1>2 DEF CounterExact, Complete
  <2>5. TypeOK'
    BY <1>2, <2>3, <2>4 DEF TypeOK, CounterExact, Complete, TrackState
  <2>6. NoLostWakeup'
    BY <1>2, <2>5 DEF NoLostWakeup, Complete, TypeOK
  <2>7. QED
    BY <2>4, <2>5, <2>6
<1>3. ASSUME NEW t \in Tasks, Send(t) PROVE IInv'
  <2>1. Counted' = Counted
    BY <1>3, OthersKeepCounted
  <2>2. TypeOK' /\ CounterExact'
    BY <1>3, <2>1 DEF TypeOK, CounterExact, Send, TrackState
  <2>3. NoLostWakeup'
    BY <1>3 DEF NoLostWakeup, Send, TypeOK
  <2>4. QED
    BY <2>2, <2>3
<1>4. ASSUME NEW t \in Tasks, Lose(t) PROVE IInv'
  <2>1. Counted' = Counted
    BY <1>4, OthersKeepCounted
  <2>2. TypeOK' /\ CounterExact'
    BY <1>4, <2>1 DEF TypeOK, CounterExact, Lose, TrackState
  <2>3. NoLostWakeup'
    BY <1>4 DEF NoLostWakeup, Lose, TypeOK
  <2>4. QED
    BY <2>2, <2>3
<1>5. ASSUME CallIdle \/ Load \/ Recv PROVE IInv'
  <2>1. Counted' = Counted
    BY <1>5, OthersKeepCounted
  <2>2. TypeOK' /\ CounterExact'
    BY <1>5, <2>1 DEF TypeOK, CounterExact, CallIdle, Load, Recv, RxState
  <2>3. NoLostWakeup'
    BY <1>5 DEF NoLostWakeup, CallIdle, Load, Recv, TypeOK
  <2>4. QED
    BY <2>2, <2>3
<1>6. ASSUME UNCHANGED vars PROVE IInv'
  BY <1>6, OthersKeepCounted
  DEF vars, TypeOK, CounterExact, NoLostWakeup
<1>7. QED
  BY <1>1, <1>2, <1>3, <1>4, <1>5, <1>6 DEF Next

\* The inductive invariant holds throughout, whatever the interleaving of
\* reserve(), with() and idle().
THEOREM IInvCorrect == Spec => []IInv
<1>1. QED
  BY InitIInv, NextIInv, PTL DEF Spec

\* The counter never goes below zero and the rest is well typed.
THEOREM TypeCorrect == Spec => []TypeOK
<1>1. IInv => TypeOK
  BY DEF IInv
<1>2. QED
  BY <1>1, IInvCorrect, PTL

\* idle.rs: the counter equals the number of reservations not given back.
THEOREM CounterCorrect == Spec => []CounterExact
<1>1. IInv => CounterExact
  BY DEF IInv
<1>2. QED
  BY <1>1, IInvCorrect, PTL

\* idle.rs: the receiver is never asleep with the counter at zero and no
\* notification there or on its way.
THEOREM WakeupCorrect == Spec => []NoLostWakeup
<1>1. IInv => NoLostWakeup
  BY DEF IInv
<1>2. QED
  BY <1>1, IInvCorrect, PTL

\* With the exact counter, what the loop test reads is whether a reservation
\* is outstanding.
LEMMA ZeroIffNoneCounted == IInv => (spawned = 0 <=> Counted = {})
BY CountedFinite, FS_EmptySet DEF IInv, CounterExact

\* A step that leaves idle() is the loop test reading zero.
LEMMA LeavesByLoad ==
  ASSUME [Next]_vars, rx # "out", rx' = "out"
  PROVE  Load /\ spawned = 0 /\ rx = "load"
BY DEF Next, vars, Reserve, Complete, Send, Lose, CallIdle, Load, Recv

\* idle() returns only in a step at which no reservation is outstanding.
THEOREM ReturnCorrect == Spec => ReturnsOnlyIdle
<1>1. IInv /\ [Next]_vars => [rx # "out" /\ rx' = "out" => Counted = {}]_vars
  BY LeavesByLoad, ZeroIffNoneCounted
<1>2. QED
  BY <1>1, IInvCorrect, PTL DEF Spec, ReturnsOnlyIdle

\* The converse of HangsOnlyOnLostTask: once a counted task was lost, idle() never
\* returns again, whatever else completes or is reserved.
THEOREM LostTaskHangs ==
  ASSUME NEW t \in Tasks
  PROVE  Spec => [](track[t] = "lost" /\ rx # "out" => [](rx # "out"))
<1> DEFINE Hung == track[t] = "lost" /\ rx # "out"
<1>1. IInv /\ Hung /\ [Next]_vars => Hung'
  <2> SUFFICES ASSUME IInv, Hung, [Next]_vars PROVE Hung'
    OBVIOUS
  <2>1. track'[t] = "lost"
    BY DEF IInv, TypeOK, Next, vars, Reserve, Complete, Send, Lose, CallIdle, Load, Recv
  <2>2. Counted # {}
    BY DEF Counted
  <2>3. rx' # "out"
    BY <2>2, LeavesByLoad, ZeroIffNoneCounted
  <2>4. QED
    BY <2>1, <2>3
<1>2. Hung => rx # "out"
  OBVIOUS
<1> HIDE DEF Hung
<1>3. Spec => [](Hung => [](rx # "out"))
  BY <1>1, <1>2, IInvCorrect, PTL DEF Spec
<1>4. QED
  BY <1>3 DEF Hung
-----------------------------------------------------------------------------
\* Every operation of idle.rs is an operation of the abstract wait, or does
\* nothing it can see.
LEMMA StepRefines ==
  ASSUME IInv, [Next]_vars
  PROVE  [Abs!Next]_(Abs!vars)
<1> USE DEF Abs!Next, Abs!vars
<1>0. TypeOK
  BY DEF IInv
<1>1. ASSUME NEW t \in Tasks, Reserve(t) PROVE Abs!Next
  <2>1. (rx # "out")' = (rx # "out")
    BY <1>1 DEF Reserve
  <2>2. Abs!Begin(t)
    BY <1>0, <1>1, <2>1, ReserveCounts DEF Abs!Begin
  <2>3. QED
    BY <2>2
<1>2. ASSUME NEW t \in Tasks, Complete(t) PROVE Abs!Next
  <2>1. (rx # "out")' = (rx # "out")
    BY <1>2 DEF Complete
  <2>2. Abs!Finish(t)
    BY <1>0, <1>2, <2>1, CompleteCounts DEF Abs!Finish
  <2>3. QED
    BY <2>2
<1>3. ASSUME \/ \E t \in Tasks : Send(t) \/ Lose(t)
             \/ Recv
             \/ UNCHANGED vars
      PROVE  UNCHANGED Abs!vars
  <2>1. Counted' = Counted
    BY <1>0, <1>3, OthersKeepCounted
  <2>2. (rx # "out")' = (rx # "out")
    BY <1>3 DEF Send, Lose, Recv, vars
  <2>3. QED
    BY <2>1, <2>2
<1>4. ASSUME CallIdle PROVE Abs!Wait
  <2>1. Counted' = Counted
    BY <1>0, <1>4, OthersKeepCounted
  <2>2. QED
    BY <2>1, <1>4 DEF Abs!Wait, CallIdle
<1>5. ASSUME Load PROVE Abs!Return \/ UNCHANGED Abs!vars
  <2>1. Counted' = Counted
    BY <1>0, <1>5, OthersKeepCounted
  <2>2. CASE spawned = 0
    BY <1>5, <2>1, <2>2, ZeroIffNoneCounted DEF Abs!Return, Load
  <2>3. CASE spawned # 0
    BY <1>5, <2>1, <2>3 DEF Load
  <2>4. QED
    BY <2>2, <2>3
<1>6. QED
  BY <1>1, <1>2, <1>3, <1>4, <1>5 DEF Next

\* The counter and the channel of idle.rs implement the abstract wait: no
\* caller can tell them from a set of live tasks and a gate that opens on the
\* empty set.
THEOREM Refinement == Spec => RefinesWaitIdle
<1>1. Init => Abs!Init
  <2>1. Init => Counted = {}
    BY DEF Init, Counted
  <2>2. QED
    BY <2>1 DEF Init, Abs!Init
<1>2. IInv /\ [Next]_vars => [Abs!Next]_(Abs!vars)
  BY StepRefines
<1>3. QED
  BY <1>1, <1>2, IInvCorrect, PTL DEF Spec, RefinesWaitIdle, Abs!Safety
=============================================================================
