------------------------ MODULE CompatRuntimeProofs ------------------------
(***************************************************************************)
(* Proofs about module CompatRuntime, for any set of tasks: each task has  *)
(* one end, and the runtime contains the abstract wait for idleness.       *)
(***************************************************************************)
EXTENDS CompatRuntime, TLAPS

\* The outcomes are outcomes of begun tasks, and exclude each other.
OutcomeInv == TypeOK /\ EndsOnce

\* A task ends only while it is live, or in the step that begins it.
LEMMA StepOutcomeInv ==
  ASSUME OutcomeInv, [Next]_vars
  PROVE  OutcomeInv'
<1> USE DEF OutcomeInv, TypeOK, EndsOnce
<1>1. ASSUME NEW t \in Tasks, Begin(t) PROVE OutcomeInv'
  BY <1>1 DEF Begin
<1>2. ASSUME NEW t \in Tasks, Run(t) PROVE OutcomeInv'
  BY <1>2 DEF Run, Live
<1>3. ASSUME NEW t \in Tasks, Fail(t) PROVE OutcomeInv'
  BY <1>3 DEF Fail, Live
<1>4. ASSUME NEW t \in Tasks, Cancel(t) PROVE OutcomeInv'
  BY <1>4 DEF Cancel, Live
<1>5. CASE Wait \/ Return \/ End
  BY <1>5 DEF Wait, Return, End
<1>6. CASE UNCHANGED vars
  BY <1>6 DEF vars
<1>7. QED
  BY <1>1, <1>2, <1>3, <1>4, <1>5, <1>6 DEF Next

\* In every state the outcomes of the tasks are as OutcomeInv says.
THEOREM OutcomeInvCorrect == Spec => []OutcomeInv
<1>1. Init => OutcomeInv
  BY DEF Init, OutcomeInv, TypeOK, EndsOnce
<1>2. QED
  BY <1>1, StepOutcomeInv, PTL DEF Spec

\* Only tasks that were given to the runtime have an outcome, or are counted.
THEOREM TypeCorrect == Spec => []TypeOK
<1>1. OutcomeInv => TypeOK
  BY DEF OutcomeInv
<1>2. QED
  BY <1>1, OutcomeInvCorrect, PTL

\* No task runs and is lost, or is lost in two ways.
THEOREM EndsOnceCorrect == Spec => []EndsOnce
<1>1. OutcomeInv => EndsOnce
  BY DEF OutcomeInv
<1>2. QED
  BY <1>1, OutcomeInvCorrect, PTL
-----------------------------------------------------------------------------
\* Every step of the runtime is one of the gate, or nothing the gate can see.
LEMMA StepRefines ==
  ASSUME OutcomeInv, [Next]_vars
  PROVE  [Gate!Next]_(Gate!vars)
<1> USE DEF OutcomeInv, TypeOK, Gate!vars
<1>1. ASSUME NEW t \in Tasks, Begin(t)
      PROVE  Gate!Begin(t) \/ UNCHANGED Gate!vars
  <2>1. t \notin counted /\ t \notin ran /\ UNCHANGED <<ran, phase>>
    BY <1>1 DEF Begin
  <2>2. CASE counted' = counted
    BY <2>1, <2>2
  <2>3. CASE counted' = counted \union {t}
    <3>1. (counted \ ran)' = (counted \ ran) \union {t}
      BY <2>1, <2>3
    <3>2. QED
      BY <2>1, <3>1 DEF Gate!Begin
  <2>4. QED
    BY <1>1, <2>2, <2>3 DEF Begin
<1>2. ASSUME NEW t \in Tasks, Run(t)
      PROVE  Gate!Finish(t) \/ UNCHANGED Gate!vars
  <2>1. t \notin ran /\ ran' = ran \union {t} /\ UNCHANGED <<counted, phase>>
    BY <1>2 DEF Run, Live
  <2>2. (counted \ ran)' = (counted \ ran) \ {t}
    BY <2>1
  <2>3. CASE t \in counted
    BY <2>1, <2>2, <2>3 DEF Gate!Finish
  <2>4. CASE t \notin counted
    BY <2>1, <2>2, <2>4
  <2>5. QED
    BY <2>3, <2>4
<1>3. ASSUME NEW t \in Tasks, Fail(t) \/ Cancel(t) PROVE UNCHANGED Gate!vars
  BY <1>3 DEF Fail, Cancel
<1>4. ASSUME Wait PROVE Gate!Wait
  BY <1>4 DEF Wait, Gate!Wait
<1>5. ASSUME Return PROVE Gate!Return
  BY <1>5 DEF Return, Gate!Return
<1>6. ASSUME End \/ UNCHANGED vars PROVE UNCHANGED Gate!vars
  BY <1>6 DEF End, vars
<1>7. QED
  BY <1>1, <1>2, <1>3, <1>4, <1>5, <1>6 DEF Next, Gate!Next

\* The promise of the runtimes contains that of idle.rs: whoever waits is let go
\* only when no counted task is left that has not run.
THEOREM Refinement == Spec => RefinesWaitIdle
<1>1. Init => Gate!Init
  BY DEF Init, Gate!Init
<1>2. QED
  BY <1>1, StepRefines, OutcomeInvCorrect, PTL DEF Spec, RefinesWaitIdle, Gate!Safety
=============================================================================
