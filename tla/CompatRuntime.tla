---------------------------- MODULE CompatRuntime ----------------------------
(***************************************************************************)
(* What both runtimes of tokio-compat promise to a program, without their  *)
(* threads, queues, thread-locals and counters: tasks are begun, counted   *)
(* or paired with a JoinHandle; each ends in one way; and a wait for       *)
(* idleness (shutdown_on_idle of the thread pool, run of the current-      *)
(* thread runtime) lets the owner go only when every counted task has run. *)
(* ThreadPool and CurrentThread are shown to implement it.                 *)
(***************************************************************************)
CONSTANT Tasks

VARIABLES
  begun,      \* the tasks given to the runtime
  counted,    \* those of them that it counts
  ran,        \* the tasks that were polled to their end
  failed,     \* the tasks lost to a panic
  cancelled,  \* the tasks the runtime dropped
  phase       \* "open", "waiting" for idleness, "ending" or "over"

vars == <<begun, counted, ran, failed, cancelled, phase>>

Live == begun \ (ran \union failed \union cancelled)

Init ==
  /\ begun = {} /\ counted = {}
  /\ ran = {} /\ failed = {} /\ cancelled = {}
  /\ phase = "open"

\* Another thread may spawn at any time; what comes too late is cancelled.
Begin(t) ==
  /\ t \notin begun
  /\ begun' = begun \union {t}
  /\ counted' \in {counted, counted \union {t}}
  /\ \/ cancelled' = cancelled /\ failed' = failed
     \/ phase \in {"ending", "over"} /\ cancelled' = cancelled \union {t} /\ failed' = failed
     \/ phase # "over" /\ failed' = failed \union {t} /\ cancelled' = cancelled
  /\ UNCHANGED <<ran, phase>>

\* No task runs, well or badly, once the runtime is over.
Run(t) ==
  /\ t \in Live /\ phase # "over"
  /\ ran' = ran \union {t}
  /\ UNCHANGED <<begun, counted, failed, cancelled, phase>>

Fail(t) ==
  /\ t \in Live /\ phase # "over"
  /\ failed' = failed \union {t}
  /\ UNCHANGED <<begun, counted, ran, cancelled, phase>>

\* Only a runtime that ends cancels tasks.
Cancel(t) ==
  /\ t \in Live /\ phase \in {"ending", "over"}
  /\ cancelled' = cancelled \union {t}
  /\ UNCHANGED <<begun, counted, ran, failed, phase>>

Wait ==
  /\ phase = "open" /\ phase' = "waiting"
  /\ UNCHANGED <<begun, counted, ran, failed, cancelled>>

Return ==
  /\ phase = "waiting" /\ counted \subseteq ran
  /\ phase' = "open"
  /\ UNCHANGED <<begun, counted, ran, failed, cancelled>>

End ==
  /\ \/ phase = "open" /\ phase' \in {"ending", "over"}
     \/ phase = "ending" /\ phase' = "over"
  /\ UNCHANGED <<begun, counted, ran, failed, cancelled>>

Next ==
  \/ \E t \in Tasks : Begin(t) \/ Run(t) \/ Fail(t) \/ Cancel(t)
  \/ Wait \/ Return \/ End

Spec == Init /\ [][Next]_vars
-----------------------------------------------------------------------------
TypeOK ==
  /\ begun \subseteq Tasks /\ counted \subseteq begun
  /\ ran \union failed \union cancelled \subseteq begun
  /\ phase \in {"open", "waiting", "ending", "over"}

\* Whatever is spawned comes to one end at most: nothing that ran, as far as its
\* notification, is dropped by a shutdown, and nothing is both lost and run.
EndsOnce ==
  /\ ran \intersect failed = {}
  /\ ran \intersect cancelled = {}
  /\ failed \intersect cancelled = {}

Gate == INSTANCE WaitIdle WITH live <- counted \ ran, waiting <- phase = "waiting"

\* What the runtimes promise contains what idle.rs promises: the wait is for the
\* counted tasks that have not run, a lost one among them for good.
RefinesWaitIdle == Gate!Safety
=============================================================================
