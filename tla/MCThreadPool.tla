---------------------------- MODULE MCThreadPool ----------------------------
EXTENDS ThreadPool, TLC

Symmetric == Permutations(Tasks) \union Permutations(Threads)

\* threadpool::run_std: the only entry from outside is a spawn, then the runtime
\* is shut down on idle.
RunSpec ==
  Init /\ [][/\ Next
              /\ ~ShutdownNow
              /\ ~\E t \in Tasks :
                    BlockOn(t) \/ Reserve(Ext, t)
                    \/ SpawnHandle(Ext, t) \/ SpawnHandle(Owner, t)]_vars
=============================================================================
