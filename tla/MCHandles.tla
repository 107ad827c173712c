------------------------------ MODULE MCHandles ------------------------------
EXTENDS Handles, TLC

Symmetric == Permutations(Runtimes) \union Permutations(Threads)
=============================================================================
