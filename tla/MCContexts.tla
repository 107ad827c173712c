----------------------------- MODULE MCContexts -----------------------------
EXTENDS Contexts, TLC

Symmetric == Permutations(Pools) \union Permutations(Locals)
=============================================================================
