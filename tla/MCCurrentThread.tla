--------------------------- MODULE MCCurrentThread ---------------------------
EXTENDS CurrentThread, TLC

Symmetric == Permutations(Tasks)
=============================================================================
