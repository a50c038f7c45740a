------------------------------- MODULE MCNav -------------------------------
EXTENDS Nav, TLC

Symmetric == Permutations(Urls)
=============================================================================
