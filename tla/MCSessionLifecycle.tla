------------------------- MODULE MCSessionLifecycle -------------------------
EXTENDS SessionLifecycle, TLC

Symmetry == Permutations(Caller) \union Permutations(Meta) \union Permutations(Handle)
=============================================================================
