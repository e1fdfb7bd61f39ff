--------------------------- MODULE MCTurnRecovery ---------------------------
(* TurnRecovery on small instances.                                        *)
EXTENDS TurnRecovery, TLC

Symmetry == Permutations(Handle) \union Permutations(Sender)
=============================================================================
