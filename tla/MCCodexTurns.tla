----------------------------- MODULE MCCodexTurns -----------------------------
(* CodexTurns on small instances.                                          *)
EXTENDS CodexTurns
=============================================================================
