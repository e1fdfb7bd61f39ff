--------------------------- MODULE MCSessionStore ---------------------------
(***************************************************************************)
(* Three goroutines for one ID, so that one waits while another is in the *)
(* file and a third has looked up a session; and three sessions, so that   *)
(* the ID is used again twice.                                             *)
(***************************************************************************)
EXTENDS SessionStore, TLC

Symmetry == Permutations(Actor)
=============================================================================
