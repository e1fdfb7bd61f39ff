---------------------------- MODULE MCLockOrder ----------------------------
(***************************************************************************)
(* Three goroutines: one that holds, one that waits to write, one that the *)
(* writer keeps out; or one waiting while another is between unlock and    *)
(* drop.  One ID: two IDs have different entries, and meet only in the     *)
(* memory of the entries, which the proofs cover for any number of them.   *)
(* Two entries: one in use and one to be allocated.                        *)
(***************************************************************************)
EXTENDS LockOrder
=============================================================================
