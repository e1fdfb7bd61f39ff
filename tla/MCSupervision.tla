----------------------------- MODULE MCSupervision -----------------------------
(***************************************************************************)
(* A tick is 2.5 s.  The limits are those of the code, but for the idle     *)
(* limit, which is as long as the retries and one cool-down take, and the   *)
(* waits 1, 2, 4, 8, 16 s of the dials, which are rounded such that the     *)
(* dials come 2.5, 5, 7.5, 15 and 32.5 s after the break (1, 3, 7, 15, 31). *)
(* The ID is new, or an earlier session has spent its budget 20 s ago.      *)
(***************************************************************************)
EXTENDS Supervision

BackoffTicks == <<1, 1, 1, 3, 7>>

Budgets == {[count |-> 0, age |-> 24], [count |-> 5, age |-> 8]}
=============================================================================
