----------------------------- MODULE KeyedMutex -----------------------------
(***************************************************************************)
(* What the daemon asks of lockSessionFile: one mutual-exclusion lock per  *)
(* session ID, as if every ID that could ever exist had a mutex of its     *)
(* own.  SessionFileLock, which creates and drops those mutexes on demand, *)
(* implements this module.                                                 *)
(***************************************************************************)
CONSTANTS ID,       \* session IDs
          Thread    \* goroutines that run lifecycle operations

VARIABLE critical   \* critical[id]: the goroutines between lock and unlock

KeyedInit == critical = [id \in ID |-> {}]

Enter(t, id) ==
    /\ critical[id] = {}
    /\ critical' = [critical EXCEPT ![id] = {t}]

Leave(t, id) ==
    /\ critical[id] = {t}
    /\ critical' = [critical EXCEPT ![id] = {}]

KeyedNext == \E t \in Thread, id \in ID : Enter(t, id) \/ Leave(t, id)

KeyedSpec == KeyedInit /\ [][KeyedNext]_critical
=============================================================================
