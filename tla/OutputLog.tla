-------------------------------- MODULE OutputLog --------------------------------
(***************************************************************************)
(* What a reader of a session's output is promised: there is one log, which *)
(* only grows.  A reader joins at its end, and from then on every read      *)
(* gives it all that was written since the last one, in order, as far as it *)
(* is still among the last `Window' entries.  Reading may be cut short,     *)
(* which ends it.                                                           *)
(***************************************************************************)
EXTENDS Integers, Sequences

CONSTANTS Readers, Window

VARIABLES
    written,    \* number of entries written so far; entry n is the n-th
    position,   \* reader -> the last entry it has looked at
    reading,    \* the readers that take part
    given       \* reader -> the entries it was given

logVars == <<written, position, reading, given>>

LogInit ==
    /\ written \in Nat
    /\ position = [r \in Readers |-> 0]
    /\ reading = {}
    /\ given = [r \in Readers |-> <<>>]

Write ==
    /\ written' = written + 1
    /\ UNCHANGED <<position, reading, given>>

Join(r) ==
    /\ r \notin reading
    /\ given[r] = <<>>
    /\ reading' = reading \union {r}
    /\ position' = [position EXCEPT ![r] = written]
    /\ UNCHANGED <<written, given>>

\* The entry before the first one a reader at position p can still get.
Before(p) == IF p < written - Window THEN written - Window ELSE p

\* The first k entries after entry b.
Entries(b, k) == [i \in 1 .. k |-> b + i]

Read(r) ==
    /\ r \in reading
    /\ position' = [position EXCEPT ![r] = written]
    /\ \/ /\ given' = [given EXCEPT
                ![r] = @ \o Entries(Before(position[r]), written - Before(position[r]))]
          /\ UNCHANGED reading
       \/ \E k \in 0 .. written - Before(position[r]) :
            /\ given' = [given EXCEPT ![r] = @ \o Entries(Before(position[r]), k)]
            /\ reading' = reading \ {r}
    /\ UNCHANGED written

Quit(r) ==
    /\ reading' = reading \ {r}
    /\ UNCHANGED <<written, position, given>>

LogNext == Write \/ \E r \in Readers : Join(r) \/ Read(r) \/ Quit(r)

LogSpec == LogInit /\ [][LogNext]_logVars

=============================================================================
