--------------------------- MODULE SessionFileLock ---------------------------
(***************************************************************************)
(* Daemon.lockSessionFile: a registry that hands out one mutex per session *)
(* ID, allocated on first use, counted while somebody waits for it or      *)
(* holds it, and deleted by the last user.  The registry itself is guarded *)
(* by sessionFileLocksMu, whose two critical sections are the atomic       *)
(* actions Request and Drop.  The mutex of an entry is taken and released  *)
(* between them, so a goroutine may be about to lock an entry, or about to *)
(* drop one it has already unlocked, while others come and go.             *)
(***************************************************************************)
EXTENDS Naturals, FiniteSets

CONSTANTS ID,       \* session IDs
          Thread,   \* goroutines calling lockSessionFile
          Entry,    \* *sessionFileLockEntry pointers the allocator can return
          Nil       \* the nil pointer

ASSUME PointerAssumption == Nil \notin Entry /\ Nil \notin ID
ASSUME ThreadAssumption  == IsFiniteSet(Thread)

VARIABLES
    registry,   \* sessionFileLocks: ID -> entry
    refs,       \* entry.refs
    locked,     \* entry.mu: is it held
    entry,      \* per goroutine: the entry pointer it captured
    wants,      \* per goroutine: the session ID it called with, Nil outside
    pc          \* per goroutine: where it is

vars == <<registry, refs, locked, entry, wants, pc>>

PC == {"outside", "requested", "inside", "unlocked"}

Init ==
    /\ registry = [id \in ID |-> Nil]
    /\ refs = [e \in Entry |-> 0]
    /\ locked = [e \in Entry |-> FALSE]
    /\ entry = [t \in Thread |-> Nil]
    /\ wants = [t \in Thread |-> Nil]
    /\ pc = [t \in Thread |-> "outside"]

\* Memory that nothing points to any more; the only memory an allocation
\* can return.
Free(e) ==
    /\ \A t \in Thread : entry[t] # e
    /\ \A id \in ID : registry[id] # e

\* The entry of a registered ID is shared, that of a new ID allocated.
EntryFor(id, e) ==
    IF registry[id] # Nil THEN e = registry[id] ELSE Free(e)

\* entry.refs++, from zero for a new entry.
CountUser(id, e) == IF registry[id] = Nil THEN 1 ELSE refs[e] + 1

\* Lines up to sessionFileLocksMu.Unlock(): find or create, and count.
Request(t, id) ==
    /\ pc[t] = "outside"
    /\ \E e \in Entry :
        /\ EntryFor(id, e)
        /\ registry' = [registry EXCEPT ![id] = e]
        /\ refs' = [refs EXCEPT ![e] = CountUser(id, e)]
        /\ locked' = IF registry[id] = Nil
                     THEN [locked EXCEPT ![e] = FALSE] ELSE locked
        /\ entry' = [entry EXCEPT ![t] = e]
    /\ wants' = [wants EXCEPT ![t] = id]
    /\ pc' = [pc EXCEPT ![t] = "requested"]

\* entry.mu.Lock()
Lock(t) ==
    /\ pc[t] = "requested"
    /\ ~locked[entry[t]]
    /\ locked' = [locked EXCEPT ![entry[t]] = TRUE]
    /\ pc' = [pc EXCEPT ![t] = "inside"]
    /\ UNCHANGED <<registry, refs, entry, wants>>

\* entry.mu.Unlock(), first statement of the returned function.
Unlock(t) ==
    /\ pc[t] = "inside"
    /\ locked' = [locked EXCEPT ![entry[t]] = FALSE]
    /\ pc' = [pc EXCEPT ![t] = "unlocked"]
    /\ UNCHANGED <<registry, refs, entry, wants>>

\* Mutants of RegistryWithout: delete without looking at the count; never
\* delete.
DropIgnoringRefs(t) == [registry EXCEPT ![wants[t]] = Nil]
DropKeepingEntry(t) == registry

\* The registry after the user t has gone: its entry is deleted by the last
\* user, and only if the registry still holds that very entry.
RegistryWithout(t) ==
    IF refs[entry[t]] = 1 /\ registry[wants[t]] = entry[t]
    THEN [registry EXCEPT ![wants[t]] = Nil]
    ELSE registry

\* Rest of the returned function, under sessionFileLocksMu.
Drop(t) ==
    /\ pc[t] = "unlocked"
    /\ refs' = [refs EXCEPT ![entry[t]] = @ - 1]
    /\ registry' = RegistryWithout(t)
    /\ entry' = [entry EXCEPT ![t] = Nil]
    /\ wants' = [wants EXCEPT ![t] = Nil]
    /\ pc' = [pc EXCEPT ![t] = "outside"]
    /\ UNCHANGED locked

Next ==
    \/ \E t \in Thread, id \in ID : Request(t, id)
    \/ \E t \in Thread : Lock(t) \/ Unlock(t) \/ Drop(t)

Spec == Init /\ [][Next]_vars

-----------------------------------------------------------------------------
Inside(t) == pc[t] = "inside"

Users(e) == {t \in Thread : entry[t] = e}

\* Every variable has its type.
TypeOK ==
    /\ registry \in [ID -> Entry \union {Nil}]
    /\ refs \in [Entry -> Nat]
    /\ locked \in [Entry -> BOOLEAN]
    /\ entry \in [Thread -> Entry \union {Nil}]
    /\ wants \in [Thread -> ID \union {Nil}]
    /\ pc \in [Thread -> PC]

\* Two goroutines are never both between lock and unlock for one session ID,
\* although the mutex they lock is created and deleted around them: the
\* promise of the comment on lockSessionFile.
MutualExclusion ==
    \A t, u \in Thread :
        Inside(t) /\ Inside(u) /\ wants[t] = wants[u] => t = u

\* The registry holds exactly the entries in use: IDs that nobody locks cost
\* nothing, so a daemon that lives through many sessions does not leak one
\* mutex per session ID.
NoEntryLeaked ==
    \A id \in ID :
        registry[id] # Nil <=> \E t \in Thread : wants[t] = id

\* The registry of counted mutexes implements one mutex per session ID.
Abstract == INSTANCE KeyedMutex WITH
    critical <- [id \in ID |-> {t \in Thread : Inside(t) /\ wants[t] = id}]
ImplementsKeyedMutex == Abstract!KeyedSpec
=============================================================================
