--------------------------- MODULE LockOrderProofs ---------------------------
(***************************************************************************)
(* Proofs about the counted registry of per-session locks, for any number  *)
(* of session IDs, any finite number of goroutines and any memory; and     *)
(* about the order of the daemon's locks.  The daemon uses lockSessionFile *)
(* as SessionFileLock describes it, inside its nest of other locks: what   *)
(* is proved of the one holds in the other, and its goroutines never wait  *)
(* for each other in a circle.                                             *)
(***************************************************************************)
EXTENDS LockOrder, FiniteSetTheorems, TLAPS

-----------------------------------------------------------------------------
(* The inductive invariant.                                                *)

\* A goroutine has an entry and an ID exactly while it is in the protocol.
Engaged ==
    \A t \in Thread :
        /\ entry[t] = Nil <=> pc[t] = "outside"
        /\ wants[t] = Nil <=> pc[t] = "outside"

\* The entry a goroutine captured stays the registered entry of its ID.
CapturedIsRegistered ==
    \A t \in Thread : pc[t] # "outside" => registry[wants[t]] = entry[t]

\* refs counts the users of an entry.
CountsUsers == \A e \in Entry : refs[e] = Cardinality(Users(e))

\* A registered entry has a user and belongs to one ID only.
RegisteredInUse ==
    \A id \in ID : registry[id] # Nil => \E t \in Thread : wants[t] = id
RegistryInjective ==
    \A i, j \in ID : registry[i] = registry[j] /\ registry[i] # Nil => i = j

\* The mutex of an entry is held by the only goroutine inside.
MutexHeld ==
    /\ \A t \in Thread : Inside(t) => locked[entry[t]]
    /\ \A t, u \in Thread : Inside(t) /\ Inside(u) /\ entry[t] = entry[u] => t = u

IInv ==
    /\ TypeOK
    /\ Engaged
    /\ CapturedIsRegistered
    /\ CountsUsers
    /\ RegisteredInUse
    /\ RegistryInjective
    /\ MutexHeld

-----------------------------------------------------------------------------
(* The users of an entry, and its count, through one step.                 *)

LEMMA UsersFinite ==
    ASSUME NEW e PROVE IsFiniteSet(Users(e))
BY ThreadAssumption, FS_Subset DEF Users

\* A goroutine that captures entry e is one more user of e, and changes the
\* users of no other entry.
LEMMA UsersAfterCapture ==
    ASSUME NEW t \in Thread, NEW e \in Entry, entry \in [Thread -> Entry \union {Nil}],
           entry[t] = Nil, entry' = [entry EXCEPT ![t] = e]
    PROVE  /\ Users(e)' = Users(e) \union {t}
           /\ t \notin Users(e)
           /\ \A f \in Entry : f # e => Users(f)' = Users(f)
BY PointerAssumption DEF Users

\* A goroutine that gives its entry up is one user less of that entry.
LEMMA UsersAfterDrop ==
    ASSUME NEW t \in Thread, NEW e \in Entry, entry \in [Thread -> Entry \union {Nil}],
           entry[t] = e, entry' = [entry EXCEPT ![t] = Nil]
    PROVE  /\ Users(e)' = Users(e) \ {t}
           /\ t \in Users(e)
           /\ \A f \in Entry : f # e => Users(f)' = Users(f)
BY PointerAssumption DEF Users

\* The last user of an entry is its only user.
LEMMA LastUser ==
    ASSUME NEW t \in Thread, CountsUsers, entry[t] \in Entry, refs[entry[t]] = 1
    PROVE  \A u \in Thread : entry[u] = entry[t] => u = t
<1>1. Cardinality(Users(entry[t])) = 1
  BY DEF CountsUsers
<1>2. PICK x : Users(entry[t]) = {x}
  BY <1>1, UsersFinite, FS_Singleton
<1>3. t \in Users(entry[t])
  BY DEF Users
<1> QED
  BY <1>2, <1>3 DEF Users

-----------------------------------------------------------------------------
LEMMA InitIInv == Init => IInv
<1> SUFFICES ASSUME Init PROVE IInv
  OBVIOUS
<1>1. TypeOK
  BY DEF Init, TypeOK, PC
<1>2. CountsUsers
  <2>1. \A e \in Entry : Users(e) = {}
    BY PointerAssumption DEF Init, Users
  <2> QED
    BY <2>1, FS_EmptySet DEF Init, CountsUsers
<1> QED
  BY <1>1, <1>2, PointerAssumption
     DEF IInv, Init, Engaged, CapturedIsRegistered, RegisteredInUse,
         RegistryInjective, MutexHeld, Inside

LEMMA RequestIInv ==
    ASSUME IInv, NEW t \in Thread, NEW id \in ID, Request(t, id)
    PROVE  IInv'
<1> USE PointerAssumption
<1>1. PICK e \in Entry :
        /\ EntryFor(id, e)
        /\ registry' = [registry EXCEPT ![id] = e]
        /\ refs' = [refs EXCEPT ![e] = CountUser(id, e)]
        /\ locked' = IF registry[id] = Nil
                     THEN [locked EXCEPT ![e] = FALSE] ELSE locked
        /\ entry' = [entry EXCEPT ![t] = e]
  BY DEF Request
<1>2. /\ pc[t] = "outside" /\ entry[t] = Nil /\ wants[t] = Nil
      /\ wants' = [wants EXCEPT ![t] = id]
      /\ pc' = [pc EXCEPT ![t] = "requested"]
      /\ entry' = [entry EXCEPT ![t] = e]
      /\ registry' = [registry EXCEPT ![id] = e]
  BY <1>1 DEF Request, IInv, Engaged
<1>3. registry[id] = Nil \/ registry[id] = e
  BY <1>1 DEF EntryFor
<1>4. registry[id] = Nil => Free(e)
  BY <1>1 DEF EntryFor
<1>5. TypeOK'
  BY <1>1, <1>2, <1>3 DEF TypeOK, IInv, PC, CountUser
<1>6. Engaged'
  BY <1>2 DEF TypeOK, IInv, Engaged
<1>7. CapturedIsRegistered'
  <2> SUFFICES ASSUME NEW u \in Thread, (pc[u] # "outside")'
               PROVE  registry'[wants'[u]] = entry'[u]
    BY DEF CapturedIsRegistered
  <2>1. CASE u = t
    BY <2>1, <1>2 DEF TypeOK, IInv
  <2>2. CASE u # t
    <3>1. pc[u] # "outside" /\ wants'[u] = wants[u] /\ entry'[u] = entry[u]
      BY <2>2, <1>2 DEF TypeOK, IInv
    <3>2. registry[wants[u]] = entry[u] /\ wants[u] \in ID /\ entry[u] # Nil
      BY <3>1 DEF IInv, CapturedIsRegistered, Engaged, TypeOK
    <3>3. wants[u] = id => e = entry[u]
      BY <3>2, <1>3
    <3> QED
      BY <3>1, <3>2, <3>3, <1>2 DEF TypeOK, IInv
  <2> QED
    BY <2>1, <2>2
<1>8. CountsUsers'
  <2>1. /\ Users(e)' = Users(e) \union {t}
        /\ t \notin Users(e)
        /\ \A f \in Entry : f # e => Users(f)' = Users(f)
    BY <1>2, UsersAfterCapture DEF IInv, TypeOK
  <2>2. Cardinality(Users(e)') = Cardinality(Users(e)) + 1
    BY <2>1, UsersFinite, FS_AddElement
  <2>3. refs'[e] = Cardinality(Users(e)')
    <3>1. CASE registry[id] = Nil
      <4>1. Users(e) = {}
        BY <3>1, <1>4 DEF Free, Users
      <4> QED
        BY <4>1, <2>2, <3>1, <1>1, FS_EmptySet DEF CountUser, TypeOK, IInv
    <3>2. CASE registry[id] # Nil
      <4>1. refs[e] = Cardinality(Users(e)) /\ refs'[e] = refs[e] + 1
        BY <3>2, <1>1 DEF CountUser, TypeOK, IInv, CountsUsers
      <4> QED
        BY <4>1, <2>2
    <3> QED
      BY <3>1, <3>2
  <2>4. \A f \in Entry : f # e => refs'[f] = Cardinality(Users(f)')
    BY <2>1, <1>1 DEF IInv, CountsUsers, TypeOK
  <2> QED
    BY <2>3, <2>4 DEF CountsUsers
<1>9. RegisteredInUse'
  <2> SUFFICES ASSUME NEW i \in ID, registry'[i] # Nil
               PROVE  \E u \in Thread : wants'[u] = i
    BY DEF RegisteredInUse
  <2>1. CASE i = id
    BY <2>1, <1>2 DEF TypeOK, IInv
  <2>2. CASE i # id
    <3>1. registry[i] # Nil
      BY <2>2, <1>2 DEF TypeOK, IInv
    <3>2. PICK u \in Thread : wants[u] = i
      BY <3>1 DEF IInv, RegisteredInUse
    <3> QED
      BY <3>2, <1>2 DEF TypeOK, IInv
  <2> QED
    BY <2>1, <2>2
<1>10. RegistryInjective'
  <2>1. \A i \in ID : i # id => registry[i] # e
    BY <1>3, <1>4 DEF Free, IInv, RegistryInjective
  <2> QED
    BY <2>1, <1>2 DEF IInv, RegistryInjective, TypeOK
<1>11. MutexHeld'
  <2>1. \A u \in Thread : Inside(u)' => Inside(u) /\ u # t /\ entry'[u] = entry[u]
    BY <1>2 DEF Inside, TypeOK, IInv
  <2>2. \A u \in Thread : Inside(u)' => locked'[entry[u]] = locked[entry[u]]
    <3> SUFFICES ASSUME NEW u \in Thread, Inside(u)'
                 PROVE  locked'[entry[u]] = locked[entry[u]]
      OBVIOUS
    <3>1. registry[id] = Nil => entry[u] # e
      BY <1>4 DEF Free
    <3>2. entry[u] \in Entry
      BY <2>1 DEF IInv, TypeOK, Engaged, Inside
    <3> QED
      BY <3>1, <3>2, <1>1 DEF IInv, TypeOK
  <2> QED
    BY <2>1, <2>2 DEF IInv, MutexHeld
<1> QED
  BY <1>5, <1>6, <1>7, <1>8, <1>9, <1>10, <1>11 DEF IInv

LEMMA LockIInv ==
    ASSUME IInv, NEW t \in Thread, Lock(t)
    PROVE  IInv'
<1>1. entry[t] \in Entry /\ ~locked[entry[t]] /\ pc[t] = "requested"
  BY DEF Lock, IInv, TypeOK, Engaged
<1>2. TypeOK'
  BY <1>1 DEF Lock, IInv, TypeOK, PC
<1>3. Engaged' /\ CapturedIsRegistered'
  BY <1>1 DEF Lock, IInv, Engaged, CapturedIsRegistered, TypeOK
<1>4. CountsUsers'
  BY DEF Lock, IInv, CountsUsers, Users
<1>5. RegisteredInUse' /\ RegistryInjective'
  BY DEF Lock, IInv, RegisteredInUse, RegistryInjective
<1>6. MutexHeld'
  <2>1. \A u \in Thread : Inside(u) => entry[u] # entry[t]
    BY <1>1 DEF IInv, MutexHeld
  <2>2. \A u \in Thread : Inside(u)' => Inside(u) \/ u = t
    BY DEF Lock, Inside, IInv, TypeOK
  <2> QED
    BY <1>1, <2>1, <2>2 DEF Lock, IInv, MutexHeld, TypeOK, Inside
<1> QED
  BY <1>2, <1>3, <1>4, <1>5, <1>6 DEF IInv

LEMMA UnlockIInv ==
    ASSUME IInv, NEW t \in Thread, Unlock(t)
    PROVE  IInv'
<1>1. entry[t] \in Entry /\ pc[t] = "inside" /\ Inside(t)
  BY DEF Unlock, IInv, TypeOK, Engaged, Inside
<1>2. TypeOK'
  BY <1>1 DEF Unlock, IInv, TypeOK, PC
<1>3. Engaged' /\ CapturedIsRegistered'
  BY <1>1 DEF Unlock, IInv, Engaged, CapturedIsRegistered, TypeOK
<1>4. CountsUsers'
  BY DEF Unlock, IInv, CountsUsers, Users
<1>5. RegisteredInUse' /\ RegistryInjective'
  BY DEF Unlock, IInv, RegisteredInUse, RegistryInjective
<1>6. MutexHeld'
  <2>1. \A u \in Thread : Inside(u)' => Inside(u) /\ u # t
    BY DEF Unlock, Inside, IInv, TypeOK
  <2>2. \A u \in Thread : Inside(u)' => entry[u] # entry[t]
    BY <2>1, <1>1 DEF IInv, MutexHeld
  <2>3. \A u \in Thread : Inside(u)' => entry[u] \in Entry
    BY <2>1 DEF IInv, TypeOK, Engaged, Inside
  <2> QED
    BY <2>1, <2>2, <2>3 DEF Unlock, IInv, MutexHeld, TypeOK
<1> QED
  BY <1>2, <1>3, <1>4, <1>5, <1>6 DEF IInv

LEMMA DropIInv ==
    ASSUME IInv, NEW t \in Thread, Drop(t)
    PROVE  IInv'
<1> DEFINE e == entry[t]
           i == wants[t]
<1> USE PointerAssumption
<1>1. /\ pc[t] = "unlocked" /\ e \in Entry /\ i \in ID /\ registry[i] = e
  BY DEF Drop, IInv, TypeOK, Engaged, CapturedIsRegistered
<1>2. /\ refs' = [refs EXCEPT ![e] = @ - 1]
      /\ entry' = [entry EXCEPT ![t] = Nil]
      /\ wants' = [wants EXCEPT ![t] = Nil]
      /\ pc' = [pc EXCEPT ![t] = "outside"]
      /\ locked' = locked
  BY DEF Drop
<1>3. registry' = IF refs[e] = 1 THEN [registry EXCEPT ![i] = Nil] ELSE registry
  BY <1>1 DEF Drop, RegistryWithout
<1>4. refs[e] = 1 => \A u \in Thread : entry[u] = e => u = t
  BY <1>1, LastUser DEF IInv
<1>5. CountsUsers' /\ refs'[e] \in Nat
  <2>1. PICK f \in Entry : f = e
    BY <1>1
  <2>2. /\ Users(f)' = Users(f) \ {t}
        /\ t \in Users(f)
        /\ \A g \in Entry : g # f => Users(g)' = Users(g)
    BY <2>1, <1>2, UsersAfterDrop DEF IInv, TypeOK
  <2>3. Cardinality(Users(f)') = Cardinality(Users(f)) - 1
    BY <2>2, UsersFinite, FS_RemoveElement
  <2>4. refs[f] = Cardinality(Users(f)) /\ refs'[f] = refs[f] - 1
    BY <2>1, <1>2 DEF IInv, CountsUsers, TypeOK
  <2>5. Users(f) \ {t} = Users(f)' /\ IsFiniteSet(Users(f) \ {t})
    BY <2>2, UsersFinite, FS_RemoveElement
  <2>6. Cardinality(Users(f)') \in Nat
    BY <2>5, FS_CardinalityType
  <2>7. refs'[f] = Cardinality(Users(f)')
    BY <2>3, <2>4
  <2>8. \A g \in Entry : g # f => refs'[g] = Cardinality(Users(g)')
    BY <2>1, <2>2, <1>2 DEF IInv, CountsUsers, TypeOK
  <2> QED
    BY <2>1, <2>6, <2>7, <2>8 DEF CountsUsers
<1>6. TypeOK'
  BY <1>1, <1>2, <1>3, <1>5 DEF IInv, TypeOK, PC
<1>7. Engaged'
  BY <1>2 DEF IInv, Engaged, TypeOK
<1>8. \A u \in Thread : pc'[u] # "outside" =>
        /\ u # t /\ pc[u] # "outside" /\ entry'[u] = entry[u] /\ wants'[u] = wants[u]
        /\ registry[wants[u]] = entry[u] /\ wants[u] \in ID /\ entry[u] \in Entry
  BY <1>2 DEF IInv, TypeOK, Engaged, CapturedIsRegistered
<1>9. CapturedIsRegistered'
  <2> SUFFICES ASSUME NEW u \in Thread, pc'[u] # "outside"
               PROVE  registry'[wants'[u]] = entry'[u]
    BY DEF CapturedIsRegistered
  <2>1. CASE refs[e] = 1
    <3>1. wants[u] # i
      BY <2>1, <1>1, <1>4, <1>8
    <3> QED
      BY <3>1, <2>1, <1>3, <1>8 DEF IInv, TypeOK
  <2>2. CASE refs[e] # 1
    BY <2>2, <1>3, <1>8
  <2> QED
    BY <2>1, <2>2
<1>10. RegisteredInUse'
  <2> SUFFICES ASSUME NEW j \in ID, registry'[j] # Nil
               PROVE  \E u \in Thread : wants'[u] = j
    BY DEF RegisteredInUse
  <2>1. registry[j] # Nil /\ registry[j] = registry'[j]
    BY <1>1, <1>3 DEF IInv, TypeOK
  <2>2. CASE j # i
    <3>1. PICK u \in Thread : wants[u] = j
      BY <2>1 DEF IInv, RegisteredInUse
    <3> QED
      BY <3>1, <2>2, <1>2 DEF IInv, TypeOK
  <2>3. CASE j = i
    <3>1. refs[e] # 1
      BY <2>1, <2>3, <1>1, <1>3 DEF IInv, TypeOK
    <3>2. Users(e) # {t}
      BY <3>1, <1>1, FS_Singleton DEF IInv, CountsUsers
    <3>3. PICK u \in Thread : u # t /\ entry[u] = e
      BY <3>2, <1>1 DEF Users
    <3>4. pc[u] # "outside" /\ wants[u] \in ID /\ registry[wants[u]] = e
      BY <3>3, <1>1 DEF IInv, Engaged, CapturedIsRegistered, TypeOK
    <3>5. wants[u] = i
      BY <3>4, <1>1 DEF IInv, RegistryInjective
    <3> QED
      BY <3>3, <3>5, <2>3, <1>2 DEF IInv, TypeOK
  <2> QED
    BY <2>2, <2>3
<1>11. RegistryInjective'
  BY <1>1, <1>3 DEF IInv, RegistryInjective, TypeOK
<1>12. MutexHeld'
  <2>1. \A u \in Thread : Inside(u)' => Inside(u) /\ entry'[u] = entry[u]
    BY <1>8, <1>2 DEF Inside, IInv, TypeOK
  <2> QED
    BY <2>1, <1>2 DEF IInv, MutexHeld
<1> QED
  BY <1>5, <1>6, <1>7, <1>9, <1>10, <1>11, <1>12 DEF IInv

LEMMA StutterIInv == IInv /\ UNCHANGED vars => IInv'
BY DEF vars, IInv, TypeOK, Engaged, CapturedIsRegistered, CountsUsers, Users,
       RegisteredInUse, RegistryInjective, MutexHeld, Inside

\* The inductive invariant holds in every state of the registry.
THEOREM Invariance == Spec => []IInv
<1>1. IInv /\ [Next]_vars => IInv'
  BY RequestIInv, LockIInv, UnlockIInv, DropIInv, StutterIInv DEF Next
<1> QED
  BY InitIInv, <1>1, PTL DEF Spec

-----------------------------------------------------------------------------
\* Every variable keeps its type; in particular no count goes below zero.
THEOREM FileLockTypeCorrect == Spec => []TypeOK
BY Invariance, PTL DEF IInv

\* Lifecycle file operations of one session ID never overlap: the mutex that
\* two of them would lock is the same object, even though it is created by
\* the first user and deleted by the last.
THEOREM MutualExclusionTheorem == Spec => []MutualExclusion
<1>1. IInv => MutualExclusion
  <2> SUFFICES ASSUME IInv, NEW t \in Thread, NEW u \in Thread,
                      Inside(t), Inside(u), wants[t] = wants[u]
               PROVE  t = u
    BY DEF MutualExclusion
  <2>1. entry[t] = entry[u]
    BY DEF IInv, CapturedIsRegistered, Inside
  <2> QED
    BY <2>1 DEF IInv, MutexHeld
<1> QED
  BY Invariance, <1>1, PTL

\* The registry holds an entry for exactly the session IDs somebody is
\* locking, so it does not grow with the sessions a daemon has seen.
THEOREM NoEntryLeakedTheorem == Spec => []NoEntryLeaked
<1>1. IInv => NoEntryLeaked
  <2> SUFFICES ASSUME IInv, NEW id \in ID
               PROVE  registry[id] # Nil <=> \E t \in Thread : wants[t] = id
    BY DEF NoEntryLeaked
  <2>1. registry[id] # Nil => \E t \in Thread : wants[t] = id
    BY DEF IInv, RegisteredInUse
  <2>2. ASSUME NEW t \in Thread, wants[t] = id PROVE registry[id] # Nil
    BY <2>2, PointerAssumption DEF IInv, Engaged, CapturedIsRegistered, TypeOK
  <2> QED
    BY <2>1, <2>2
<1> QED
  BY Invariance, <1>1, PTL

-----------------------------------------------------------------------------
(* The refinement of KeyedMutex.                                           *)

Critical(id) == {t \in Thread : Inside(t) /\ wants[t] = id}
critical == [id \in ID |-> Critical(id)]

LEMMA CriticalAfterLock ==
    ASSUME IInv, IInv', NEW t \in Thread, Lock(t)
    PROVE  \E id \in ID : Abstract!Enter(t, id)
<1> DEFINE id == wants[t]
<1>1. /\ id \in ID /\ pc[t] = "requested" /\ wants' = wants
      /\ pc' = [pc EXCEPT ![t] = "inside"]
  BY DEF Lock, IInv, TypeOK, Engaged
<1>2. \A u \in Thread : Inside(u)' <=> Inside(u) \/ u = t
  BY <1>1 DEF Inside, IInv, TypeOK
<1>3. \A u \in Thread : Inside(u)' /\ wants[u] = id => u = t
  <2> SUFFICES ASSUME NEW u \in Thread, Inside(u)', wants[u] = id PROVE u = t
    OBVIOUS
  <2>1. Inside(t)'
    BY <1>2
  <2>2. entry'[u] = entry'[t]
    BY <2>1, <1>1 DEF IInv, CapturedIsRegistered, Inside
  <2> QED
    BY <2>1, <2>2 DEF IInv, MutexHeld
<1>4. Critical(id) = {} /\ Critical(id)' = {t}
  <2>1. ~Inside(t)
    BY <1>1 DEF Inside
  <2>2. Critical(id) = {}
    BY <2>1, <1>2, <1>3 DEF Critical
  <2>3. {u \in Thread : Inside(u)' /\ wants'[u] = id} = {t}
    BY <1>1, <1>2, <1>3
  <2> QED
    BY <2>2, <2>3, <1>1 DEF Critical
<1>5. \A j \in ID : j # id => Critical(j)' = Critical(j)
  BY <1>1, <1>2 DEF Critical
<1>6. critical' = [critical EXCEPT ![id] = {t}] /\ critical[id] = {}
  BY <1>1, <1>4, <1>5 DEF critical
<1> QED
  BY <1>1, <1>6 DEF Abstract!Enter, critical, Critical

LEMMA CriticalAfterUnlock ==
    ASSUME IInv, NEW t \in Thread, Unlock(t)
    PROVE  \E id \in ID : Abstract!Leave(t, id)
<1> DEFINE id == wants[t]
<1>1. /\ id \in ID /\ pc[t] = "inside" /\ wants' = wants /\ Inside(t)
      /\ pc' = [pc EXCEPT ![t] = "unlocked"]
  BY DEF Unlock, IInv, TypeOK, Engaged, Inside
<1>2. \A u \in Thread : Inside(u)' <=> Inside(u) /\ u # t
  BY <1>1 DEF Inside, IInv, TypeOK
<1>3. \A u \in Thread : Inside(u) /\ wants[u] = id => u = t
  BY <1>1 DEF IInv, CapturedIsRegistered, MutexHeld, Inside
<1>4. Critical(id) = {t} /\ Critical(id)' = {}
  BY <1>1, <1>2, <1>3 DEF Critical
<1>5. \A j \in ID : j # id => Critical(j)' = Critical(j)
  BY <1>1, <1>2 DEF Critical
<1>6. critical' = [critical EXCEPT ![id] = {}] /\ critical[id] = {t}
  BY <1>1, <1>4, <1>5 DEF critical
<1> QED
  BY <1>1, <1>6 DEF Abstract!Leave, critical, Critical

\* Asking for the lock and giving the entry back do not touch who is inside.
LEMMA CriticalElsewhere ==
    ASSUME IInv, NEW t \in Thread, (\E id \in ID : Request(t, id)) \/ Drop(t)
    PROVE  critical' = critical
<1>1. \A u \in Thread : Inside(u)' <=> Inside(u)
  BY DEF Request, Drop, Inside, IInv, TypeOK
<1>2. \A u \in Thread : Inside(u) => wants'[u] = wants[u]
  BY DEF Request, Drop, Inside, IInv, TypeOK
<1>3. \A id \in ID : Critical(id)' = Critical(id)
  BY <1>1, <1>2 DEF Critical
<1> QED
  BY <1>3 DEF critical

\* The counted registry behaves, towards the lifecycle operations, like one
\* permanent mutex per session ID.
THEOREM ImplementsKeyedMutexTheorem == Spec => ImplementsKeyedMutex
<1>1. Init => Abstract!KeyedInit
  BY DEF Init, Abstract!KeyedInit, Inside
<1>2. IInv /\ IInv' /\ [Next]_vars => [Abstract!KeyedNext]_critical
  <2> SUFFICES ASSUME IInv, IInv', [Next]_vars
               PROVE  Abstract!KeyedNext \/ critical' = critical
    OBVIOUS
  <2>1. CASE UNCHANGED vars
    BY <2>1 DEF vars, critical, Critical, Inside
  <2>2. ASSUME NEW t \in Thread, Lock(t) PROVE Abstract!KeyedNext
    BY <2>2, CriticalAfterLock DEF Abstract!KeyedNext
  <2>3. ASSUME NEW t \in Thread, Unlock(t) PROVE Abstract!KeyedNext
    BY <2>3, CriticalAfterUnlock DEF Abstract!KeyedNext
  <2>4. ASSUME NEW t \in Thread, (\E id \in ID : Request(t, id)) \/ Drop(t)
        PROVE  critical' = critical
    BY <2>4, CriticalElsewhere
  <2> QED
    BY <2>1, <2>2, <2>3, <2>4 DEF Next
<1>3. IInv /\ IInv' /\ [Next]_vars => 
        [Abstract!KeyedNext]_[id \in ID |-> {t \in Thread : Inside(t) /\ wants[t] = id}]
  BY <1>2 DEF critical, Critical
<1> QED
  BY <1>1, <1>3, Invariance, PTL DEF Spec, ImplementsKeyedMutex, Abstract!KeyedSpec

-----------------------------------------------------------------------------
(* The daemon's nest of locks.                                             *)

\* Every step of a goroutine is a step of lockSessionFile or leaves its
\* variables alone.
LEMMA StepsOfTheFileLock == [SystemNext]_allVars => [Next]_vars
<1> SUFFICES ASSUME [SystemNext]_allVars PROVE [Next]_vars
  OBVIOUS
<1>1. CASE UNCHANGED allVars
  BY <1>1 DEF allVars
<1>2. ASSUME NEW t \in Thread, Call(t) PROVE UNCHANGED vars
  BY <1>2 DEF Call
<1>3. ASSUME NEW t \in Thread,
             ReadLock(t) \/ ReadUnlock(t) \/ WriteLock(t) \/ WriteUnlock(t)
      PROVE  UNCHANGED vars
  BY <1>3 DEF ReadLock, ReadUnlock, WriteLock, WriteUnlock
<1>4. ASSUME NEW t \in Thread,
             FileRequest(t) \/ FileLock(t) \/ FileUnlock(t) \/ FileDrop(t)
      PROVE  Next
  BY <1>4 DEF FileRequest, FileLock, FileUnlock, FileDrop, Next
<1> QED
  BY <1>1, <1>2, <1>3, <1>4 DEF SystemNext, Proceed

\* Whatever functions the goroutines call and whatever other locks they wait
\* for, they use the file locks as SessionFileLock says.
THEOREM SystemUsesFileLock == SystemSpec => Spec
<1>1. SystemInit => Init
  BY DEF SystemInit
<1> QED
  BY <1>1, StepsOfTheFileLock, PTL DEF SystemSpec, Spec

\* The lock of a session file is one mutex per ID in the whole daemon too.
THEOREM SystemImplementsKeyedMutex == SystemSpec => ImplementsKeyedMutex
BY SystemUsesFileLock, ImplementsKeyedMutexTheorem, PTL

\* And the daemon leaks no entry: a goroutine may stop between any two lock
\* operations, in any function.
THEOREM SystemLeaksNoEntry == SystemSpec => []NoEntryLeaked
BY SystemUsesFileLock, NoEntryLeakedTheorem, PTL

-----------------------------------------------------------------------------
(* What a goroutine has still to do: it asks for locks of rising level, and *)
(* gives them back the other way round.                                     *)

Level(mu) ==
    IF mu = "file" THEN 0
    ELSE IF mu = "closeMu" THEN 1
    ELSE IF mu = "workersMu" THEN 2
    ELSE 3

Asks == {"Lock", "RLock", "LockFile"}
Undo(d) ==
    IF d = "Lock" THEN "Unlock" ELSE IF d = "RLock" THEN "RUnlock" ELSE "UnlockFile"

Operation ==
    [do : {"Lock", "Unlock", "RLock", "RUnlock"}, mu : Mutex]
        \union [do : {"LockFile", "UnlockFile"}, mu : {"file"}]

AsksUpwards(q) ==
    \A i, j \in 1 .. Len(q) :
        i < j /\ q[j].do \in Asks =>
            q[i].do \in Asks /\ Level(q[i].mu) < Level(q[j].mu)

GivesDownwards(q) ==
    \A i, j \in 1 .. Len(q) :
        i < j /\ q[i].do \notin Asks => Level(q[j].mu) < Level(q[i].mu)

GivesBack(q) ==
    \A i \in 1 .. Len(q) :
        q[i].do \in Asks =>
            \E j \in 1 .. Len(q) : q[j].do = Undo(q[i].do) /\ q[j].mu = q[i].mu

\* A lock given back above one that is still asked for is asked for too.
HoldsBelow(q) ==
    \A i, j \in 1 .. Len(q) :
        /\ q[i].do \in Asks
        /\ q[j].do \notin Asks
        /\ Level(q[i].mu) <= Level(q[j].mu)
        => \E k \in 1 .. Len(q) : q[k].do \in Asks /\ q[k].mu = q[j].mu

Orderly(q) ==
    /\ q \in Seq(Operation)
    /\ AsksUpwards(q) /\ GivesDownwards(q) /\ GivesBack(q) /\ HoldsBelow(q)

\* Who has q to do was given mu, and will give it back with d.
Holds(q, d, mu) ==
    /\ \E j \in 1 .. Len(q) : q[j].do = d /\ q[j].mu = mu /\ d \notin Asks
    /\ \A i \in 1 .. Len(q) : q[i].do \in Asks => q[i].mu # mu

\* A lock is given back once.
LEMMA HoldsOnce ==
    ASSUME NEW q, Orderly(q), NEW d, NEW e, NEW mu,
           Holds(q, d, mu), Holds(q, e, mu)
    PROVE  d = e
<1>1. PICK i \in 1 .. Len(q) : q[i].do = d /\ q[i].mu = mu /\ d \notin Asks
  BY DEF Holds
<1>2. PICK j \in 1 .. Len(q) : q[j].do = e /\ q[j].mu = mu /\ e \notin Asks
  BY DEF Holds
<1>3. Len(q) \in Nat
  BY DEF Orderly
<1>4. Level(mu) \in Nat
  BY DEF Level
<1>5. ~(i < j) /\ ~(j < i)
  BY <1>1, <1>2, <1>4 DEF Orderly, GivesDownwards
<1> QED
  BY <1>1, <1>2, <1>3, <1>5

LEMMA TailFacts ==
    ASSUME NEW q, Orderly(q), q # <<>>
    PROVE  /\ Tail(q) \in Seq(Operation) /\ Head(q) \in Operation
           /\ Head(q) = q[1] /\ Len(q) \in Nat /\ Len(q) > 0
           /\ Len(Tail(q)) = Len(q) - 1
           /\ \A i \in 1 .. Len(q) : q[i] \in Operation
           /\ \A i \in 1 .. Len(Tail(q)) : Tail(q)[i] = q[i + 1]
BY DEF Orderly

LEMMA OrderlyTail ==
    ASSUME NEW q, Orderly(q), q # <<>>
    PROVE  Orderly(Tail(q))
<1> DEFINE r == Tail(q)
<1>1. /\ r \in Seq(Operation) /\ Len(q) \in Nat /\ Len(q) > 0 /\ Len(r) = Len(q) - 1
      /\ \A i \in 1 .. Len(r) : r[i] = q[i + 1] /\ i + 1 \in 1 .. Len(q)
      /\ \A i \in 1 .. Len(q) : i = 1 \/ (i - 1 \in 1 .. Len(r) /\ r[i - 1] = q[i])
  BY TailFacts
<1> HIDE DEF r
<1>2. AsksUpwards(r)
  BY <1>1 DEF Orderly, AsksUpwards
<1>3. GivesDownwards(r)
  BY <1>1 DEF Orderly, GivesDownwards
<1>4. GivesBack(r)
  <2> SUFFICES ASSUME NEW i \in 1 .. Len(r), r[i].do \in Asks
               PROVE  \E j \in 1 .. Len(r) : r[j].do = Undo(r[i].do) /\ r[j].mu = r[i].mu
    BY DEF GivesBack
  <2>1. PICK j \in 1 .. Len(q) : q[j].do = Undo(q[i + 1].do) /\ q[j].mu = q[i + 1].mu
    BY <1>1 DEF Orderly, GivesBack
  <2>2. q[1].do \in Asks
    BY <1>1 DEF Orderly, AsksUpwards
  <2>3. Undo(q[i + 1].do) \notin Asks
    BY DEF Undo, Asks
  <2>4. j - 1 \in 1 .. Len(r) /\ r[j - 1] = q[j]
    BY <1>1, <2>1, <2>2, <2>3
  <2>5. r[j - 1].do = Undo(r[i].do) /\ r[j - 1].mu = r[i].mu
    BY <1>1, <2>1, <2>4
  <2> QED
    BY <2>4, <2>5
<1>5. HoldsBelow(r)
  <2> SUFFICES ASSUME NEW i \in 1 .. Len(r), NEW j \in 1 .. Len(r),
                      r[i].do \in Asks, r[j].do \notin Asks,
                      Level(r[i].mu) <= Level(r[j].mu)
               PROVE  \E k \in 1 .. Len(r) : r[k].do \in Asks /\ r[k].mu = r[j].mu
    BY DEF HoldsBelow
  <2>0. /\ i + 1 \in 1 .. Len(q) /\ j + 1 \in 1 .. Len(q)
        /\ q[i + 1].do \in Asks /\ q[j + 1].do \notin Asks
        /\ Level(q[i + 1].mu) <= Level(q[j + 1].mu)
    BY <1>1
  <2>1. PICK k \in 1 .. Len(q) : q[k].do \in Asks /\ q[k].mu = q[j + 1].mu
    BY <2>0 DEF Orderly, HoldsBelow
  <2>2. Level(q[1].mu) < Level(q[i + 1].mu)
    <3>1. 1 \in 1 .. Len(q) /\ 1 < i + 1
      BY <1>1
    <3> QED
      BY <2>0, <3>1 DEF Orderly, AsksUpwards
  <2>3. k # 1
    BY <2>0, <2>1, <2>2 DEF Level
  <2>4. k - 1 \in 1 .. Len(r) /\ r[k - 1] = q[k] /\ r[j] = q[j + 1]
    BY <1>1, <2>3
  <2> QED
    BY <2>1, <2>4
<1> QED
  BY <1>1, <1>2, <1>3, <1>4, <1>5 DEF Orderly, r

\* The next operation asks for mu: all that is held is below, and mu is held
\* when it was given.
LEMMA HeadAsks ==
    ASSUME NEW q, Orderly(q), q # <<>>, Head(q).do \in Asks
    PROVE  LET d == Head(q).do
               mu == Head(q).mu
           IN  /\ Holds(Tail(q), Undo(d), mu)
               /\ \A e : ~Holds(q, e, mu)
               /\ \A e, nu : Holds(q, e, nu) => Level(nu) < Level(mu)
               /\ \A e, nu : nu # mu => (Holds(Tail(q), e, nu) <=> Holds(q, e, nu))
<1> DEFINE r == Tail(q)
           d == Head(q).do
           mu == Head(q).mu
<1>1. /\ r \in Seq(Operation) /\ Len(q) \in Nat /\ Len(q) > 0 /\ Len(r) = Len(q) - 1
      /\ q[1].do = d /\ q[1].mu = mu /\ d \in Asks
      /\ \A i \in 1 .. Len(r) : r[i] = q[i + 1] /\ i + 1 \in 1 .. Len(q)
      /\ \A i \in 1 .. Len(q) : i = 1 \/ (i - 1 \in 1 .. Len(r) /\ r[i - 1] = q[i])
  BY TailFacts
<1>2. \A nu : Level(nu) \in Nat
  BY DEF Level
<1> HIDE DEF r, d, mu
<1>3. Holds(r, Undo(d), mu)
  <2>1. PICK j \in 1 .. Len(q) : q[j].do = Undo(d) /\ q[j].mu = mu
    BY <1>1 DEF Orderly, GivesBack
  <2>2. Undo(d) \notin Asks
    BY DEF Undo, Asks
  <2>3. j # 1
    BY <1>1, <2>1, <2>2
  <2>4. j - 1 \in 1 .. Len(r) /\ r[j - 1].do = Undo(d) /\ r[j - 1].mu = mu
    BY <1>1, <2>1, <2>3
  <2>5. ASSUME NEW i \in 1 .. Len(r), r[i].do \in Asks PROVE r[i].mu # mu
    <3>1. 1 \in 1 .. Len(q) /\ i + 1 \in 1 .. Len(q) /\ 1 < i + 1
      BY <1>1
    <3>2. q[i + 1].do \in Asks
      BY <1>1, <2>5
    <3>3. Level(q[1].mu) < Level(q[i + 1].mu)
      BY <3>1, <3>2 DEF Orderly, AsksUpwards
    <3> QED
      BY <1>1, <1>2, <3>3
  <2> QED
    BY <2>2, <2>4, <2>5 DEF Holds
<1>4. \A e : ~Holds(q, e, mu)
  BY <1>1 DEF Holds
<1>5. ASSUME NEW e, NEW nu, Holds(q, e, nu) PROVE Level(nu) < Level(mu)
  <2>1. PICK j \in 1 .. Len(q) : q[j].do = e /\ q[j].mu = nu /\ e \notin Asks
    BY <1>5 DEF Holds
  <2>2. ~(\E k \in 1 .. Len(q) : q[k].do \in Asks /\ q[k].mu = q[j].mu)
    BY <1>5, <2>1 DEF Holds
  <2>3. ~(Level(q[1].mu) <= Level(q[j].mu))
    <3>1. 1 \in 1 .. Len(q) /\ q[1].do \in Asks /\ q[j].do \notin Asks
      BY <1>1, <2>1
    <3> QED
      BY <2>2, <3>1 DEF Orderly, HoldsBelow
  <2> QED
    BY <1>1, <1>2, <2>1, <2>3
<1>6. ASSUME NEW e, NEW nu, nu # mu PROVE Holds(r, e, nu) <=> Holds(q, e, nu)
  <2>1. ASSUME Holds(r, e, nu) PROVE Holds(q, e, nu)
    <3>1. PICK j \in 1 .. Len(r) : r[j].do = e /\ r[j].mu = nu /\ e \notin Asks
      BY <2>1 DEF Holds
    <3>2. j + 1 \in 1 .. Len(q) /\ q[j + 1].do = e /\ q[j + 1].mu = nu
      BY <1>1, <3>1
    <3>3. ASSUME NEW i \in 1 .. Len(q), q[i].do \in Asks PROVE q[i].mu # nu
      <4>1. CASE i = 1
        BY <1>1, <1>6, <4>1
      <4>2. CASE i # 1
        <5>1. i - 1 \in 1 .. Len(r) /\ r[i - 1] = q[i]
          BY <1>1, <4>2
        <5> QED
          BY <2>1, <3>3, <5>1 DEF Holds
      <4> QED
        BY <4>1, <4>2
    <3> QED
      BY <3>1, <3>2, <3>3 DEF Holds
  <2>2. ASSUME Holds(q, e, nu) PROVE Holds(r, e, nu)
    <3>1. PICK j \in 1 .. Len(q) : q[j].do = e /\ q[j].mu = nu /\ e \notin Asks
      BY <2>2 DEF Holds
    <3>2. j - 1 \in 1 .. Len(r) /\ r[j - 1].do = e /\ r[j - 1].mu = nu
      BY <1>1, <1>6, <3>1
    <3>3. ASSUME NEW i \in 1 .. Len(r), r[i].do \in Asks PROVE r[i].mu # nu
      BY <1>1, <2>2, <3>3 DEF Holds
    <3> QED
      BY <3>1, <3>2, <3>3 DEF Holds
  <2> QED
    BY <2>1, <2>2
<1> QED
  BY <1>3, <1>4, <1>5, <1>6 DEF r, d, mu

\* The next operation gives mu back: it is held, and is not any more.
LEMMA HeadGives ==
    ASSUME NEW q, Orderly(q), q # <<>>, Head(q).do \notin Asks
    PROVE  LET d == Head(q).do
               mu == Head(q).mu
           IN  /\ Holds(q, d, mu)
               /\ \A e : ~Holds(Tail(q), e, mu)
               /\ \A e, nu : nu # mu => (Holds(Tail(q), e, nu) <=> Holds(q, e, nu))
<1> DEFINE r == Tail(q)
           d == Head(q).do
           mu == Head(q).mu
<1>1. /\ r \in Seq(Operation) /\ Len(q) \in Nat /\ Len(q) > 0 /\ Len(r) = Len(q) - 1
      /\ q[1].do = d /\ q[1].mu = mu /\ d \notin Asks
      /\ \A i \in 1 .. Len(r) : r[i] = q[i + 1] /\ i + 1 \in 1 .. Len(q)
      /\ \A i \in 1 .. Len(q) : i = 1 \/ (i - 1 \in 1 .. Len(r) /\ r[i - 1] = q[i])
  BY TailFacts
<1>2. \A nu : Level(nu) \in Nat
  BY DEF Level
<1> HIDE DEF r, d, mu
<1>3. \A i \in 1 .. Len(q) : q[i].do \notin Asks
  BY <1>1 DEF Orderly, AsksUpwards
<1>4. Holds(q, d, mu)
  BY <1>1, <1>3 DEF Holds
<1>5. ASSUME NEW e PROVE ~Holds(r, e, mu)
  <2> SUFFICES ASSUME NEW j \in 1 .. Len(r) PROVE r[j].mu # mu
    BY DEF Holds
  <2>1. Level(q[j + 1].mu) < Level(q[1].mu)
    BY <1>1 DEF Orderly, GivesDownwards
  <2> QED
    BY <1>1, <1>2, <2>1
<1>6. ASSUME NEW e, NEW nu, nu # mu PROVE Holds(r, e, nu) <=> Holds(q, e, nu)
  <2>1. ASSUME Holds(r, e, nu) PROVE Holds(q, e, nu)
    <3>1. PICK j \in 1 .. Len(r) : r[j].do = e /\ r[j].mu = nu /\ e \notin Asks
      BY <2>1 DEF Holds
    <3>2. j + 1 \in 1 .. Len(q) /\ q[j + 1].do = e /\ q[j + 1].mu = nu
      BY <1>1, <3>1
    <3> QED
      BY <1>3, <3>1, <3>2 DEF Holds
  <2>2. ASSUME Holds(q, e, nu) PROVE Holds(r, e, nu)
    <3>1. PICK j \in 1 .. Len(q) : q[j].do = e /\ q[j].mu = nu /\ e \notin Asks
      BY <2>2 DEF Holds
    <3>2. j - 1 \in 1 .. Len(r) /\ r[j - 1].do = e /\ r[j - 1].mu = nu
      BY <1>1, <1>6, <3>1
    <3>3. \A i \in 1 .. Len(r) : r[i].do \notin Asks
      BY <1>1, <1>3
    <3> QED
      BY <3>1, <3>2, <3>3 DEF Holds
  <2> QED
    BY <2>1, <2>2
<1> QED
  BY <1>4, <1>5, <1>6 DEF r, d, mu

-----------------------------------------------------------------------------
(* Every function of the daemon is orderly, and starts holding nothing.     *)

Above(lv, q) == \A i \in 1 .. Len(q) : lv < Level(q[i].mu)

Whole(p) ==
    /\ Orderly(p)
    /\ \A j \in 1 .. Len(p) :
        p[j].do \notin Asks =>
            \E i \in 1 .. Len(p) : p[i].do \in Asks /\ p[i].mu = p[j].mu

LEMMA WholeEmpty == Whole(<<>>) /\ \A lv : Above(lv, <<>>)
BY DEF Whole, Orderly, AsksUpwards, GivesDownwards, GivesBack, HoldsBelow, Above

LEMMA WholeHoldsNothing ==
    ASSUME NEW p, Whole(p)
    PROVE  \A d, mu : ~Holds(p, d, mu)
BY DEF Whole, Holds

\* A lock around something whole whose locks are above it.
LEMMA Nest ==
    ASSUME NEW body, Whole(body), NEW d \in Asks, NEW mu \in Mutex \union {"file"},
           d = "LockFile" <=> mu = "file",
           Above(Level(mu), body),
           NEW p, p = <<[do |-> d, mu |-> mu]>> \o body \o <<[do |-> Undo(d), mu |-> mu]>>
    PROVE  Whole(p) /\ \A lv \in Int : lv < Level(mu) => Above(lv, p)
<1> DEFINE n == Len(body)
           first == [do |-> d, mu |-> mu]
           last == [do |-> Undo(d), mu |-> mu]
<1>1. body \in Seq(Operation) /\ n \in Nat
  BY DEF Whole, Orderly
<1>2. first \in Operation /\ last \in Operation
  BY DEF Operation, Undo, Asks
<1>3. /\ p \in Seq(Operation) /\ Len(p) = n + 2
      /\ p[1] = first /\ p[n + 2] = last
      /\ \A i \in 1 .. n : p[i + 1] = body[i]
  BY <1>1, <1>2
<1>4. /\ p[1].do = d /\ p[1].mu = mu /\ p[n + 2].do = Undo(d) /\ p[n + 2].mu = mu
      /\ d \in Asks /\ Undo(d) \notin Asks
  BY <1>3 DEF Undo, Asks
<1> HIDE DEF n, first, last
<1>5. \A nu : Level(nu) \in Nat
  BY DEF Level
<1>6. \A i \in 1 .. Len(p) : i = 1 \/ i = n + 2 \/ (i - 1 \in 1 .. n /\ p[i] = body[i - 1])
  BY <1>1, <1>3
<1>7. \A i \in 1 .. n : Level(mu) < Level(body[i].mu)
  BY DEF Above, n
<1>8. \A i \in 1 .. n : i + 1 \in 1 .. Len(p) /\ p[i + 1] = body[i]
  BY <1>1, <1>3
<1>9. 1 \in 1 .. Len(p) /\ n + 2 \in 1 .. Len(p)
  BY <1>1, <1>3
<1>10. AsksUpwards(p)
  <2> SUFFICES ASSUME NEW i \in 1 .. Len(p), NEW j \in 1 .. Len(p), i < j, p[j].do \in Asks
               PROVE  p[i].do \in Asks /\ Level(p[i].mu) < Level(p[j].mu)
    BY DEF AsksUpwards
  <2>1. j - 1 \in 1 .. n /\ p[j] = body[j - 1]
    BY <1>1, <1>4, <1>6
  <2>2. CASE i = 1
    BY <1>4, <1>7, <2>1, <2>2
  <2>3. CASE i # 1
    <3>1. i - 1 \in 1 .. n /\ p[i] = body[i - 1] /\ i - 1 < j - 1
      BY <1>1, <1>6, <2>1, <2>3
    <3> QED
      BY <2>1, <3>1 DEF Whole, Orderly, AsksUpwards, n
  <2> QED
    BY <2>2, <2>3
<1>11. GivesDownwards(p)
  <2> SUFFICES ASSUME NEW i \in 1 .. Len(p), NEW j \in 1 .. Len(p), i < j, p[i].do \notin Asks
               PROVE  Level(p[j].mu) < Level(p[i].mu)
    BY DEF GivesDownwards
  <2>1. i - 1 \in 1 .. n /\ p[i] = body[i - 1]
    BY <1>1, <1>3, <1>4, <1>6
  <2>2. CASE j = n + 2
    BY <1>4, <1>7, <2>1, <2>2
  <2>3. CASE j # n + 2
    <3>1. j - 1 \in 1 .. n /\ p[j] = body[j - 1] /\ i - 1 < j - 1
      BY <1>1, <1>6, <2>1, <2>3
    <3> QED
      BY <2>1, <3>1 DEF Whole, Orderly, GivesDownwards, n
  <2> QED
    BY <2>2, <2>3
<1>12. GivesBack(p)
  <2> SUFFICES ASSUME NEW i \in 1 .. Len(p), p[i].do \in Asks
               PROVE  \E j \in 1 .. Len(p) : p[j].do = Undo(p[i].do) /\ p[j].mu = p[i].mu
    BY DEF GivesBack
  <2>1. CASE i = 1
    BY <1>4, <1>9, <2>1
  <2>2. CASE i # 1
    <3>1. i - 1 \in 1 .. n /\ p[i] = body[i - 1]
      BY <1>4, <1>6, <2>2
    <3>2. PICK j \in 1 .. n : body[j].do = Undo(p[i].do) /\ body[j].mu = p[i].mu
      BY <3>1 DEF Whole, Orderly, GivesBack, n
    <3> QED
      BY <1>8, <3>2
  <2> QED
    BY <2>1, <2>2
<1>13. \A j \in 1 .. Len(p) :
        p[j].do \notin Asks =>
            \E i \in 1 .. Len(p) : p[i].do \in Asks /\ p[i].mu = p[j].mu
  <2> SUFFICES ASSUME NEW j \in 1 .. Len(p), p[j].do \notin Asks
               PROVE  \E i \in 1 .. Len(p) : p[i].do \in Asks /\ p[i].mu = p[j].mu
    OBVIOUS
  <2>1. CASE j = n + 2
    BY <1>4, <1>9, <2>1
  <2>2. CASE j # n + 2
    <3>1. j - 1 \in 1 .. n /\ p[j] = body[j - 1]
      BY <1>4, <1>6, <2>2
    <3>2. PICK i \in 1 .. n : body[i].do \in Asks /\ body[i].mu = p[j].mu
      BY <3>1 DEF Whole, n
    <3> QED
      BY <1>8, <3>2
  <2> QED
    BY <2>1, <2>2
<1>14. HoldsBelow(p)
  BY <1>13 DEF HoldsBelow
<1>15. ASSUME NEW lv \in Int, lv < Level(mu) PROVE Above(lv, p)
  BY <1>1, <1>4, <1>5, <1>6, <1>7, <1>15 DEF Above
<1> QED
  BY <1>3, <1>10, <1>11, <1>12, <1>13, <1>14, <1>15 DEF Whole, Orderly

LEMMA WholeWriting ==
    ASSUME NEW body, Whole(body), NEW mu \in Mutex, Above(Level(mu), body)
    PROVE  /\ Whole(Writing(mu, body))
           /\ \A lv \in Int : lv < Level(mu) => Above(lv, Writing(mu, body))
<1>1. Writing(mu, body)
        = <<[do |-> "Lock", mu |-> mu]>> \o body \o <<[do |-> Undo("Lock"), mu |-> mu]>>
  BY DEF Writing, Undo
<1> QED
  BY <1>1, Nest DEF Asks, Mutex

LEMMA WholeReading ==
    ASSUME NEW body, Whole(body), NEW mu \in Mutex, Above(Level(mu), body)
    PROVE  /\ Whole(Reading(mu, body))
           /\ \A lv \in Int : lv < Level(mu) => Above(lv, Reading(mu, body))
<1>1. Reading(mu, body)
        = <<[do |-> "RLock", mu |-> mu]>> \o body \o <<[do |-> Undo("RLock"), mu |-> mu]>>
  BY DEF Reading, Undo
<1> QED
  BY <1>1, Nest DEF Asks, Mutex

LEMMA WholeWithFile ==
    ASSUME NEW body, Whole(body), Above(0, body)
    PROVE  Whole(WithFile(body))
<1>1. WithFile(body)
        = <<[do |-> "LockFile", mu |-> "file"]>> \o body
            \o <<[do |-> Undo("LockFile"), mu |-> "file"]>>
  BY DEF WithFile, Undo
<1>2. Level("file") = 0
  BY DEF Level
<1> QED
  BY <1>1, <1>2, Nest DEF Asks

LEMMA ProgramsWhole == \A p \in Program : Whole(p)
<1> DEFINE w == Writing("sessionsMu", <<>>)
           r == Reading("sessionsMu", <<>>)
<1>1. /\ Level("sessionsMu") = 3 /\ Level("workersMu") = 2 /\ Level("closeMu") = 1
      /\ "sessionsMu" \in Mutex /\ "workersMu" \in Mutex /\ "closeMu" \in Mutex
  BY DEF Level, Mutex
<1>2. /\ Whole(w) /\ Above(0, w) /\ Above(1, w) /\ Above(2, w)
      /\ Whole(r) /\ Above(0, r) /\ Above(1, r) /\ Above(2, r)
  BY <1>1, WholeEmpty, WholeWriting, WholeReading
<1> HIDE DEF w, r
<1>3. /\ Whole(Writing("workersMu", w)) /\ Above(0, Writing("workersMu", w))
      /\ Above(1, Writing("workersMu", w))
      /\ Whole(Writing("workersMu", r)) /\ Whole(Reading("workersMu", w))
      /\ Whole(Reading("workersMu", r)) /\ Whole(Reading("workersMu", <<>>))
  BY <1>1, <1>2, WholeEmpty, WholeWriting, WholeReading
<1>4. /\ Whole(Writing("closeMu", Writing("workersMu", w)))
      /\ Whole(Writing("closeMu", <<>>))
  BY <1>1, <1>3, WholeEmpty, WholeWriting
<1>5. /\ Whole(WithFile(w)) /\ Whole(WithFile(r))
      /\ Whole(WithFile(Writing("workersMu", w)))
  BY <1>2, <1>3, WholeWithFile
<1> QED
  BY <1>2, <1>3, <1>4, <1>5
     DEF Program, w, r, NewSession, rollbackNewSession, spawnWorkerForSession,
         persistCurrentSession, markSessionMetaClosed, PurgeSession,
         waitWorkerExit, handleConn, commitCancelSendFailureIfCurrent,
         watchCancelledTurn, markCurrentWorkerRestartPending,
         currentWorkerForSession, isCurrentWorkerForSession,
         isCurrentSessionWorker, hasReadyCurrentWorkerForSession,
         finishCancelWithFailure, isCurrentSession, isCurrentWorker,
         monitorReady, isClosed

-----------------------------------------------------------------------------
(* The invariant: what a goroutine holds is what it has to give back.       *)

LocksTyped ==
    /\ todo \in [Thread -> Seq(Operation)]
    /\ readers \in [Mutex -> SUBSET Thread]
    /\ waiting \in [Mutex -> SUBSET Thread]
    /\ writer \in [Mutex -> Thread \union {Nil}]
    /\ pc \in [Thread -> PC]

Nested == \A t \in Thread : Orderly(todo[t])

WritersHold ==
    \A t \in Thread, mu \in Mutex :
        writer[mu] = t <=> Holds(todo[t], "Unlock", mu)

\* A reader that waits has only to be let in.
ReadersHold ==
    \A t \in Thread, mu \in Mutex :
        /\ t \in readers[mu] \union waiting[mu] <=> Holds(todo[t], "RUnlock", mu)
        /\ ~(t \in readers[mu] /\ t \in waiting[mu])

FilesHold ==
    \A t \in Thread :
        /\ pc[t] \in {"inside", "unlocked"} <=> Holds(todo[t], "UnlockFile", "file")
        /\ pc[t] = "requested" => todo[t] # <<>> /\ Head(todo[t]).do = "LockFile"

\* Who waits for mu holds nothing above it.
NothingAbove ==
    \A t \in Thread, mu \in Mutex :
        t \in waiting[mu] \/ (writer[mu] = t /\ readers[mu] # {}) =>
            \A d, nu : Holds(todo[t], d, nu) => Level(nu) <= Level(mu)

LocksHeld ==
    /\ LocksTyped /\ Nested /\ WritersHold /\ ReadersHold /\ FilesHold
    /\ NothingAbove

\* A goroutine was given what it asked for.
LEMMA StepAsks ==
    ASSUME LocksTyped, Nested, NEW t \in Thread, todo[t] # <<>>,
           Head(todo[t]).do \in Asks, Done(t)
    PROVE  LET d == Head(todo[t]).do
               mu == Head(todo[t]).mu
           IN  /\ todo' \in [Thread -> Seq(Operation)] /\ Nested'
               /\ \A u \in Thread : u # t => todo'[u] = todo[u]
               /\ \A e, nu : Holds(todo'[t], e, nu) <=>
                    IF nu = mu THEN e = Undo(d) ELSE Holds(todo[t], e, nu)
               /\ \A e : ~Holds(todo[t], e, mu)
               /\ \A e, nu : Holds(todo[t], e, nu) => Level(nu) < Level(mu)
               /\ [do |-> d, mu |-> mu] \in Operation
<1>1. todo'[t] = Tail(todo[t]) /\ \A u \in Thread : u # t => todo'[u] = todo[u]
  BY DEF Done, LocksTyped
<1>2. Orderly(todo[t]) /\ Orderly(Tail(todo[t]))
  BY OrderlyTail DEF Nested
<1>3. Tail(todo[t]) \in Seq(Operation) /\ Head(todo[t]) \in Operation
  BY <1>2, TailFacts
<1>4. todo' \in [Thread -> Seq(Operation)] /\ Nested'
  BY <1>1, <1>2, <1>3 DEF Done, LocksTyped, Nested
<1>5. /\ Holds(Tail(todo[t]), Undo(Head(todo[t]).do), Head(todo[t]).mu)
      /\ \A e : ~Holds(todo[t], e, Head(todo[t]).mu)
      /\ \A e, nu : Holds(todo[t], e, nu) => Level(nu) < Level(Head(todo[t]).mu)
      /\ \A e, nu : nu # Head(todo[t]).mu =>
            (Holds(Tail(todo[t]), e, nu) <=> Holds(todo[t], e, nu))
  BY <1>2, HeadAsks
<1>6. \A e : Holds(Tail(todo[t]), e, Head(todo[t]).mu) => e = Undo(Head(todo[t]).do)
  BY <1>2, <1>5, HoldsOnce
<1>7. [do |-> Head(todo[t]).do, mu |-> Head(todo[t]).mu] \in Operation
  BY <1>3 DEF Operation
<1> QED
  BY <1>1, <1>4, <1>5, <1>6, <1>7

\* A goroutine gives back what it has.
LEMMA StepGives ==
    ASSUME LocksTyped, Nested, NEW t \in Thread, todo[t] # <<>>,
           Head(todo[t]).do \notin Asks, Done(t)
    PROVE  LET d == Head(todo[t]).do
               mu == Head(todo[t]).mu
           IN  /\ todo' \in [Thread -> Seq(Operation)] /\ Nested'
               /\ \A u \in Thread : u # t => todo'[u] = todo[u]
               /\ \A e, nu : Holds(todo'[t], e, nu) <=>
                    nu # mu /\ Holds(todo[t], e, nu)
               /\ \A e : Holds(todo[t], e, mu) <=> e = d
               /\ [do |-> d, mu |-> mu] \in Operation
<1>1. todo'[t] = Tail(todo[t]) /\ \A u \in Thread : u # t => todo'[u] = todo[u]
  BY DEF Done, LocksTyped
<1>2. Orderly(todo[t]) /\ Orderly(Tail(todo[t]))
  BY OrderlyTail DEF Nested
<1>3. Tail(todo[t]) \in Seq(Operation) /\ Head(todo[t]) \in Operation
  BY <1>2, TailFacts
<1>4. todo' \in [Thread -> Seq(Operation)] /\ Nested'
  BY <1>1, <1>2, <1>3 DEF Done, LocksTyped, Nested
<1>5. /\ Holds(todo[t], Head(todo[t]).do, Head(todo[t]).mu)
      /\ \A e : ~Holds(Tail(todo[t]), e, Head(todo[t]).mu)
      /\ \A e, nu : nu # Head(todo[t]).mu =>
            (Holds(Tail(todo[t]), e, nu) <=> Holds(todo[t], e, nu))
  BY <1>2, HeadGives
<1>6. \A e : Holds(todo[t], e, Head(todo[t]).mu) => e = Head(todo[t]).do
  BY <1>2, <1>5, HoldsOnce
<1>7. [do |-> Head(todo[t]).do, mu |-> Head(todo[t]).mu] \in Operation
  BY <1>3 DEF Operation
<1> QED
  BY <1>1, <1>4, <1>5, <1>6, <1>7

LEMMA LocksHeldInitially == SystemInit => LocksHeld
<1> SUFFICES ASSUME SystemInit PROVE LocksHeld
  OBVIOUS
<1>1. LocksTyped
  BY DEF SystemInit, Init, LocksTyped, PC
<1>2. \A t \in Thread : todo[t] = <<>>
  BY DEF SystemInit
<1>3. Whole(<<>>) /\ \A d, mu : ~Holds(<<>>, d, mu)
  BY WholeEmpty, WholeHoldsNothing
<1>4. Nested
  BY <1>2, <1>3 DEF Nested, Whole
<1>5. WritersHold
  BY <1>2, <1>3, GoroutineAssumption DEF WritersHold, SystemInit
<1>6. ReadersHold /\ NothingAbove
  BY <1>2, <1>3 DEF ReadersHold, NothingAbove, SystemInit
<1>7. FilesHold
  BY <1>2, <1>3 DEF FilesHold, SystemInit, Init
<1> QED
  BY <1>1, <1>4, <1>5, <1>6, <1>7 DEF LocksHeld

LEMMA CallHolds ==
    ASSUME LocksHeld, NEW t \in Thread, Call(t)
    PROVE  LocksHeld'
<1>1. PICK p \in Program : todo' = [todo EXCEPT ![t] = p]
  BY DEF Call
<1>2. Orderly(p) /\ p \in Seq(Operation) /\ \A d, mu : ~Holds(p, d, mu)
  BY ProgramsWhole, WholeHoldsNothing DEF Whole, Orderly
<1>3. /\ todo' \in [Thread -> Seq(Operation)] /\ todo'[t] = p
      /\ \A u \in Thread : u # t => todo'[u] = todo[u]
  BY <1>1, <1>2 DEF LocksHeld, LocksTyped
<1>4. todo[t] = <<>> /\ UNCHANGED <<pc, readers, waiting, writer>>
  BY DEF Call, vars, mutexes
<1>5. \A d, mu : ~Holds(todo[t], d, mu)
  BY <1>4, WholeEmpty, WholeHoldsNothing
<1>6. \A u \in Thread : \A d, mu : Holds(todo'[u], d, mu) <=> Holds(todo[u], d, mu)
  BY <1>2, <1>3, <1>5
<1>7. LocksTyped'
  BY <1>3, <1>4 DEF LocksHeld, LocksTyped
<1>8. Nested'
  BY <1>2, <1>3 DEF LocksHeld, Nested
<1>9. WritersHold'
  BY <1>4, <1>6 DEF LocksHeld, WritersHold
<1>10. ReadersHold'
  BY <1>4, <1>6 DEF LocksHeld, ReadersHold
<1>11. FilesHold'
  BY <1>3, <1>4, <1>6 DEF LocksHeld, FilesHold
<1>12. NothingAbove'
  BY <1>4, <1>6 DEF LocksHeld, NothingAbove
<1> QED
  BY <1>7, <1>8, <1>9, <1>10, <1>11, <1>12 DEF LocksHeld

LEMMA ReadLockHolds ==
    ASSUME LocksHeld, NEW t \in Thread, ReadLock(t)
    PROVE  LocksHeld'
<1> DEFINE m == Head(todo[t]).mu
<1>1. /\ todo[t] # <<>> /\ Head(todo[t]).do = "RLock" /\ Done(t) /\ Running(t)
      /\ UNCHANGED <<pc, writer>>
  BY DEF ReadLock, Due, vars
<1>2. Head(todo[t]).do \in Asks /\ Undo(Head(todo[t]).do) = "RUnlock"
  BY <1>1 DEF Asks, Undo
<1>3. /\ todo' \in [Thread -> Seq(Operation)] /\ Nested'
      /\ \A u \in Thread : u # t => todo'[u] = todo[u]
      /\ \A e, nu : Holds(todo'[t], e, nu) <=>
            IF nu = m THEN e = "RUnlock" ELSE Holds(todo[t], e, nu)
      /\ \A e : ~Holds(todo[t], e, m)
      /\ \A e, nu : Holds(todo[t], e, nu) => Level(nu) < Level(m)
      /\ [do |-> "RLock", mu |-> m] \in Operation
  BY <1>1, <1>2, StepAsks DEF LocksHeld
<1>4. m \in Mutex /\ m # "file"
  BY <1>3 DEF Operation, Mutex
<1>5. IF writer[m] = Nil
      THEN readers' = [readers EXCEPT ![m] = @ \union {t}] /\ waiting' = waiting
      ELSE waiting' = [waiting EXCEPT ![m] = @ \union {t}] /\ readers' = readers
  BY DEF ReadLock
<1> HIDE DEF m
<1>6. LocksTyped'
  <2>1. /\ readers' \in [Mutex -> SUBSET Thread]
        /\ waiting' \in [Mutex -> SUBSET Thread]
    <3>1. CASE writer[m] = Nil
      <4>1. readers[m] \union {t} \in SUBSET Thread
        BY <1>4 DEF LocksHeld, LocksTyped
      <4> QED
        BY <1>5, <3>1, <4>1 DEF LocksHeld, LocksTyped
    <3>2. CASE writer[m] # Nil
      <4>1. waiting[m] \union {t} \in SUBSET Thread
        BY <1>4 DEF LocksHeld, LocksTyped
      <4> QED
        BY <1>5, <3>2, <4>1 DEF LocksHeld, LocksTyped
    <3> QED
      BY <3>1, <3>2
  <2> QED
    BY <1>1, <1>3, <2>1 DEF LocksHeld, LocksTyped
<1>7. WritersHold'
  BY <1>1, <1>3, <1>4 DEF LocksHeld, WritersHold
<1>8. ReadersHold'
  <2> SUFFICES ASSUME NEW u \in Thread, NEW nu \in Mutex
               PROVE  /\ u \in readers'[nu] \union waiting'[nu]
                            <=> Holds(todo'[u], "RUnlock", nu)
                      /\ ~(u \in readers'[nu] /\ u \in waiting'[nu])
    BY DEF ReadersHold
  <2>1. /\ u \in readers[nu] \union waiting[nu] <=> Holds(todo[u], "RUnlock", nu)
        /\ ~(u \in readers[nu] /\ u \in waiting[nu])
    BY DEF LocksHeld, ReadersHold
  <2>2. CASE u = t /\ nu = m
    BY <1>3, <1>4, <1>5, <2>1, <2>2 DEF LocksHeld, LocksTyped
  <2>3. CASE ~(u = t /\ nu = m)
    <3>1. /\ u \in readers'[nu] <=> u \in readers[nu]
          /\ u \in waiting'[nu] <=> u \in waiting[nu]
      BY <1>4, <1>5, <2>3 DEF LocksHeld, LocksTyped
    <3>2. Holds(todo'[u], "RUnlock", nu) <=> Holds(todo[u], "RUnlock", nu)
      BY <1>3, <2>3
    <3> QED
      BY <2>1, <3>1, <3>2
  <2> QED
    BY <2>2, <2>3
<1>9. FilesHold'
  BY <1>1, <1>3, <1>4 DEF LocksHeld, FilesHold
<1>10. NothingAbove'
  <2> SUFFICES ASSUME NEW u \in Thread, NEW mu \in Mutex,
                      u \in waiting'[mu] \/ (writer'[mu] = u /\ readers'[mu] # {}),
                      NEW d, NEW nu, Holds(todo'[u], d, nu)
               PROVE  Level(nu) <= Level(mu)
    BY DEF NothingAbove
  <2>1. CASE u = t
    <3>1. mu = m
      BY <1>1, <1>4, <1>5, <2>1, GoroutineAssumption DEF LocksHeld, LocksTyped, Running
    <3> QED
      BY <1>3, <2>1, <3>1 DEF Level
  <2>2. CASE u # t
    <3>1. u \in waiting[mu] \/ (writer[mu] = u /\ readers[mu] # {})
      <4>1. CASE mu # m
        BY <1>1, <1>4, <1>5, <4>1 DEF LocksHeld, LocksTyped
      <4>2. CASE mu = m /\ writer[m] = Nil
        BY <1>1, <1>4, <1>5, <4>2, GoroutineAssumption DEF LocksHeld, LocksTyped
      <4>3. CASE mu = m /\ writer[m] # Nil
        BY <1>1, <1>4, <1>5, <2>2, <4>3 DEF LocksHeld, LocksTyped
      <4> QED
        BY <4>1, <4>2, <4>3
    <3> QED
      BY <1>3, <2>2, <3>1 DEF LocksHeld, NothingAbove
  <2> QED
    BY <2>1, <2>2
<1> QED
  BY <1>3, <1>6, <1>7, <1>8, <1>9, <1>10 DEF LocksHeld

LEMMA ReadUnlockHolds ==
    ASSUME LocksHeld, NEW t \in Thread, ReadUnlock(t)
    PROVE  LocksHeld'
<1> DEFINE m == Head(todo[t]).mu
<1>1. /\ todo[t] # <<>> /\ Head(todo[t]).do = "RUnlock" /\ Done(t) /\ Running(t)
      /\ UNCHANGED <<pc, writer, waiting>>
      /\ readers' = [readers EXCEPT ![m] = @ \ {t}]
  BY DEF ReadUnlock, Due, vars
<1>2. Head(todo[t]).do \notin Asks
  BY <1>1 DEF Asks
<1>20. /\ todo' \in [Thread -> Seq(Operation)] /\ Nested'
       /\ \A u \in Thread : u # t => todo'[u] = todo[u]
       /\ \A e, nu : Holds(todo'[t], e, nu) <=> nu # m /\ Holds(todo[t], e, nu)
       /\ \A e : Holds(todo[t], e, m) <=> e = Head(todo[t]).do
       /\ [do |-> Head(todo[t]).do, mu |-> m] \in Operation
  BY <1>1, <1>2, StepGives DEF LocksHeld
<1>3. /\ todo' \in [Thread -> Seq(Operation)] /\ Nested'
      /\ \A u \in Thread : u # t => todo'[u] = todo[u]
      /\ \A e, nu : Holds(todo'[t], e, nu) <=> nu # m /\ Holds(todo[t], e, nu)
      /\ \A e : Holds(todo[t], e, m) <=> e = "RUnlock"
      /\ [do |-> "RUnlock", mu |-> m] \in Operation
  BY <1>1, <1>20
<1>4. m \in Mutex /\ m # "file"
  BY <1>3 DEF Operation, Mutex
<1> HIDE DEF m
<1>5. \A nu \in Mutex : t \notin waiting[nu]
  BY <1>1 DEF Running
<1>6. LocksTyped'
  BY <1>1, <1>3, <1>4 DEF LocksHeld, LocksTyped
<1>7. WritersHold'
  BY <1>1, <1>3, <1>4 DEF LocksHeld, WritersHold
<1>8. ReadersHold'
  BY <1>1, <1>3, <1>4, <1>5 DEF LocksHeld, LocksTyped, ReadersHold
<1>9. FilesHold'
  BY <1>1, <1>3, <1>4 DEF LocksHeld, FilesHold
<1>10. NothingAbove'
  <2> SUFFICES ASSUME NEW u \in Thread, NEW mu \in Mutex,
                      u \in waiting'[mu] \/ (writer'[mu] = u /\ readers'[mu] # {}),
                      NEW d, NEW nu, Holds(todo'[u], d, nu)
               PROVE  Level(nu) <= Level(mu)
    BY DEF NothingAbove
  <2>1. u \in waiting[mu] \/ (writer[mu] = u /\ readers[mu] # {})
    BY <1>1, <1>4 DEF LocksHeld, LocksTyped
  <2>2. Holds(todo[u], d, nu)
    BY <1>3
  <2> QED
    BY <2>1, <2>2 DEF LocksHeld, NothingAbove
<1> QED
  BY <1>3, <1>6, <1>7, <1>8, <1>9, <1>10 DEF LocksHeld

LEMMA WriteLockHolds ==
    ASSUME LocksHeld, NEW t \in Thread, WriteLock(t)
    PROVE  LocksHeld'
<1> DEFINE m == Head(todo[t]).mu
<1>1. /\ todo[t] # <<>> /\ Head(todo[t]).do = "Lock" /\ Done(t) /\ Running(t)
      /\ UNCHANGED <<pc, readers, waiting>>
      /\ writer[m] = Nil /\ writer' = [writer EXCEPT ![m] = t]
  BY DEF WriteLock, Due, vars
<1>2. Head(todo[t]).do \in Asks /\ Undo(Head(todo[t]).do) = "Unlock"
  BY <1>1 DEF Asks, Undo
<1>3. /\ todo' \in [Thread -> Seq(Operation)] /\ Nested'
      /\ \A u \in Thread : u # t => todo'[u] = todo[u]
      /\ \A e, nu : Holds(todo'[t], e, nu) <=>
            IF nu = m THEN e = "Unlock" ELSE Holds(todo[t], e, nu)
      /\ \A e : ~Holds(todo[t], e, m)
      /\ \A e, nu : Holds(todo[t], e, nu) => Level(nu) < Level(m)
      /\ [do |-> "Lock", mu |-> m] \in Operation
  BY <1>1, <1>2, StepAsks DEF LocksHeld
<1>4. m \in Mutex /\ m # "file"
  BY <1>3 DEF Operation, Mutex
<1> HIDE DEF m
<1>5. LocksTyped'
  BY <1>1, <1>3, <1>4 DEF LocksHeld, LocksTyped
<1>6. WritersHold'
  BY <1>1, <1>3, <1>4, GoroutineAssumption DEF LocksHeld, LocksTyped, WritersHold
<1>7. ReadersHold'
  BY <1>1, <1>3, <1>4 DEF LocksHeld, ReadersHold
<1>8. FilesHold'
  BY <1>1, <1>3, <1>4 DEF LocksHeld, FilesHold
<1>9. NothingAbove'
  <2> SUFFICES ASSUME NEW u \in Thread, NEW mu \in Mutex,
                      u \in waiting'[mu] \/ (writer'[mu] = u /\ readers'[mu] # {}),
                      NEW d, NEW nu, Holds(todo'[u], d, nu)
               PROVE  Level(nu) <= Level(mu)
    BY DEF NothingAbove
  <2>1. CASE u = t
    <3>1. mu = m
      BY <1>1, <1>4, <2>1 DEF LocksHeld, LocksTyped, Running
    <3> QED
      BY <1>3, <2>1, <3>1 DEF Level
  <2>2. CASE u # t
    <3>1. u \in waiting[mu] \/ (writer[mu] = u /\ readers[mu] # {})
      BY <1>1, <1>4, <2>2 DEF LocksHeld, LocksTyped
    <3> QED
      BY <1>3, <2>2, <3>1 DEF LocksHeld, NothingAbove
  <2> QED
    BY <2>1, <2>2
<1> QED
  BY <1>3, <1>5, <1>6, <1>7, <1>8, <1>9 DEF LocksHeld

LEMMA WriteUnlockHolds ==
    ASSUME LocksHeld, NEW t \in Thread, WriteUnlock(t)
    PROVE  LocksHeld'
<1> DEFINE m == Head(todo[t]).mu
<1>1. /\ todo[t] # <<>> /\ Head(todo[t]).do = "Unlock" /\ Done(t) /\ Running(t)
      /\ UNCHANGED pc
      /\ writer' = [writer EXCEPT ![m] = Nil]
      /\ readers' = [readers EXCEPT ![m] = waiting[m]]
      /\ waiting' = [waiting EXCEPT ![m] = {}]
  BY DEF WriteUnlock, Due, vars
<1>2. Head(todo[t]).do \notin Asks
  BY <1>1 DEF Asks
<1>20. /\ todo' \in [Thread -> Seq(Operation)] /\ Nested'
       /\ \A u \in Thread : u # t => todo'[u] = todo[u]
       /\ \A e, nu : Holds(todo'[t], e, nu) <=> nu # m /\ Holds(todo[t], e, nu)
       /\ \A e : Holds(todo[t], e, m) <=> e = Head(todo[t]).do
       /\ [do |-> Head(todo[t]).do, mu |-> m] \in Operation
  BY <1>1, <1>2, StepGives DEF LocksHeld
<1>3. /\ todo' \in [Thread -> Seq(Operation)] /\ Nested'
      /\ \A u \in Thread : u # t => todo'[u] = todo[u]
      /\ \A e, nu : Holds(todo'[t], e, nu) <=> nu # m /\ Holds(todo[t], e, nu)
      /\ \A e : Holds(todo[t], e, m) <=> e = "Unlock"
      /\ [do |-> "Unlock", mu |-> m] \in Operation
  BY <1>1, <1>20
<1>4. m \in Mutex /\ m # "file"
  BY <1>3 DEF Operation, Mutex
<1> HIDE DEF m
<1>5. writer[m] = t
  BY <1>3, <1>4 DEF LocksHeld, WritersHold
<1>6. readers[m] = {}
  BY <1>1, <1>4, <1>5 DEF Running
<1>7. LocksTyped'
  BY <1>1, <1>3, <1>4 DEF LocksHeld, LocksTyped
<1>8. WritersHold'
  <2> SUFFICES ASSUME NEW u \in Thread, NEW nu \in Mutex
               PROVE  writer'[nu] = u <=> Holds(todo'[u], "Unlock", nu)
    BY DEF WritersHold
  <2>1. writer[nu] = u <=> Holds(todo[u], "Unlock", nu)
    BY DEF LocksHeld, WritersHold
  <2>2. CASE nu = m
    BY <1>1, <1>3, <1>5, <2>1, <2>2, GoroutineAssumption DEF LocksHeld, LocksTyped
  <2>3. CASE nu # m
    BY <1>1, <1>3, <2>1, <2>3 DEF LocksHeld, LocksTyped
  <2> QED
    BY <2>2, <2>3
<1>9. ReadersHold'
  <2> SUFFICES ASSUME NEW u \in Thread, NEW nu \in Mutex
               PROVE  /\ u \in readers'[nu] \union waiting'[nu]
                            <=> Holds(todo'[u], "RUnlock", nu)
                      /\ ~(u \in readers'[nu] /\ u \in waiting'[nu])
    BY DEF ReadersHold
  <2>1. /\ u \in readers[nu] \union waiting[nu] <=> Holds(todo[u], "RUnlock", nu)
        /\ ~(u \in readers[nu] /\ u \in waiting[nu])
    BY DEF LocksHeld, ReadersHold
  <2>2. Holds(todo'[u], "RUnlock", nu) <=> Holds(todo[u], "RUnlock", nu)
    <3>1. CASE u # t
      BY <1>3, <3>1
    <3>2. CASE u = t /\ nu = m
      BY <1>3, <3>2
    <3>3. CASE u = t /\ nu # m
      BY <1>3, <3>3
    <3> QED
      BY <3>1, <3>2, <3>3
  <2>3. CASE nu = m
    BY <1>1, <1>6, <2>1, <2>2, <2>3 DEF LocksHeld, LocksTyped
  <2>4. CASE nu # m
    BY <1>1, <2>1, <2>2, <2>4 DEF LocksHeld, LocksTyped
  <2> QED
    BY <2>3, <2>4
<1>10. FilesHold'
  BY <1>1, <1>3, <1>4 DEF LocksHeld, FilesHold
<1>11. NothingAbove'
  <2> SUFFICES ASSUME NEW u \in Thread, NEW mu \in Mutex,
                      u \in waiting'[mu] \/ (writer'[mu] = u /\ readers'[mu] # {}),
                      NEW d, NEW nu, Holds(todo'[u], d, nu)
               PROVE  Level(nu) <= Level(mu)
    BY DEF NothingAbove
  <2>1. mu # m
    BY <1>1, <1>4, GoroutineAssumption DEF LocksHeld, LocksTyped
  <2>2. u \in waiting[mu] \/ (writer[mu] = u /\ readers[mu] # {})
    BY <1>1, <2>1 DEF LocksHeld, LocksTyped
  <2>3. Holds(todo[u], d, nu)
    BY <1>3
  <2> QED
    BY <2>2, <2>3 DEF LocksHeld, NothingAbove
<1> QED
  BY <1>3, <1>7, <1>8, <1>9, <1>10, <1>11 DEF LocksHeld

LEMMA FileRequestHolds ==
    ASSUME LocksHeld, NEW t \in Thread, FileRequest(t)
    PROVE  LocksHeld'
<1>1. /\ todo[t] # <<>> /\ Head(todo[t]).do = "LockFile"
      /\ pc[t] = "outside" /\ pc' = [pc EXCEPT ![t] = "requested"]
      /\ UNCHANGED <<todo, readers, waiting, writer>>
  BY DEF FileRequest, Due, Request, mutexes
<1>2. LocksTyped'
  BY <1>1 DEF LocksHeld, LocksTyped, PC
<1>3. FilesHold'
  BY <1>1 DEF LocksHeld, LocksTyped, FilesHold
<1>4. Nested' /\ WritersHold' /\ ReadersHold' /\ NothingAbove'
  BY <1>1 DEF LocksHeld, Nested, WritersHold, ReadersHold, NothingAbove
<1> QED
  BY <1>2, <1>3, <1>4 DEF LocksHeld

LEMMA FileLockHolds ==
    ASSUME LocksHeld, NEW t \in Thread, FileLock(t)
    PROVE  LocksHeld'
<1> DEFINE m == Head(todo[t]).mu
<1>1. /\ todo[t] # <<>> /\ Head(todo[t]).do = "LockFile" /\ Done(t) /\ Running(t)
      /\ pc' = [pc EXCEPT ![t] = "inside"]
      /\ UNCHANGED <<readers, waiting, writer>>
  BY DEF FileLock, Due, Lock, mutexes
<1>2. Head(todo[t]).do \in Asks /\ Undo(Head(todo[t]).do) = "UnlockFile"
  BY <1>1 DEF Asks, Undo
<1>3. /\ todo' \in [Thread -> Seq(Operation)] /\ Nested'
      /\ \A u \in Thread : u # t => todo'[u] = todo[u]
      /\ \A e, nu : Holds(todo'[t], e, nu) <=>
            IF nu = m THEN e = "UnlockFile" ELSE Holds(todo[t], e, nu)
      /\ \A e : ~Holds(todo[t], e, m)
      /\ [do |-> "LockFile", mu |-> m] \in Operation
  BY <1>1, <1>2, StepAsks DEF LocksHeld
<1>4. m = "file" /\ m \notin Mutex
  BY <1>3 DEF Operation, Mutex
<1> HIDE DEF m
<1>5. LocksTyped'
  BY <1>1, <1>3 DEF LocksHeld, LocksTyped, PC
<1>6. FilesHold'
  BY <1>1, <1>3, <1>4 DEF LocksHeld, LocksTyped, FilesHold
<1>7. \A u \in Thread, mu \in Mutex, e \in {"Unlock", "RUnlock"} :
        Holds(todo'[u], e, mu) <=> Holds(todo[u], e, mu)
  BY <1>3, <1>4
<1>8. WritersHold' /\ ReadersHold'
  BY <1>1, <1>7 DEF LocksHeld, WritersHold, ReadersHold
<1>9. NothingAbove'
  <2> SUFFICES ASSUME NEW u \in Thread, NEW mu \in Mutex,
                      u \in waiting'[mu] \/ (writer'[mu] = u /\ readers'[mu] # {}),
                      NEW d, NEW nu, Holds(todo'[u], d, nu)
               PROVE  Level(nu) <= Level(mu)
    BY DEF NothingAbove
  <2>1. u # t
    BY <1>1 DEF Running
  <2> QED
    BY <1>1, <1>3, <2>1 DEF LocksHeld, NothingAbove
<1> QED
  BY <1>3, <1>5, <1>6, <1>8, <1>9 DEF LocksHeld

LEMMA FileUnlockHolds ==
    ASSUME LocksHeld, NEW t \in Thread, FileUnlock(t)
    PROVE  LocksHeld'
<1>1. /\ pc[t] = "inside" /\ pc' = [pc EXCEPT ![t] = "unlocked"]
      /\ UNCHANGED <<todo, readers, waiting, writer>>
  BY DEF FileUnlock, Unlock, mutexes
<1>2. LocksTyped'
  BY <1>1 DEF LocksHeld, LocksTyped, PC
<1>3. FilesHold'
  BY <1>1 DEF LocksHeld, LocksTyped, FilesHold
<1>4. Nested' /\ WritersHold' /\ ReadersHold' /\ NothingAbove'
  BY <1>1 DEF LocksHeld, Nested, WritersHold, ReadersHold, NothingAbove
<1> QED
  BY <1>2, <1>3, <1>4 DEF LocksHeld

LEMMA FileDropHolds ==
    ASSUME LocksHeld, NEW t \in Thread, FileDrop(t)
    PROVE  LocksHeld'
<1> DEFINE m == Head(todo[t]).mu
<1>1. /\ todo[t] # <<>> /\ Head(todo[t]).do = "UnlockFile" /\ Done(t) /\ Running(t)
      /\ pc' = [pc EXCEPT ![t] = "outside"]
      /\ UNCHANGED <<readers, waiting, writer>>
  BY DEF FileDrop, Due, Drop, mutexes
<1>2. Head(todo[t]).do \notin Asks
  BY <1>1 DEF Asks
<1>3. /\ todo' \in [Thread -> Seq(Operation)] /\ Nested'
      /\ \A u \in Thread : u # t => todo'[u] = todo[u]
      /\ \A e, nu : Holds(todo'[t], e, nu) <=> nu # m /\ Holds(todo[t], e, nu)
      /\ [do |-> Head(todo[t]).do, mu |-> m] \in Operation
  BY <1>1, <1>2, StepGives DEF LocksHeld
<1>4. m = "file" /\ m \notin Mutex
  BY <1>1, <1>3 DEF Operation, Mutex
<1> HIDE DEF m
<1>5. LocksTyped'
  BY <1>1, <1>3 DEF LocksHeld, LocksTyped, PC
<1>6. FilesHold'
  BY <1>1, <1>3, <1>4 DEF LocksHeld, LocksTyped, FilesHold
<1>7. \A u \in Thread, mu \in Mutex, e \in {"Unlock", "RUnlock"} :
        Holds(todo'[u], e, mu) <=> Holds(todo[u], e, mu)
  BY <1>3, <1>4
<1>8. WritersHold' /\ ReadersHold'
  BY <1>1, <1>7 DEF LocksHeld, WritersHold, ReadersHold
<1>9. NothingAbove'
  <2> SUFFICES ASSUME NEW u \in Thread, NEW mu \in Mutex,
                      u \in waiting'[mu] \/ (writer'[mu] = u /\ readers'[mu] # {}),
                      NEW d, NEW nu, Holds(todo'[u], d, nu)
               PROVE  Level(nu) <= Level(mu)
    BY DEF NothingAbove
  <2>1. Holds(todo[u], d, nu)
    BY <1>3
  <2> QED
    BY <1>1, <2>1 DEF LocksHeld, NothingAbove
<1> QED
  BY <1>3, <1>5, <1>6, <1>8, <1>9 DEF LocksHeld

\* Goroutines hold what their functions have still to give back, and nothing
\* else.
THEOREM LocksHeldTheorem == SystemSpec => []LocksHeld
<1>1. LocksHeld /\ [SystemNext]_allVars => LocksHeld'
  <2> SUFFICES ASSUME LocksHeld, [SystemNext]_allVars PROVE LocksHeld'
    OBVIOUS
  <2>1. ASSUME NEW t \in Thread, Proceed(t) PROVE LocksHeld'
    BY <2>1, ReadLockHolds, ReadUnlockHolds, WriteLockHolds, WriteUnlockHolds,
       FileRequestHolds, FileLockHolds, FileUnlockHolds, FileDropHolds DEF Proceed
  <2>2. CASE UNCHANGED allVars
    <3>1. UNCHANGED <<pc, todo, readers, waiting, writer>>
      BY <2>2 DEF allVars, vars, mutexes
    <3> QED
      BY <3>1 DEF LocksHeld, LocksTyped, Nested, WritersHold, ReadersHold, FilesHold,
                  NothingAbove
  <2> QED
    BY <2>1, <2>2, CallHolds DEF SystemNext
<1> QED
  BY <1>1, LocksHeldInitially, PTL DEF SystemSpec

-----------------------------------------------------------------------------
(* Who waits for somebody waits lower than that somebody does: first for a  *)
(* file, then for the writer of a mutex, then for its readers.              *)

WaitsAt(t, u, n) ==
    \/ n = 0 /\ pc[t] = "requested" /\ Inside(u)
    \/ \E mu \in Mutex :
        \/ n = 2 * Level(mu) /\ t \in waiting[mu] /\ writer[mu] = u
        \/ n = 2 * Level(mu) + 1 /\ writer[mu] = t /\ u \in readers[mu]
        \/ n = 2 * Level(mu) /\ Due(t, "Lock") /\ Head(todo[t]).mu = mu /\ writer[mu] = u

LEMMA WaitsSomewhere ==
    ASSUME LocksHeld, NEW t \in Thread, NEW u \in Thread, WaitsFor(t, u)
    PROVE  \E n \in 0 .. 7 : WaitsAt(t, u, n)
<1>1. \A mu \in Mutex : 2 * Level(mu) \in 0 .. 7 /\ 2 * Level(mu) + 1 \in 0 .. 7
  BY DEF Level, Mutex
<1>2. CASE \E mu \in Mutex : t \in waiting[mu] /\ writer[mu] = u
  BY <1>1, <1>2 DEF WaitsAt
<1>3. CASE \E mu \in Mutex : writer[mu] = t /\ u \in readers[mu]
  BY <1>1, <1>3 DEF WaitsAt
<1>4. CASE Due(t, "Lock") /\ writer[Head(todo[t]).mu] = u
  <2>1. Orderly(todo[t]) /\ todo[t] # <<>> /\ Head(todo[t]).do = "Lock"
    BY <1>4 DEF LocksHeld, Nested, Due
  <2>2. Head(todo[t]) \in Operation
    BY <2>1, TailFacts
  <2>3. Head(todo[t]).mu \in Mutex
    BY <2>1, <2>2 DEF Operation
  <2> QED
    BY <1>1, <1>4, <2>3 DEF WaitsAt
<1>5. CASE pc[t] = "requested" /\ Inside(u)
  BY <1>5 DEF WaitsAt
<1> QED
  BY <1>2, <1>3, <1>4, <1>5 DEF WaitsFor

\* Who holds mu waits, if at all, above it, and does not wait for mu itself.
LEMMA HolderWaitsAbove ==
    ASSUME LocksHeld, NEW u \in Thread, NEW v \in Thread, NEW m \in Int,
           WaitsAt(u, v, m),
           NEW d, NEW mu \in Mutex \union {"file"}, Holds(todo[u], d, mu),
           d = "Unlock" => mu \in Mutex /\ writer[mu] = u,
           d = "RUnlock" => mu \in Mutex /\ u \in readers[mu],
           d = "UnlockFile" => mu = "file",
           d \in {"Unlock", "RUnlock", "UnlockFile"}
    PROVE  \/ m > 2 * Level(mu) + 1
           \/ d = "Unlock" /\ m = 2 * Level(mu) + 1
<1>1. Orderly(todo[u])
  BY DEF LocksHeld, Nested
<1>2. \A x, y \in Mutex \union {"file"} :
        /\ Level(x) \in Nat /\ (Level(x) = Level(y) => x = y)
        /\ Level(x) < Level(y) => 2 * Level(y) > 2 * Level(x) + 1
  BY DEF Level, Mutex
<1>3. ~(pc[u] = "requested")
  <2> SUFFICES ASSUME pc[u] = "requested" PROVE FALSE
    OBVIOUS
  <2>1. todo[u] # <<>> /\ Head(todo[u]).do = "LockFile"
    BY DEF LocksHeld, FilesHold
  <2>2. Head(todo[u]) \in Operation
    BY <1>1, <2>1, TailFacts
  <2>3. Head(todo[u]).mu = "file" /\ Head(todo[u]).do \in Asks
    BY <2>1, <2>2 DEF Operation, Asks
  <2>4. Level(mu) < Level(Head(todo[u]).mu)
    BY <1>1, <2>1, <2>3, HeadAsks
  <2>5. Level("file") = 0
    BY DEF Level
  <2> QED
    BY <1>2, <2>3, <2>4, <2>5
<1>4. PICK nu \in Mutex :
        \/ m = 2 * Level(nu) /\ u \in waiting[nu]
        \/ m = 2 * Level(nu) + 1 /\ writer[nu] = u /\ v \in readers[nu]
        \/ m = 2 * Level(nu) /\ Due(u, "Lock") /\ Head(todo[u]).mu = nu
  BY <1>3 DEF WaitsAt
<1>5. CASE m = 2 * Level(nu) /\ u \in waiting[nu]
  <2>1. Level(mu) <= Level(nu)
    BY <1>5 DEF LocksHeld, NothingAbove
  <2>2. Holds(todo[u], "RUnlock", nu) /\ u \notin readers[nu]
    BY <1>5 DEF LocksHeld, ReadersHold
  <2>3. mu # nu
    BY <1>1, <2>2, HoldsOnce
  <2>4. Level(mu) < Level(nu)
    BY <1>2, <2>1, <2>3
  <2> QED
    BY <1>2, <1>5, <2>4
<1>6. CASE m = 2 * Level(nu) + 1 /\ writer[nu] = u /\ v \in readers[nu]
  <2>1. Level(mu) <= Level(nu)
    BY <1>6 DEF LocksHeld, NothingAbove
  <2>2. Holds(todo[u], "Unlock", nu)
    BY <1>6 DEF LocksHeld, WritersHold
  <2>3. mu = nu => d = "Unlock"
    BY <1>1, <2>2, HoldsOnce
  <2>4. mu # nu => Level(mu) < Level(nu)
    BY <1>2, <2>1
  <2>5. CASE mu = nu
    BY <1>6, <2>3, <2>5
  <2>6. CASE mu # nu
    BY <1>2, <1>6, <2>4, <2>6
  <2> QED
    BY <2>5, <2>6
<1>7. CASE m = 2 * Level(nu) /\ Due(u, "Lock") /\ Head(todo[u]).mu = nu
  <2>1. todo[u] # <<>> /\ Head(todo[u]).do \in Asks
    BY <1>7 DEF Due, Asks
  <2>2. Level(mu) < Level(nu)
    BY <1>1, <1>7, <2>1, HeadAsks
  <2> QED
    BY <1>2, <1>7, <2>2
<1> QED
  BY <1>4, <1>5, <1>6, <1>7

LEMMA WaitsRise ==
    ASSUME LocksHeld, NEW t \in Thread, NEW u \in Thread, NEW v \in Thread,
           NEW n \in Int, NEW m \in Int, WaitsAt(t, u, n), WaitsAt(u, v, m)
    PROVE  n < m
<1>1. \A x : Level(x) \in Nat
  BY DEF Level
<1>2. CASE n = 0 /\ pc[t] = "requested" /\ Inside(u)
  <2>1. Holds(todo[u], "UnlockFile", "file")
    BY <1>2 DEF LocksHeld, FilesHold, Inside
  <2>2. m > 2 * Level("file") + 1
    BY <2>1, HolderWaitsAbove
  <2> QED
    BY <1>1, <1>2, <2>2
<1>3. ASSUME NEW mu \in Mutex, n = 2 * Level(mu), writer[mu] = u PROVE n < m
  <2>1. Holds(todo[u], "Unlock", mu)
    BY <1>3 DEF LocksHeld, WritersHold
  <2>2. m > 2 * Level(mu) + 1 \/ m = 2 * Level(mu) + 1
    BY <1>3, <2>1, HolderWaitsAbove
  <2> QED
    BY <1>1, <1>3, <2>2
<1>4. ASSUME NEW mu \in Mutex, n = 2 * Level(mu) + 1, u \in readers[mu] PROVE n < m
  <2>1. Holds(todo[u], "RUnlock", mu)
    BY <1>4 DEF LocksHeld, ReadersHold
  <2>2. m > 2 * Level(mu) + 1
    BY <1>4, <2>1, HolderWaitsAbove
  <2> QED
    BY <1>4, <2>2
<1> QED
  BY <1>2, <1>3, <1>4 DEF WaitsAt

LEMMA NobodyWaitsInACircle == LocksHeld => NoCircularWait
<1> SUFFICES ASSUME LocksHeld, NEW S \in SUBSET Thread, S # {},
                    \A t \in S : \E u \in S : WaitsFor(t, u)
             PROVE  FALSE
  BY DEF NoCircularWait
<1> DEFINE Waits(n) == \E t, u \in S : WaitsAt(t, u, n)
<1>1. \A t \in S : \E n \in 0 .. 7, u \in S : WaitsAt(t, u, n)
  BY WaitsSomewhere
<1>2. \E n \in 0 .. 7 : Waits(n)
  BY <1>1
<1>3. ASSUME NEW n \in 0 .. 7, Waits(n)
      PROVE  \E m \in 0 .. 7 : n < m /\ Waits(m)
  <2>1. PICK t \in S, u \in S : WaitsAt(t, u, n)
    BY <1>3
  <2>2. PICK m \in 0 .. 7, v \in S : WaitsAt(u, v, m)
    BY <1>1
  <2>3. n < m
    BY <2>1, <2>2, WaitsRise
  <2> QED
    BY <2>2, <2>3
<1> HIDE DEF Waits
<1>4. ~Waits(7)
  BY <1>3
<1>5. ~Waits(6) /\ ~Waits(5) /\ ~Waits(4)
  <2>1. ~Waits(6)
    BY <1>3, <1>4
  <2>2. ~Waits(5)
    BY <1>3, <1>4, <2>1
  <2> QED
    BY <1>3, <1>4, <2>1, <2>2
<1>6. ~Waits(3) /\ ~Waits(2) /\ ~Waits(1) /\ ~Waits(0)
  <2>1. ~Waits(3)
    BY <1>3, <1>4, <1>5
  <2>2. ~Waits(2)
    BY <1>3, <1>4, <1>5, <2>1
  <2>3. ~Waits(1)
    BY <1>3, <1>4, <1>5, <2>1, <2>2
  <2> QED
    BY <1>3, <1>4, <1>5, <2>1, <2>2, <2>3
<1> QED
  BY <1>2, <1>4, <1>5, <1>6

\* No goroutines of the daemon ever wait for each other in a circle, be there
\* as many as there may and whatever functions they call: the promise of the
\* comments on lockSessionFile and currentWorkerForSession.
THEOREM NoCircularWaitTheorem == SystemSpec => []NoCircularWait
BY LocksHeldTheorem, NobodyWaitsInACircle, PTL

=============================================================================
