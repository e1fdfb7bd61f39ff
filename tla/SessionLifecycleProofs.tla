----------------------- MODULE SessionLifecycleProofs -----------------------
(***************************************************************************)
(* Proofs about the session lifecycle, for any number of session IDs,      *)
(* metas, handles and goroutines.  Two inductive invariants: Core is about *)
(* the registry of sessions, the file locks and the files; Workers, which  *)
(* is inductive relative to Core, is about the generations of workers.     *)
(* Every conjunct has one lemma, with one step per action that matters.    *)
(***************************************************************************)
EXTENDS SessionLifecycle, TLAPS

\* Sessions are filed under their ID; a meta that was allocated knows its origin;
\* a handle that was used knows its session.
Allocated ==
    /\ \A id \in ID : sessions[id] # Nil => sid[sessions[id]] = id
    /\ \A m \in Meta : sid[m] # Nil => origin[m] \in Meta
    /\ \A m \in Meta : sid[m] = Nil => ~closed[m]
    /\ \A h \in Handle :
        proc[h] # "unused" => madeFor[h] \in Meta /\ sid[madeFor[h]] \in ID
    /\ \A m \in snapshot : sid[m] \in ID

\* The places where an actor works for a meta.
WithMeta == {"save", "spawn", "stopold", "persist", "update", "rollback", "unsave",
             "mark", "markdisk", "sendclose", "look", "route", "ready"}

\* What an actor knows at its place.
Places ==
    \A a \in Actor :
        /\ pc[a] # "idle" => aid[a] \in ID
        /\ pc[a] \in WithMeta => ameta[a] \in Meta /\ sid[ameta[a]] = aid[a]

\* TypeOK in three parts, for the actions that need them one by one.
LocalTypes ==
    /\ pc \in [Actor -> PC]
    /\ aid \in [Actor -> ID \union {Nil}]
    /\ ameta \in [Actor -> Meta \union {Nil}]
    /\ ahandle \in [Actor -> Handle \union {Nil}]
    /\ aold \in [Actor -> Handle \union {Nil}]

StateTypes ==
    /\ daemon \in {"running", "stopping", "waiting", "stopped", "down"}
    /\ stops \in Nat /\ crashes \in Nat
    /\ waitSet \subseteq Handle
    /\ sessions \in [ID -> Meta \union {Nil}]
    /\ sid \in [Meta -> ID \union {Nil}]
    /\ origin \in [Meta -> Meta \union {Nil}]
    /\ closed \in [Meta -> BOOLEAN]
    /\ status \in [Meta -> Status]
    /\ disk \in [ID -> Record \union {Nil}]
    /\ snapshot \subseteq Meta

WorkerTypes ==
    /\ workers \in [ID -> Handle \union {Nil}]
    /\ owners \in [Handle -> Meta \union {Nil}]
    /\ madeFor \in [Handle -> Meta \union {Nil}]
    /\ proc \in [Handle -> {"unused", "running", "doomed", "orphan", "exited"}]
    /\ conn \in [Handle -> Handle \union {Nil}]
    /\ shut \in [Handle -> BOOLEAN]
    /\ watcher \in [Handle -> {"none", "armed", "done"}]
    /\ startup \in [Handle -> {"none", "waiting", "expired", "over"}]
    /\ lock \in [ID -> Actor \union {Nil}]

\* What restoreSessions allocates: for each open file a fresh meta, that of the
\* same origin, and nothing else.
LEMMA RestartFacts ==
    ASSUME TypeOK, Restart
    PROVE  /\ \A id \in Restorable :
               /\ sessions'[id] \in Meta /\ FreshMeta(sessions'[id])
               /\ sid'[sessions'[id]] = id
               /\ origin'[sessions'[id]] = disk[id].origin
           /\ \A id \in ID \ Restorable : sessions'[id] = Nil
           /\ \A m \in Meta :
               \/ \E id \in Restorable : sessions'[id] = m
               \/ sid'[m] = sid[m] /\ origin'[m] = origin[m]
  <1> USE DEF metaVars
  <1>1. PICK f \in [Restorable -> Meta] :
          /\ \A id \in Restorable : FreshMeta(f[id])
          /\ \A i, j \in Restorable : f[i] = f[j] => i = j
          /\ sessions' = [id \in ID |-> IF id \in Restorable THEN f[id] ELSE Nil]
          /\ sid' = [m \in Meta |->
                       IF \E id \in Restorable : f[id] = m
                       THEN CHOOSE id \in Restorable : f[id] = m ELSE sid[m]]
          /\ origin' = [m \in Meta |->
                          IF \E id \in Restorable : f[id] = m
                          THEN disk[CHOOSE id \in Restorable : f[id] = m].origin
                          ELSE origin[m]]
    BY DEF Restart
  <1>2. \A id \in Restorable : (CHOOSE i \in Restorable : f[i] = f[id]) = id
    BY <1>1
  <1>3. Restorable \subseteq ID
    BY DEF Restorable
  <1> QED
    BY <1>1, <1>2, <1>3

\* Every step keeps the types.
LEMMA TypeStep ==
    TypeOK /\ Allocated /\ Places /\ [Next]_vars => TypeOK'
<1> SUFFICES ASSUME TypeOK, Allocated, Places, [Next]_vars PROVE TypeOK'
  OBVIOUS
<1> USE DistinctAssumption DEF Actor, daemonVars, metaVars, workerVars, procVars, watchVars, localVars
<1>1. ASSUME NEW a \in Caller, NEW id \in ID, CreateStart(a, id) PROVE TypeOK'
  BY <1>1 DEF CreateStart, Up, Goto, TypeOK, Allocated, Places, WithMeta,
      Status, PC, Record
<1>2. ASSUME NEW a \in Caller, NEW id \in ID, CloseStart(a, id) PROVE TypeOK'
  BY <1>2 DEF CloseStart, Up, Goto, TypeOK, Allocated, Places, WithMeta,
      Status, PC, Record
<1>3. ASSUME NEW a \in Actor, NewCheck(a) PROVE TypeOK'
  <2>1. LocalTypes'
    <3>1. pc' \in [Actor -> PC] /\ aid' \in [Actor -> ID \union {Nil}]
      BY <1>3, SMTT(30) DEF NewCheck, Return, Goto, Keep, TypeOK, PC
    <3>2. ameta' \in [Actor -> Meta \union {Nil}]
      BY <1>3 DEF NewCheck, Return, Keep, TypeOK
    <3>3. ahandle' \in [Actor -> Handle \union {Nil}]
      BY <1>3 DEF NewCheck, Return, Keep, TypeOK
    <3>4. aold' \in [Actor -> Handle \union {Nil}]
      BY <1>3 DEF NewCheck, Return, Keep, TypeOK
    <3> QED
      BY <3>1, <3>2, <3>3, <3>4 DEF LocalTypes
  <2>2. StateTypes'
    BY <1>3 DEF NewCheck, TypeOK, StateTypes, Allocated, Places, WithMeta, Status, Record
  <2>3. WorkerTypes'
    BY <1>3 DEF NewCheck, TypeOK, WorkerTypes, Places, WithMeta
  <2> QED
    BY <2>1, <2>2, <2>3 DEF TypeOK, StateTypes, WorkerTypes, LocalTypes
<1>4. ASSUME NEW a \in Actor, Insert(a) PROVE TypeOK'
  <2>1. LocalTypes'
    BY <1>4, SMTT(30) DEF Insert, Pass, Acquire, Return, Goto, FreshMeta, TypeOK, LocalTypes, Places, WithMeta, PC
  <2>2. StateTypes'
    BY <1>4, SMTT(30) DEF Insert, Pass, Acquire, FreshMeta, TypeOK, StateTypes, Allocated, Places, WithMeta, Status, Record
  <2>3. WorkerTypes'
    BY <1>4 DEF Insert, Pass, Acquire, FreshMeta, TypeOK, WorkerTypes, Places, WithMeta
  <2> QED
    BY <2>1, <2>2, <2>3 DEF TypeOK, StateTypes, WorkerTypes, LocalTypes
<1>5. ASSUME NEW a \in Actor, Save(a) PROVE TypeOK'
  BY <1>5 DEF Save, Release, Goto, Keep, TypeOK, Allocated, Places, WithMeta,
      Status, PC, Record
<1>6. ASSUME NEW a \in Actor, Rollback(a) PROVE TypeOK'
  <2>1. LocalTypes'
    BY <1>6, SMTT(30) DEF Rollback, Current, Pass, Acquire, Return, Goto, Keep, TypeOK, LocalTypes, Places, WithMeta, PC
  <2>2. StateTypes'
    BY <1>6 DEF Rollback, Current, Pass, Acquire, TypeOK, StateTypes, Allocated, Places, WithMeta, Status, Record
  <2>3. WorkerTypes'
    BY <1>6 DEF Rollback, Current, Pass, Acquire, TypeOK, WorkerTypes, Places, WithMeta
  <2> QED
    BY <2>1, <2>2, <2>3 DEF TypeOK, StateTypes, WorkerTypes, LocalTypes
<1>7. ASSUME NEW a \in Actor, Unsave(a) PROVE TypeOK'
  BY <1>7 DEF Unsave, Release, Return, Goto, TypeOK, Allocated, Places,
      WithMeta, Status, PC, Record
<1>8. ASSUME NEW a \in Actor, Spawn(a) PROVE TypeOK'
  <2>1. LocalTypes'
    <3>1. pc' \in [Actor -> PC] /\ aid' \in [Actor -> ID \union {Nil}]
      BY <1>8, SMTT(30) DEF Spawn, Return, Goto, Keep, TypeOK, PC
    <3>2. ameta' \in [Actor -> Meta \union {Nil}]
      BY <1>8 DEF Spawn, Return, Keep, TypeOK
    <3>3. ahandle' \in [Actor -> Handle \union {Nil}]
      BY <1>8 DEF Spawn, Install, StartFails, Return, Keep, TypeOK
    <3>4. aold' \in [Actor -> Handle \union {Nil}]
      BY <1>8 DEF Spawn, Return, Keep, TypeOK, Places
    <3> QED
      BY <3>1, <3>2, <3>3, <3>4 DEF LocalTypes
  <2>2. StateTypes'
    BY <1>8 DEF Spawn, Closing, Current, Install, StartFails, FreshHandle, TypeOK, StateTypes, Allocated, Places, WithMeta, Status, Record
  <2>3. WorkerTypes'
    BY <1>8, SMTT(30) DEF Spawn, Closing, Current, Install, StartFails, FreshHandle, TypeOK, WorkerTypes, Places, WithMeta
  <2> QED
    BY <2>1, <2>2, <2>3 DEF TypeOK, StateTypes, WorkerTypes, LocalTypes
<1>9. ASSUME NEW a \in Actor, StopOld(a) PROVE TypeOK'
  <2>1. LocalTypes'
    BY <1>9, SMTT(30) DEF StopOld, Discard, Doomed, Return, Goto, TypeOK, LocalTypes, Places, WithMeta, PC
  <2>2. StateTypes'
    BY <1>9 DEF StopOld, Discard, Doomed, TypeOK, StateTypes, Allocated, Places, WithMeta, Status, Record
  <2>3. WorkerTypes'
    BY <1>9 DEF StopOld, Discard, Doomed, TypeOK, WorkerTypes, Places, WithMeta
  <2> QED
    BY <2>1, <2>2, <2>3 DEF TypeOK, StateTypes, WorkerTypes, LocalTypes
<1>10. ASSUME NEW a \in Actor, Persist(a) PROVE TypeOK'
  <2>1. LocalTypes'
    BY <1>10, SMTT(30) DEF Persist, Persistable, Current, Acquire, Pass, AfterPersist, Return, Goto, Keep, TypeOK, LocalTypes, Places, WithMeta, PC
  <2>2. StateTypes'
    BY <1>10 DEF Persist, Persistable, Current, Acquire, Pass, AfterPersist, TypeOK, StateTypes, Allocated, Places, WithMeta, Status, Record
  <2>3. WorkerTypes'
    BY <1>10 DEF Persist, Persistable, Current, Acquire, Pass, AfterPersist, TypeOK, WorkerTypes, Places, WithMeta
  <2> QED
    BY <2>1, <2>2, <2>3 DEF TypeOK, StateTypes, WorkerTypes, LocalTypes
<1>11. ASSUME NEW a \in Actor, Update(a) PROVE TypeOK'
  BY <1>11 DEF Update, Release, AfterPersist, Return, Goto, TypeOK,
      Allocated, Places, WithMeta, Status, PC, Record
<1>12. ASSUME NEW a \in Actor, Mark(a) PROVE TypeOK'
  <2>1. LocalTypes'
    BY <1>12, SMTT(30) DEF Mark, Current, WorkerToClose, Acquire, Pass, Return, Goto, TypeOK, LocalTypes, Places, WithMeta, PC
  <2>2. StateTypes'
    <3>1. closed' \in [Meta -> BOOLEAN]
      BY <1>12 DEF Mark, TypeOK, Places, WithMeta
    <3>2. status' \in [Meta -> Status]
      BY <1>12 DEF Mark, TypeOK, Places, WithMeta, Status
    <3>3. UNCHANGED <<daemonVars, sessions, sid, origin, disk, snapshot>>
      BY <1>12 DEF Mark, daemonVars
    <3> QED
      BY <3>1, <3>2, <3>3 DEF TypeOK, StateTypes, daemonVars
  <2>3. WorkerTypes'
    BY <1>12 DEF Mark, Current, WorkerToClose, Acquire, Pass, TypeOK, WorkerTypes, Places, WithMeta
  <2> QED
    BY <2>1, <2>2, <2>3 DEF TypeOK, StateTypes, WorkerTypes, LocalTypes
<1>13. ASSUME NEW a \in Actor, MarkDisk(a) PROVE TypeOK'
  <2>1. LocalTypes'
    BY <1>13, SMTT(30) DEF MarkDisk, Release, Return, Goto, Keep, TypeOK, LocalTypes, Places, WithMeta, PC
  <2>2. StateTypes'
    <3>1. disk' \in [ID -> Record \union {Nil}]
      <4>1. aid[a] \in ID
        BY <1>13 DEF MarkDisk, Places
      <4>2. CASE disk[aid[a]] = Nil
        BY <1>13, <4>2 DEF MarkDisk, TypeOK
      <4>3. CASE disk[aid[a]] # Nil
        <5>1. disk[aid[a]].origin \in Meta
          BY <4>1, <4>3 DEF TypeOK, Record
        <5>2. [origin |-> disk[aid[a]].origin, closed |-> TRUE] \in Record
          BY <5>1 DEF Record
        <5> QED
          BY <1>13, <4>1, <4>3, <5>2 DEF MarkDisk, TypeOK
      <4> QED
        BY <4>2, <4>3
    <3> QED
      BY <1>13, <3>1 DEF MarkDisk, TypeOK, StateTypes
  <2>3. WorkerTypes'
    BY <1>13 DEF MarkDisk, Release, TypeOK, WorkerTypes, Places, WithMeta
  <2> QED
    BY <2>1, <2>2, <2>3 DEF TypeOK, StateTypes, WorkerTypes, LocalTypes
<1>14. ASSUME NEW a \in Actor, SendClose(a) PROVE TypeOK'
  BY <1>14 DEF SendClose, Doomed, Return, Goto, TypeOK, Allocated, Places,
      WithMeta, Status, PC, Record
<1>15. ASSUME NEW a \in Actor, Purge(a) PROVE TypeOK'
  BY <1>15 DEF Purge, Acquire, Goto, TypeOK, Allocated, Places, WithMeta,
      Status, PC, Record
<1>16. ASSUME NEW a \in Actor, Remove(a) PROVE TypeOK'
  BY <1>16 DEF Remove, Release, Goto, Keep, TypeOK, Allocated, Places,
      WithMeta, Status, PC, Record
<1>17. ASSUME NEW a \in Actor, KillOld(a) PROVE TypeOK'
  BY <1>17 DEF KillOld, Discard, Doomed, Goto, TypeOK, Allocated, Places,
      WithMeta, Status, PC, Record
<1>18. ASSUME NEW s \in Spawner, NEW m \in Meta, ReconcileCheck(s, m) PROVE TypeOK'
  BY <1>18, SMTT(30) DEF ReconcileCheck, Goto, TypeOK, Allocated, Places, WithMeta,
      Status, PC, Record
<1>19. ASSUME NEW s \in Spawner, ReconcileLook(s) PROVE TypeOK'
  BY <1>19, SMTT(30) DEF ReconcileLook, Goto, Keep, Return, TypeOK, Allocated, Places,
      WithMeta, Status, PC, Record
<1>20. ASSUME NEW h \in Handle, Connect(h) PROVE TypeOK'
  BY <1>20, SMTT(30) DEF Connect, Up, Expected, Doomed, Goto, TypeOK, Allocated, Places,
      WithMeta, Status, PC, Record
<1>21. ASSUME NEW h \in Handle, Route(h) PROVE TypeOK'
  <2>1. LocalTypes'
    BY <1>21, SMTT(30) DEF Route, Current, Goto, Keep, Return, TypeOK, LocalTypes, Places, WithMeta, PC
  <2>2. StateTypes'
    BY <1>21 DEF Route, Current, TypeOK, StateTypes, Allocated, Places, WithMeta, Status, Record
  <2>3. WorkerTypes'
    BY <1>21 DEF Route, Current, TypeOK, WorkerTypes, Places, WithMeta
  <2> QED
    BY <2>1, <2>2, <2>3 DEF TypeOK, StateTypes, WorkerTypes, LocalTypes
<1>22. ASSUME NEW h \in Handle, Ready(h) PROVE TypeOK'
  BY <1>22, SMTT(30) DEF Ready, Current, ReadyStatus, Return, Goto, Keep, TypeOK,
      Allocated, Places, WithMeta, Status, PC, Record
<1>23. ASSUME NEW h \in Handle, Exit(h) PROVE TypeOK'
  BY <1>23 DEF Exit, TypeOK, Allocated, Places, WithMeta, Status, PC, Record
<1>24. ASSUME NEW h \in Handle, WatchExit(h) PROVE TypeOK'
  BY <1>24, SMTT(30) DEF WatchExit, OwnedCurrent, Current, TypeOK, Allocated, Places,
      WithMeta, Status, PC, Record
<1>25. ASSUME NEW h \in Handle, TimeoutCheck(h) PROVE TypeOK'
  BY <1>25 DEF TimeoutCheck, TypeOK, Allocated, Places, WithMeta, Status, PC,
      Record
<1>26. ASSUME NEW h \in Handle, TimeoutMark(h) PROVE TypeOK'
  BY <1>26 DEF TimeoutMark, TypeOK, Allocated, Places, WithMeta, Status, PC,
      Record
<1>27. ASSUME Snapshot PROVE TypeOK'
  BY <1>27 DEF Snapshot, Up, TypeOK, Allocated, Places, WithMeta, Status, PC,
      Record
<1>28. ASSUME StopBegin PROVE TypeOK'
  BY <1>28 DEF StopBegin, TypeOK, Allocated, Places, WithMeta, Status, PC,
      Record
<1>29. ASSUME StopWait PROVE TypeOK'
  BY <1>29 DEF StopWait, WorkerSet, Doomed, TypeOK, Allocated, Places,
      WithMeta, Status, PC, Record
<1>30. ASSUME StopEnd PROVE TypeOK'
  BY <1>30 DEF StopEnd, TypeOK, Allocated, Places, WithMeta, Status, PC, Record
<1>31. ASSUME Leave PROVE TypeOK'
  BY <1>31 DEF Leave, Lose, TypeOK, Allocated, Places, WithMeta, Status, PC,
      Record
<1>32. ASSUME Crash PROVE TypeOK'
  BY <1>32 DEF Crash, Lose, TypeOK, Allocated, Places, WithMeta, Status, PC,
      Record
<1>33. ASSUME Restart PROVE TypeOK'
  BY <1>33 DEF Restart, Restorable, FreshMeta, TypeOK, Allocated, Places,
      WithMeta, Status, PC, Record
<1>34. CASE UNCHANGED vars
  BY <1>34 DEF TypeOK, Allocated, Places, WithMeta, Status, PC, Record, vars
<1> QED
  BY <1>1, <1>2, <1>3, <1>4, <1>5, <1>6, <1>7, <1>8, <1>9, <1>10, <1>11, <1>12,
      <1>13, <1>14, <1>15, <1>16, <1>17, <1>18, <1>19, <1>20, <1>21, <1>22,
      <1>23, <1>24, <1>25, <1>26, <1>27, <1>28, <1>29, <1>30, <1>31, <1>32,
      <1>33, <1>34 DEF Next, ActorStep, WorkerStep

\* Every step keeps pointers and IDs consistent.
LEMMA AllocatedStep ==
    TypeOK /\ Allocated /\ Places /\ [Next]_vars => Allocated'
<1> SUFFICES ASSUME TypeOK, Allocated, Places, [Next]_vars PROVE Allocated'
  OBVIOUS
<1> USE DistinctAssumption DEF Actor, daemonVars, metaVars, workerVars, procVars, watchVars, localVars
<1>1. ASSUME NEW a \in Actor, Insert(a) PROVE Allocated'
  BY <1>1, SMTT(30) DEF Insert, Pass, Acquire, Return, Goto, FreshMeta, TypeOK,
      Allocated, Places, WithMeta
<1>2. ASSUME NEW a \in Actor, Rollback(a) PROVE Allocated'
  BY <1>2 DEF Rollback, Current, Pass, Acquire, Return, Goto, Keep, TypeOK,
      Allocated, Places, WithMeta
<1>3. ASSUME NEW a \in Actor, Spawn(a) PROVE Allocated'
  BY <1>3 DEF Spawn, Closing, Current, Install, StartFails, FreshHandle,
      Return, Goto, Keep, TypeOK, Allocated, Places, WithMeta
<1>4. ASSUME NEW a \in Actor, StopOld(a) PROVE Allocated'
  BY <1>4 DEF StopOld, Discard, Doomed, Return, Goto, TypeOK, Allocated,
      Places, WithMeta
<1>5. ASSUME NEW a \in Actor, Mark(a) PROVE Allocated'
  BY <1>5 DEF Mark, Current, WorkerToClose, Acquire, Pass, Return, Goto,
      TypeOK, Allocated, Places, WithMeta
<1>6. ASSUME NEW a \in Actor, SendClose(a) PROVE Allocated'
  BY <1>6 DEF SendClose, Doomed, Return, Goto, TypeOK, Allocated, Places,
      WithMeta
<1>7. ASSUME NEW a \in Actor, Purge(a) PROVE Allocated'
  BY <1>7 DEF Purge, Acquire, Goto, TypeOK, Allocated, Places, WithMeta
<1>8. ASSUME NEW a \in Actor, KillOld(a) PROVE Allocated'
  BY <1>8 DEF KillOld, Discard, Doomed, Goto, TypeOK, Allocated, Places,
      WithMeta
<1>9. ASSUME NEW s \in Spawner, NEW m \in Meta, ReconcileCheck(s, m) PROVE Allocated'
  BY <1>9 DEF ReconcileCheck, Goto, TypeOK, Allocated, Places, WithMeta
<1>10. ASSUME NEW h \in Handle, Connect(h) PROVE Allocated'
  BY <1>10 DEF Connect, Up, Expected, Doomed, Goto, TypeOK, Allocated, Places,
      WithMeta
<1>11. ASSUME NEW h \in Handle, Exit(h) PROVE Allocated'
  BY <1>11 DEF Exit, TypeOK, Allocated, Places, WithMeta
<1>12. ASSUME Snapshot PROVE Allocated'
  BY <1>12 DEF Snapshot, Up, TypeOK, Allocated, Places, WithMeta
<1>13. ASSUME StopWait PROVE Allocated'
  BY <1>13 DEF StopWait, WorkerSet, Doomed, TypeOK, Allocated, Places, WithMeta
<1>14. ASSUME Leave PROVE Allocated'
  BY <1>14 DEF Leave, Lose, TypeOK, Allocated, Places, WithMeta
<1>15. ASSUME Crash PROVE Allocated'
  BY <1>15 DEF Crash, Lose, TypeOK, Allocated, Places, WithMeta
<1>16. ASSUME Restart PROVE Allocated'
  <2>1. disk \in [ID -> Record \union {Nil}] /\ Nil \notin ID \union Meta
    BY DEF TypeOK
  <2>2. \A id \in Restorable : disk[id].origin \in Meta /\ id \in ID
    BY <2>1 DEF Restorable, Record
  <2>3. \A id \in ID : sessions'[id] # Nil => sid'[sessions'[id]] = id
    BY <1>16, RestartFacts
  <2>4. \A m \in Meta : sid'[m] # Nil => origin'[m] \in Meta
    BY <1>16, <2>2, RestartFacts DEF Allocated
  <2>5. \A m \in Meta : sid[m] # Nil => sid'[m] # Nil
    BY <1>16, <2>1, <2>2, RestartFacts
  <2>6. \A m \in Meta : sid[m] \in ID => sid'[m] \in ID
    BY <1>16, <2>2, RestartFacts
  <2> QED
    BY <1>16, <2>1, <2>3, <2>4, <2>5, <2>6 DEF Restart, Allocated, TypeOK
<1>17. ASSUME NEW a \in Caller, NEW id \in ID, CreateStart(a, id) \/
    CloseStart(a, id) PROVE Allocated'
  BY <1>17 DEF CreateStart, CloseStart, TypeOK, Allocated, Places, WithMeta
<1>18. ASSUME NEW a \in Actor, NewCheck(a) \/ Save(a) \/ Unsave(a) \/
    Persist(a) \/ Update(a) \/ MarkDisk(a) \/ Remove(a) PROVE Allocated'
  BY <1>18 DEF NewCheck, Save, Unsave, Persist, Update, MarkDisk, Remove,
      TypeOK, Allocated, Places, WithMeta
<1>19. ASSUME NEW s \in Spawner, ReconcileLook(s) PROVE Allocated'
  BY <1>19 DEF ReconcileLook, TypeOK, Allocated, Places, WithMeta
<1>20. ASSUME NEW h \in Handle, Route(h) \/ Ready(h) \/ WatchExit(h) \/
    TimeoutCheck(h) \/ TimeoutMark(h) PROVE Allocated'
  BY <1>20 DEF Route, Ready, WatchExit, TimeoutCheck, TimeoutMark, TypeOK,
      Allocated, Places, WithMeta
<1>21. ASSUME StopBegin \/ StopEnd PROVE Allocated'
  BY <1>21 DEF StopBegin, StopEnd, TypeOK, Allocated, Places, WithMeta
<1>22. CASE UNCHANGED vars
  BY <1>22 DEF TypeOK, Allocated, Places, WithMeta, vars
<1> QED
  BY <1>1, <1>2, <1>3, <1>4, <1>5, <1>6, <1>7, <1>8, <1>9, <1>10, <1>11, <1>12,
      <1>13, <1>14, <1>15, <1>16, <1>17, <1>18, <1>19, <1>20, <1>21, <1>22 DEF
      Next, ActorStep, WorkerStep

\* Every step leaves each goroutine with the ID and meta its place needs.
LEMMA PlacesStep ==
    TypeOK /\ Allocated /\ Places /\ [Next]_vars => Places'
<1> SUFFICES ASSUME TypeOK, Allocated, Places, [Next]_vars PROVE Places'
  OBVIOUS
<1> USE DistinctAssumption DEF Actor, daemonVars, metaVars, workerVars, procVars, watchVars, localVars
<1>1. ASSUME NEW a \in Caller, NEW id \in ID, CreateStart(a, id) PROVE Places'
  BY <1>1 DEF CreateStart, Up, Goto, TypeOK, Allocated, Places, WithMeta
<1>2. ASSUME NEW a \in Caller, NEW id \in ID, CloseStart(a, id) PROVE Places'
  BY <1>2 DEF CloseStart, Up, Goto, TypeOK, Allocated, Places, WithMeta
<1>3. ASSUME NEW a \in Actor, NewCheck(a) PROVE Places'
  BY <1>3 DEF NewCheck, Return, Goto, Keep, TypeOK, Allocated, Places, WithMeta
<1>4. ASSUME NEW a \in Actor, Insert(a) PROVE Places'
  BY <1>4 DEF Insert, Pass, Acquire, Return, Goto, FreshMeta, TypeOK,
      Allocated, Places, WithMeta
<1>5. ASSUME NEW a \in Actor, Save(a) PROVE Places'
  BY <1>5 DEF Save, Release, Goto, Keep, TypeOK, Allocated, Places, WithMeta
<1>6. ASSUME NEW a \in Actor, Rollback(a) PROVE Places'
  BY <1>6 DEF Rollback, Current, Pass, Acquire, Return, Goto, Keep, TypeOK,
      Allocated, Places, WithMeta
<1>7. ASSUME NEW a \in Actor, Unsave(a) PROVE Places'
  BY <1>7 DEF Unsave, Release, Return, Goto, TypeOK, Allocated, Places,
      WithMeta
<1>8. ASSUME NEW a \in Actor, Spawn(a) PROVE Places'
  BY <1>8, SMTT(30) DEF Spawn, Closing, Current, Install, StartFails, FreshHandle,
      Return, Goto, Keep, TypeOK, Allocated, Places, WithMeta
<1>9. ASSUME NEW a \in Actor, StopOld(a) PROVE Places'
  BY <1>9 DEF StopOld, Discard, Doomed, Return, Goto, TypeOK, Allocated,
      Places, WithMeta
<1>10. ASSUME NEW a \in Actor, Persist(a) PROVE Places'
  BY <1>10, SMTT(30) DEF Persist, Persistable, Current, Acquire, Pass, AfterPersist,
      Return, Goto, Keep, TypeOK, Allocated, Places, WithMeta
<1>11. ASSUME NEW a \in Actor, Update(a) PROVE Places'
  BY <1>11 DEF Update, Release, AfterPersist, Return, Goto, TypeOK,
      Allocated, Places, WithMeta
<1>12. ASSUME NEW a \in Actor, Mark(a) PROVE Places'
  BY <1>12 DEF Mark, Current, WorkerToClose, Acquire, Pass, Return, Goto,
      TypeOK, Allocated, Places, WithMeta
<1>13. ASSUME NEW a \in Actor, MarkDisk(a) PROVE Places'
  BY <1>13 DEF MarkDisk, Release, Return, Goto, Keep, TypeOK, Allocated,
      Places, WithMeta
<1>14. ASSUME NEW a \in Actor, SendClose(a) PROVE Places'
  BY <1>14 DEF SendClose, Doomed, Return, Goto, TypeOK, Allocated, Places,
      WithMeta
<1>15. ASSUME NEW a \in Actor, Purge(a) PROVE Places'
  BY <1>15 DEF Purge, Acquire, Goto, TypeOK, Allocated, Places, WithMeta
<1>16. ASSUME NEW a \in Actor, Remove(a) PROVE Places'
  BY <1>16 DEF Remove, Release, Goto, Keep, TypeOK, Allocated, Places, WithMeta
<1>17. ASSUME NEW a \in Actor, KillOld(a) PROVE Places'
  BY <1>17 DEF KillOld, Discard, Doomed, Goto, TypeOK, Allocated, Places,
      WithMeta
<1>18. ASSUME NEW s \in Spawner, NEW m \in Meta, ReconcileCheck(s, m) PROVE Places'
  BY <1>18 DEF ReconcileCheck, Goto, TypeOK, Allocated, Places, WithMeta
<1>19. ASSUME NEW s \in Spawner, ReconcileLook(s) PROVE Places'
  BY <1>19 DEF ReconcileLook, Goto, Keep, Return, TypeOK, Allocated, Places,
      WithMeta
<1>20. ASSUME NEW h \in Handle, Connect(h) PROVE Places'
  BY <1>20 DEF Connect, Up, Expected, Doomed, Goto, TypeOK, Allocated, Places,
      WithMeta
<1>21. ASSUME NEW h \in Handle, Route(h) PROVE Places'
  BY <1>21 DEF Route, Current, Goto, Keep, Return, TypeOK, Allocated, Places,
      WithMeta
<1>22. ASSUME NEW h \in Handle, Ready(h) PROVE Places'
  BY <1>22 DEF Ready, Current, ReadyStatus, Return, Goto, Keep, TypeOK,
      Allocated, Places, WithMeta
<1>23. ASSUME Leave PROVE Places'
  BY <1>23 DEF Leave, Lose, TypeOK, Allocated, Places, WithMeta
<1>24. ASSUME Crash PROVE Places'
  BY <1>24 DEF Crash, Lose, TypeOK, Allocated, Places, WithMeta
<1>25. ASSUME Restart PROVE Places'
  BY <1>25 DEF Restart, Restorable, FreshMeta, TypeOK, Allocated, Places,
      WithMeta
<1>26. ASSUME NEW h \in Handle, Exit(h) \/ WatchExit(h) \/ TimeoutCheck(h) \/
    TimeoutMark(h) PROVE Places'
  BY <1>26 DEF Exit, WatchExit, TimeoutCheck, TimeoutMark, TypeOK, Allocated,
      Places, WithMeta
<1>27. ASSUME Snapshot \/ StopBegin \/ StopWait \/ StopEnd PROVE Places'
  BY <1>27 DEF Snapshot, StopBegin, StopWait, StopEnd, TypeOK, Allocated,
      Places, WithMeta
<1>28. CASE UNCHANGED vars
  BY <1>28 DEF TypeOK, Allocated, Places, WithMeta, vars
<1> QED
  BY <1>1, <1>2, <1>3, <1>4, <1>5, <1>6, <1>7, <1>8, <1>9, <1>10, <1>11, <1>12,
      <1>13, <1>14, <1>15, <1>16, <1>17, <1>18, <1>19, <1>20, <1>21, <1>22,
      <1>23, <1>24, <1>25, <1>26, <1>27, <1>28 DEF Next, ActorStep, WorkerStep

\* The lock of an ID is held by the one actor that is inside, for that ID.
Locking ==
    /\ \A a \in Actor : pc[a] \in Locked => lock[aid[a]] = a
    /\ \A id \in ID :
        lock[id] # Nil => pc[lock[id]] \in Locked /\ aid[lock[id]] = id

\* What a daemon that is down has lost.
Quiet ==
    daemon = "down" =>
        /\ \A a \in Actor : pc[a] = "idle"
        /\ \A id \in ID : sessions[id] = Nil /\ workers[id] = Nil /\ lock[id] = Nil
        /\ snapshot = {}

\* What the holder of a lock has established and still relies on: registry and
\* file at the place it has reached.
HeldAt(a) ==
    /\ pc[a] = "save" => sessions[aid[a]] = ameta[a]
    /\ pc[a] \in {"unsave", "remove"} => sessions[aid[a]] = Nil
    /\ pc[a] = "markdisk" =>
        /\ sessions[aid[a]] = ameta[a]
        /\ closed[ameta[a]]
        /\ disk[aid[a]] # Nil
        /\ disk[aid[a]].origin = origin[ameta[a]]
    /\ pc[a] = "update" =>
        /\ sessions[aid[a]] = ameta[a]
        /\ ~closed[ameta[a]]
        /\ disk[aid[a]] = [origin |-> origin[ameta[a]], closed |-> FALSE]

Held == \A a \in Actor : HeldAt(a)

\* Every step keeps the file lock with exactly the goroutine inside.
LEMMA LockingStep ==
    TypeOK /\ Allocated /\ Places /\ Locking /\ Quiet /\ [Next]_vars =>
        Locking'
<1> SUFFICES ASSUME TypeOK, Allocated, Places, Locking, Quiet, [Next]_vars
    PROVE Locking'
  OBVIOUS
<1> USE DistinctAssumption DEF Actor, daemonVars, metaVars, workerVars, procVars, watchVars, localVars
<1>1. ASSUME NEW a \in Caller, NEW id \in ID, CreateStart(a, id) PROVE Locking'
  BY <1>1 DEF CreateStart, Up, Goto, TypeOK, Places, Locking, Locked, Quiet
<1>2. ASSUME NEW a \in Caller, NEW id \in ID, CloseStart(a, id) PROVE Locking'
  BY <1>2 DEF CloseStart, Up, Goto, TypeOK, Places, Locking, Locked, Quiet
<1>3. ASSUME NEW a \in Actor, NewCheck(a) PROVE Locking'
  BY <1>3, SMTT(30) DEF NewCheck, Return, Goto, Keep, TypeOK, Places, Locking, Locked,
      Quiet
<1>4. ASSUME NEW a \in Actor, Insert(a) PROVE Locking'
  BY <1>4, SMTT(30) DEF Insert, Pass, Acquire, Return, Goto, FreshMeta, TypeOK, Places,
      Locking, Locked, Quiet
<1>5. ASSUME NEW a \in Actor, Save(a) PROVE Locking'
  BY <1>5 DEF Save, Release, Goto, Keep, TypeOK, Places, Locking, Locked, Quiet
<1>6. ASSUME NEW a \in Actor, Rollback(a) PROVE Locking'
  BY <1>6 DEF Rollback, Current, Pass, Acquire, Return, Goto, Keep, TypeOK,
      Places, Locking, Locked, Quiet
<1>7. ASSUME NEW a \in Actor, Unsave(a) PROVE Locking'
  BY <1>7 DEF Unsave, Release, Return, Goto, TypeOK, Places, Locking, Locked,
      Quiet
<1>8. ASSUME NEW a \in Actor, Spawn(a) PROVE Locking'
  BY <1>8, SMTT(30) DEF Spawn, Closing, Current, Install, StartFails, FreshHandle,
      Return, Goto, Keep, TypeOK, Places, Locking, Locked, Quiet
<1>9. ASSUME NEW a \in Actor, StopOld(a) PROVE Locking'
  BY <1>9 DEF StopOld, Discard, Doomed, Return, Goto, TypeOK, Places, Locking,
      Locked, Quiet
<1>10. ASSUME NEW a \in Actor, Persist(a) PROVE Locking'
  BY <1>10, SMTT(30) DEF Persist, Persistable, Current, Acquire, Pass, AfterPersist,
      Return, Goto, Keep, TypeOK, Places, Locking, Locked, Quiet
<1>11. ASSUME NEW a \in Actor, Update(a) PROVE Locking'
  BY <1>11 DEF Update, Release, AfterPersist, Return, Goto, TypeOK,
      Places, Locking, Locked, Quiet
<1>12. ASSUME NEW a \in Actor, Mark(a) PROVE Locking'
  BY <1>12 DEF Mark, Current, WorkerToClose, Acquire, Pass, Return, Goto,
      TypeOK, Places, Locking, Locked, Quiet
<1>13. ASSUME NEW a \in Actor, MarkDisk(a) PROVE Locking'
  BY <1>13, SMTT(30) DEF MarkDisk, Release, Return, Goto, Keep, TypeOK, Places, Locking,
      Locked, Quiet
<1>14. ASSUME NEW a \in Actor, SendClose(a) PROVE Locking'
  BY <1>14 DEF SendClose, Doomed, Return, Goto, TypeOK, Places, Locking,
      Locked, Quiet
<1>15. ASSUME NEW a \in Actor, Purge(a) PROVE Locking'
  BY <1>15 DEF Purge, Acquire, Goto, TypeOK, Places, Locking, Locked, Quiet
<1>16. ASSUME NEW a \in Actor, Remove(a) PROVE Locking'
  BY <1>16 DEF Remove, Release, Goto, Keep, TypeOK, Places, Locking, Locked,
      Quiet
<1>17. ASSUME NEW a \in Actor, KillOld(a) PROVE Locking'
  BY <1>17 DEF KillOld, Discard, Doomed, Goto, TypeOK, Places, Locking, Locked,
      Quiet
<1>18. ASSUME NEW s \in Spawner, NEW m \in Meta, ReconcileCheck(s, m) PROVE Locking'
  BY <1>18 DEF ReconcileCheck, Goto, TypeOK, Places, Locking, Locked, Quiet
<1>19. ASSUME NEW s \in Spawner, ReconcileLook(s) PROVE Locking'
  BY <1>19 DEF ReconcileLook, Goto, Keep, Return, TypeOK, Places, Locking,
      Locked, Quiet
<1>20. ASSUME NEW h \in Handle, Connect(h) PROVE Locking'
  BY <1>20 DEF Connect, Up, Expected, Doomed, Goto, TypeOK, Places, Locking,
      Locked, Quiet
<1>21. ASSUME NEW h \in Handle, Route(h) PROVE Locking'
  BY <1>21 DEF Route, Current, Goto, Keep, Return, TypeOK, Places, Locking,
      Locked, Quiet
<1>22. ASSUME NEW h \in Handle, Ready(h) PROVE Locking'
  BY <1>22, SMTT(30) DEF Ready, Current, ReadyStatus, Return, Goto, Keep, TypeOK, Places,
      Locking, Locked, Quiet
<1>23. ASSUME Leave PROVE Locking'
  BY <1>23 DEF Leave, Lose, TypeOK, Places, Locking, Locked, Quiet
<1>24. ASSUME Crash PROVE Locking'
  BY <1>24 DEF Crash, Lose, TypeOK, Places, Locking, Locked, Quiet
<1>25. ASSUME NEW h \in Handle, Exit(h) \/ WatchExit(h) \/ TimeoutCheck(h) \/
    TimeoutMark(h) PROVE Locking'
  BY <1>25 DEF Exit, WatchExit, TimeoutCheck, TimeoutMark, TypeOK, Places,
      Locking, Locked, Quiet
<1>26. ASSUME Snapshot \/ StopBegin \/ StopWait \/ StopEnd \/ Restart PROVE
    Locking'
  BY <1>26 DEF Snapshot, StopBegin, StopWait, StopEnd, Restart, TypeOK, Places,
      Locking, Locked, Quiet
<1>27. CASE UNCHANGED vars
  BY <1>27 DEF TypeOK, Places, Locking, Locked, Quiet, vars
<1> QED
  BY <1>1, <1>2, <1>3, <1>4, <1>5, <1>6, <1>7, <1>8, <1>9, <1>10, <1>11, <1>12,
      <1>13, <1>14, <1>15, <1>16, <1>17, <1>18, <1>19, <1>20, <1>21, <1>22,
      <1>23, <1>24, <1>25, <1>26, <1>27 DEF Next, ActorStep, WorkerStep

\* While the daemon is down there is nothing but files and processes.
LEMMA QuietStep ==
    TypeOK /\ Allocated /\ Places /\ Locking /\ Quiet /\ [Next]_vars => Quiet'
<1> SUFFICES ASSUME TypeOK, Allocated, Places, Locking, Quiet, [Next]_vars
    PROVE Quiet'
  OBVIOUS
<1> USE DistinctAssumption DEF Actor, daemonVars, metaVars, workerVars, procVars, watchVars, localVars
<1>1. ASSUME NEW a \in Caller, NEW id \in ID, CreateStart(a, id) PROVE Quiet'
  BY <1>1 DEF CreateStart, Up, Goto, TypeOK, Places, Quiet
<1>2. ASSUME NEW a \in Caller, NEW id \in ID, CloseStart(a, id) PROVE Quiet'
  BY <1>2 DEF CloseStart, Up, Goto, TypeOK, Places, Quiet
<1>3. ASSUME NEW a \in Actor, NewCheck(a) PROVE Quiet'
  BY <1>3 DEF NewCheck, Return, Goto, Keep, TypeOK, Places, Quiet
<1>4. ASSUME NEW a \in Actor, Insert(a) PROVE Quiet'
  BY <1>4 DEF Insert, Pass, Acquire, Return, Goto, FreshMeta, TypeOK, Places,
      Quiet
<1>5. ASSUME NEW a \in Actor, Save(a) PROVE Quiet'
  BY <1>5 DEF Save, Release, Goto, Keep, TypeOK, Places, Quiet
<1>6. ASSUME NEW a \in Actor, Rollback(a) PROVE Quiet'
  BY <1>6 DEF Rollback, Current, Pass, Acquire, Return, Goto, Keep, TypeOK,
      Places, Quiet
<1>7. ASSUME NEW a \in Actor, Unsave(a) PROVE Quiet'
  BY <1>7 DEF Unsave, Release, Return, Goto, TypeOK, Places, Quiet
<1>8. ASSUME NEW a \in Actor, Spawn(a) PROVE Quiet'
  BY <1>8 DEF Spawn, Closing, Current, Install, StartFails, FreshHandle,
      Return, Goto, Keep, TypeOK, Places, Quiet
<1>9. ASSUME NEW a \in Actor, StopOld(a) PROVE Quiet'
  BY <1>9 DEF StopOld, Discard, Doomed, Return, Goto, TypeOK, Places, Quiet
<1>10. ASSUME NEW a \in Actor, Persist(a) PROVE Quiet'
  BY <1>10 DEF Persist, Persistable, Current, Acquire, Pass, AfterPersist,
      Return, Goto, Keep, TypeOK, Places, Quiet
<1>11. ASSUME NEW a \in Actor, Update(a) PROVE Quiet'
  BY <1>11 DEF Update, Release, AfterPersist, Return, Goto, TypeOK,
      Places, Quiet
<1>12. ASSUME NEW a \in Actor, Mark(a) PROVE Quiet'
  BY <1>12 DEF Mark, Current, WorkerToClose, Acquire, Pass, Return, Goto,
      TypeOK, Places, Quiet
<1>13. ASSUME NEW a \in Actor, MarkDisk(a) PROVE Quiet'
  BY <1>13 DEF MarkDisk, Release, Return, Goto, Keep, TypeOK, Places, Quiet
<1>14. ASSUME NEW a \in Actor, SendClose(a) PROVE Quiet'
  BY <1>14 DEF SendClose, Doomed, Return, Goto, TypeOK, Places, Quiet
<1>15. ASSUME NEW a \in Actor, Purge(a) PROVE Quiet'
  BY <1>15 DEF Purge, Acquire, Goto, TypeOK, Places, Quiet
<1>16. ASSUME NEW a \in Actor, Remove(a) PROVE Quiet'
  BY <1>16 DEF Remove, Release, Goto, Keep, TypeOK, Places, Quiet
<1>17. ASSUME NEW a \in Actor, KillOld(a) PROVE Quiet'
  BY <1>17 DEF KillOld, Discard, Doomed, Goto, TypeOK, Places, Quiet
<1>18. ASSUME NEW s \in Spawner, NEW m \in Meta, ReconcileCheck(s, m) PROVE Quiet'
  BY <1>18 DEF ReconcileCheck, Goto, TypeOK, Places, Quiet
<1>19. ASSUME NEW s \in Spawner, ReconcileLook(s) PROVE Quiet'
  BY <1>19 DEF ReconcileLook, Goto, Keep, Return, TypeOK, Places, Quiet
<1>20. ASSUME NEW h \in Handle, Connect(h) PROVE Quiet'
  BY <1>20 DEF Connect, Up, Expected, Doomed, Goto, TypeOK, Places, Quiet
<1>21. ASSUME NEW h \in Handle, Route(h) PROVE Quiet'
  BY <1>21 DEF Route, Current, Goto, Keep, Return, TypeOK, Places, Quiet
<1>22. ASSUME NEW h \in Handle, Ready(h) PROVE Quiet'
  BY <1>22 DEF Ready, Current, ReadyStatus, Return, Goto, Keep, TypeOK, Places,
      Quiet
<1>23. ASSUME NEW h \in Handle, WatchExit(h) PROVE Quiet'
  BY <1>23 DEF WatchExit, OwnedCurrent, Current, TypeOK, Places, Quiet
<1>24. ASSUME Snapshot PROVE Quiet'
  BY <1>24 DEF Snapshot, Up, TypeOK, Places, Quiet
<1>25. ASSUME StopBegin PROVE Quiet'
  BY <1>25 DEF StopBegin, TypeOK, Places, Quiet
<1>26. ASSUME StopWait PROVE Quiet'
  BY <1>26 DEF StopWait, WorkerSet, Doomed, TypeOK, Places, Quiet
<1>27. ASSUME StopEnd PROVE Quiet'
  BY <1>27 DEF StopEnd, TypeOK, Places, Quiet
<1>28. ASSUME Leave PROVE Quiet'
  BY <1>28 DEF Leave, Lose, TypeOK, Places, Quiet
<1>29. ASSUME Crash PROVE Quiet'
  BY <1>29 DEF Crash, Lose, TypeOK, Places, Quiet
<1>30. ASSUME Restart PROVE Quiet'
  BY <1>30 DEF Restart, Restorable, FreshMeta, TypeOK, Places, Quiet
<1>31. ASSUME NEW h \in Handle, Exit(h) \/ TimeoutCheck(h) \/ TimeoutMark(h)
    PROVE Quiet'
  BY <1>31 DEF Exit, TimeoutCheck, TimeoutMark, TypeOK, Places, Quiet
<1>32. CASE UNCHANGED vars
  BY <1>32 DEF TypeOK, Places, Quiet, vars
<1> QED
  BY <1>1, <1>2, <1>3, <1>4, <1>5, <1>6, <1>7, <1>8, <1>9, <1>10, <1>11, <1>12,
      <1>13, <1>14, <1>15, <1>16, <1>17, <1>18, <1>19, <1>20, <1>21, <1>22,
      <1>23, <1>24, <1>25, <1>26, <1>27, <1>28, <1>29, <1>30, <1>31, <1>32 DEF
      Next, ActorStep, WorkerStep

\* Nothing disturbs what the holder of a file lock has established.
LEMMA HeldStep ==
    TypeOK /\ Allocated /\ Places /\ Locking /\ Quiet /\ Held /\ DiskAgrees /\
        [Next]_vars => Held'
<1> SUFFICES ASSUME TypeOK, Allocated, Places, Locking, Quiet, Held,
    DiskAgrees, [Next]_vars PROVE Held'
  OBVIOUS
<1> USE DistinctAssumption DEF Actor, daemonVars, metaVars, workerVars, procVars, watchVars, localVars
<1>1. ASSUME NEW a \in Caller, NEW id \in ID, CreateStart(a, id) PROVE Held'
  BY <1>1 DEF CreateStart, Up, Goto, TypeOK, Allocated, Places, WithMeta,
      Locking, Locked, Quiet, Held, HeldAt, DiskAgrees, FileAgrees
<1>2. ASSUME NEW a \in Caller, NEW id \in ID, CloseStart(a, id) PROVE Held'
  BY <1>2 DEF CloseStart, Up, Goto, TypeOK, Allocated, Places, WithMeta,
      Locking, Locked, Quiet, Held, HeldAt, DiskAgrees, FileAgrees
<1>3. ASSUME NEW a \in Actor, NewCheck(a) PROVE Held'
  BY <1>3, SMTT(30) DEF NewCheck, Return, Goto, Keep, TypeOK, Allocated, Places,
      WithMeta, Locking, Locked, Quiet, Held, HeldAt, DiskAgrees, FileAgrees
<1>4. ASSUME NEW a \in Actor, Insert(a) PROVE Held'
  <2> SUFFICES ASSUME NEW b \in Actor PROVE HeldAt(b)'
    BY DEF Held
  <2>1. aid[a] \in ID /\ lock[aid[a]] = Nil /\ daemon # "down"
    BY <1>4 DEF Insert, Acquire, Pass, Places, Quiet
  <2>2. CASE b = a
    BY <1>4, <2>1, <2>2 DEF Insert, Return, Goto, HeldAt, TypeOK
  <2>3. CASE b # a
    <3>1. pc'[b] = pc[b] /\ aid'[b] = aid[b] /\ ameta'[b] = ameta[b] /\ HeldAt(b)
      BY <1>4, <2>3 DEF Insert, Goto, Keep, Return, AfterPersist, TypeOK, Held
    <3>2. pc[b] \in Locked => aid[b] \in ID /\ aid[b] # aid[a]
      BY <2>1 DEF Locking, Locked, Places
    <3>3. pc[b] \in Locked =>
            /\ sessions'[aid[b]] = sessions[aid[b]]
            /\ disk' = disk /\ closed' = closed
            /\ pc[b] \in {"markdisk", "update"} => origin'[ameta[b]] = origin[ameta[b]]
      BY <1>4, <2>1, <3>2 DEF Insert, FreshMeta, TypeOK, Places, WithMeta
    <3> QED
      BY <3>1, <3>2, <3>3 DEF HeldAt, Locked
  <2> QED
    BY <2>2, <2>3
<1>5. ASSUME NEW a \in Actor, Save(a) PROVE Held'
  BY <1>5 DEF Save, Release, Goto, Keep, TypeOK, Allocated, Places, WithMeta,
      Locking, Locked, Quiet, Held, HeldAt, DiskAgrees, FileAgrees
<1>6. ASSUME NEW a \in Actor, Rollback(a) PROVE Held'
  BY <1>6 DEF Rollback, Current, Pass, Acquire, Return, Goto, Keep, TypeOK,
      Allocated, Places, WithMeta, Locking, Locked, Quiet, Held, HeldAt,
      DiskAgrees, FileAgrees
<1>7. ASSUME NEW a \in Actor, Unsave(a) PROVE Held'
  BY <1>7 DEF Unsave, Release, Return, Goto, TypeOK, Allocated, Places,
      WithMeta, Locking, Locked, Quiet, Held, HeldAt, DiskAgrees, FileAgrees
<1>8. ASSUME NEW a \in Actor, Spawn(a) PROVE Held'
  BY <1>8 DEF Spawn, Closing, Current, Install, StartFails, FreshHandle,
      Return, Goto, Keep, TypeOK, Allocated, Places, WithMeta, Locking, Locked,
      Quiet, Held, HeldAt, DiskAgrees, FileAgrees
<1>9. ASSUME NEW a \in Actor, StopOld(a) PROVE Held'
  BY <1>9 DEF StopOld, Discard, Doomed, Return, Goto, TypeOK, Allocated,
      Places, WithMeta, Locking, Locked, Quiet, Held, HeldAt, DiskAgrees,
      FileAgrees
<1>10. ASSUME NEW a \in Actor, Persist(a) PROVE Held'
  <2> SUFFICES ASSUME NEW b \in Actor PROVE HeldAt(b)'
    BY DEF Held
  <2>1. aid[a] \in ID /\ lock[aid[a]] = Nil /\ daemon # "down"
    BY <1>10 DEF Persist, Acquire, Pass, Places, Quiet
  <2>2. CASE b = a
    <3>1. CASE ~Persistable(ameta[a])
      BY <1>10, <2>2, <3>1 DEF Persist, AfterPersist, Return, Goto, HeldAt, TypeOK
    <3>2. CASE Persistable(ameta[a])
      <4>1. ameta[a] \in Meta /\ sid[ameta[a]] = aid[a]
        BY <1>10 DEF Persist, Places, WithMeta
      <4>2. sessions[aid[a]] = ameta[a] /\ ~closed[ameta[a]]
        BY <3>2, <4>1 DEF Persistable, Current
      <4>3. disk[aid[a]] = [origin |-> origin[ameta[a]], closed |-> FALSE]
        <5>1. closed[ameta[a]] = FALSE /\ ameta[a] # Nil
          BY <4>1, <4>2 DEF TypeOK
        <5>2. FileAgrees(aid[a])
          BY <2>1 DEF DiskAgrees
        <5> QED
          BY <4>2, <5>1, <5>2 DEF FileAgrees
      <4> QED
        BY <1>10, <2>1, <2>2, <3>2, <4>1, <4>2, <4>3 DEF Persist, Goto, Keep, HeldAt, TypeOK
    <3> QED
      BY <3>1, <3>2
  <2>3. CASE b # a
    <3>1. pc'[b] = pc[b] /\ aid'[b] = aid[b] /\ ameta'[b] = ameta[b] /\ HeldAt(b)
      BY <1>10, <2>3 DEF Persist, Goto, Keep, Return, AfterPersist, TypeOK, Held
    <3>2. pc[b] \in Locked => aid[b] \in ID /\ aid[b] # aid[a]
      BY <2>1 DEF Locking, Locked, Places
    <3>3. sessions' = sessions /\ disk' = disk /\ closed' = closed /\ origin' = origin
      BY <1>10 DEF Persist
    <3> QED
      BY <3>1, <3>2, <3>3 DEF HeldAt, Locked
  <2> QED
    BY <2>2, <2>3
<1>11. ASSUME NEW a \in Actor, Update(a) PROVE Held'
  BY <1>11 DEF Update, Release, AfterPersist, Return, Goto, TypeOK,
      Allocated, Places, WithMeta, Locking, Locked, Quiet, Held, HeldAt,
      DiskAgrees, FileAgrees
<1>12. ASSUME NEW a \in Actor, Mark(a) PROVE Held'
  <2> SUFFICES ASSUME NEW b \in Actor PROVE HeldAt(b)'
    BY DEF Held
  <2>1. aid[a] \in ID /\ lock[aid[a]] = Nil /\ daemon # "down"
    BY <1>12 DEF Mark, Acquire, Pass, Places, Quiet
  <2>2. CASE b = a
    <3>1. CASE ~Current(ameta[a])
      BY <1>12, <2>2, <3>1 DEF Mark, Return, Goto, HeldAt, TypeOK
    <3>2. CASE Current(ameta[a])
      <4>1. ameta[a] \in Meta /\ sid[ameta[a]] = aid[a]
        BY <1>12 DEF Mark, Places, WithMeta
      <4>2. sessions[aid[a]] = ameta[a]
        BY <3>2, <4>1 DEF Current
      <4>3. disk[aid[a]] # Nil /\ disk[aid[a]].origin = origin[ameta[a]]
        <5>1. disk[aid[a]] = [origin |-> origin[ameta[a]], closed |-> closed[ameta[a]]]
          BY <2>1, <4>1, <4>2 DEF DiskAgrees, FileAgrees, TypeOK
        <5>2. disk[aid[a]] # Nil
          <6>1. disk[aid[a]] \in Record
            <7>1. origin[ameta[a]] \in Meta /\ closed[ameta[a]] \in BOOLEAN
              BY <2>1, <4>1 DEF Allocated, TypeOK
            <7> QED
              BY <5>1, <7>1 DEF Record
          <6> QED
            BY <6>1, RecordAssumption
        <5> QED
          BY <5>1, <5>2
      <4> QED
        BY <1>12, <2>1, <2>2, <3>2, <4>1, <4>2, <4>3 DEF Mark, Goto, HeldAt, TypeOK
    <3> QED
      BY <3>1, <3>2
  <2>3. CASE b # a
    <3>1. pc'[b] = pc[b] /\ aid'[b] = aid[b] /\ ameta'[b] = ameta[b] /\ HeldAt(b)
      BY <1>12, <2>3 DEF Mark, Goto, Keep, Return, AfterPersist, TypeOK, Held
    <3>2. pc[b] \in Locked => aid[b] \in ID /\ aid[b] # aid[a]
      BY <2>1 DEF Locking, Locked, Places
    <3>3. pc[b] \in Locked =>
            /\ sessions' = sessions /\ disk' = disk /\ origin' = origin
            /\ pc[b] \in {"markdisk", "update"} => closed'[ameta[b]] = closed[ameta[b]]
      BY <1>12, <2>1, <3>2 DEF Mark, TypeOK, Places, WithMeta
    <3> QED
      BY <3>1, <3>2, <3>3 DEF HeldAt, Locked
  <2> QED
    BY <2>2, <2>3
<1>13. ASSUME NEW a \in Actor, MarkDisk(a) PROVE Held'
  BY <1>13 DEF MarkDisk, Release, Return, Goto, Keep, TypeOK, Allocated,
      Places, WithMeta, Locking, Locked, Quiet, Held, HeldAt, DiskAgrees,
      FileAgrees
<1>14. ASSUME NEW a \in Actor, SendClose(a) PROVE Held'
  BY <1>14 DEF SendClose, Doomed, Return, Goto, TypeOK, Allocated, Places,
      WithMeta, Locking, Locked, Quiet, Held, HeldAt, DiskAgrees, FileAgrees
<1>15. ASSUME NEW a \in Actor, Purge(a) PROVE Held'
  BY <1>15 DEF Purge, Acquire, Goto, TypeOK, Allocated, Places, WithMeta,
      Locking, Locked, Quiet, Held, HeldAt, DiskAgrees, FileAgrees
<1>16. ASSUME NEW a \in Actor, Remove(a) PROVE Held'
  BY <1>16 DEF Remove, Release, Goto, Keep, TypeOK, Allocated, Places,
      WithMeta, Locking, Locked, Quiet, Held, HeldAt, DiskAgrees, FileAgrees
<1>17. ASSUME NEW a \in Actor, KillOld(a) PROVE Held'
  BY <1>17 DEF KillOld, Discard, Doomed, Goto, TypeOK, Allocated, Places,
      WithMeta, Locking, Locked, Quiet, Held, HeldAt, DiskAgrees, FileAgrees
<1>18. ASSUME NEW s \in Spawner, NEW m \in Meta, ReconcileCheck(s, m) PROVE Held'
  BY <1>18 DEF ReconcileCheck, Goto, TypeOK, Allocated, Places, WithMeta,
      Locking, Locked, Quiet, Held, HeldAt, DiskAgrees, FileAgrees
<1>19. ASSUME NEW s \in Spawner, ReconcileLook(s) PROVE Held'
  BY <1>19 DEF ReconcileLook, Goto, Keep, Return, TypeOK, Allocated, Places,
      WithMeta, Locking, Locked, Quiet, Held, HeldAt, DiskAgrees, FileAgrees
<1>20. ASSUME NEW h \in Handle, Connect(h) PROVE Held'
  BY <1>20 DEF Connect, Up, Expected, Doomed, Goto, TypeOK, Allocated, Places,
      WithMeta, Locking, Locked, Quiet, Held, HeldAt, DiskAgrees, FileAgrees
<1>21. ASSUME NEW h \in Handle, Route(h) PROVE Held'
  BY <1>21 DEF Route, Current, Goto, Keep, Return, TypeOK, Allocated, Places,
      WithMeta, Locking, Locked, Quiet, Held, HeldAt, DiskAgrees, FileAgrees
<1>22. ASSUME NEW h \in Handle, Ready(h) PROVE Held'
  BY <1>22 DEF Ready, Current, ReadyStatus, Return, Goto, Keep, TypeOK,
      Allocated, Places, WithMeta, Locking, Locked, Quiet, Held, HeldAt,
      DiskAgrees, FileAgrees
<1>23. ASSUME Leave PROVE Held'
  BY <1>23 DEF Leave, Lose, TypeOK, Allocated, Places, WithMeta, Locking,
      Locked, Quiet, Held, HeldAt, DiskAgrees, FileAgrees
<1>24. ASSUME Crash PROVE Held'
  BY <1>24 DEF Crash, Lose, TypeOK, Allocated, Places, WithMeta, Locking,
      Locked, Quiet, Held, HeldAt, DiskAgrees, FileAgrees
<1>25. ASSUME Restart PROVE Held'
  BY <1>25 DEF Restart, Restorable, FreshMeta, TypeOK, Allocated, Places,
      WithMeta, Locking, Locked, Quiet, Held, HeldAt, DiskAgrees, FileAgrees
<1>26. ASSUME NEW h \in Handle, Exit(h) \/ WatchExit(h) \/ TimeoutCheck(h) \/
    TimeoutMark(h) PROVE Held'
  BY <1>26 DEF Exit, WatchExit, TimeoutCheck, TimeoutMark, TypeOK, Allocated,
      Places, WithMeta, Locking, Locked, Quiet, Held, HeldAt, DiskAgrees,
      FileAgrees
<1>27. ASSUME Snapshot \/ StopBegin \/ StopWait \/ StopEnd PROVE Held'
  BY <1>27 DEF Snapshot, StopBegin, StopWait, StopEnd, TypeOK, Allocated,
      Places, WithMeta, Locking, Locked, Quiet, Held, HeldAt, DiskAgrees,
      FileAgrees
<1>28. CASE UNCHANGED vars
  BY <1>28 DEF TypeOK, Allocated, Places, WithMeta, Locking, Locked, Quiet,
      Held, HeldAt, DiskAgrees, FileAgrees, vars
<1> QED
  BY <1>1, <1>2, <1>3, <1>4, <1>5, <1>6, <1>7, <1>8, <1>9, <1>10, <1>11, <1>12,
      <1>13, <1>14, <1>15, <1>16, <1>17, <1>18, <1>19, <1>20, <1>21, <1>22,
      <1>23, <1>24, <1>25, <1>26, <1>27, <1>28 DEF Next, ActorStep, WorkerStep

\* Whoever gives the file lock back leaves the file equal to the registry.
LEMMA DiskStep ==
    TypeOK /\ Allocated /\ Places /\ Locking /\ Quiet /\ Held /\ DiskAgrees /\
        [Next]_vars => DiskAgrees'
<1> SUFFICES ASSUME TypeOK, Allocated, Places, Locking, Quiet, Held,
    DiskAgrees, [Next]_vars PROVE DiskAgrees'
  OBVIOUS
<1> USE DistinctAssumption DEF Actor, daemonVars, metaVars, workerVars, procVars, watchVars, localVars
<1>1. ASSUME NEW a \in Actor, Insert(a) PROVE DiskAgrees'
  BY <1>1 DEF Insert, Pass, Acquire, Return, Goto, FreshMeta, TypeOK,
      Allocated, Places, WithMeta, Locking, Locked, Quiet, Held, HeldAt,
      DiskAgrees, FileAgrees, Record
<1>2. ASSUME NEW a \in Actor, Save(a) PROVE DiskAgrees'
  <2> SUFFICES ASSUME NEW id \in ID, daemon' # "down", lock'[id] = Nil
               PROVE  FileAgrees(id)'
    BY DEF DiskAgrees
  <2>1. aid[a] \in ID /\ ameta[a] \in Meta /\ sessions[aid[a]] = ameta[a] /\ daemon # "down"
    BY <1>2 DEF Save, Places, WithMeta, Locking, Locked, Held, HeldAt, Quiet
  <2>2. CASE id = aid[a]
    BY <1>2, <2>1, <2>2 DEF Save, TypeOK, FileAgrees
  <2>3. CASE id # aid[a]
    <3>1. disk'[id] = disk[id] /\ lock[id] = Nil
      BY <1>2, <2>1, <2>3 DEF Save, Release, TypeOK
    <3> QED
      BY <1>2, <3>1 DEF Save, TypeOK, DiskAgrees, FileAgrees
  <2> QED
    BY <2>2, <2>3
<1>3. ASSUME NEW a \in Actor, Rollback(a) PROVE DiskAgrees'
  BY <1>3 DEF Rollback, Current, Pass, Acquire, Return, Goto, Keep, TypeOK,
      Allocated, Places, WithMeta, Locking, Locked, Quiet, Held, HeldAt,
      DiskAgrees, FileAgrees, Record
<1>4. ASSUME NEW a \in Actor, Unsave(a) PROVE DiskAgrees'
  <2> SUFFICES ASSUME NEW id \in ID, daemon' # "down", lock'[id] = Nil
               PROVE  FileAgrees(id)'
    BY DEF DiskAgrees
  <2>1. aid[a] \in ID /\ sessions[aid[a]] = Nil /\ daemon # "down"
    BY <1>4 DEF Unsave, Places, WithMeta, Locking, Locked, Held, HeldAt, Quiet
  <2>2. CASE id = aid[a]
    BY <1>4, <2>1, <2>2 DEF Unsave, TypeOK, FileAgrees
  <2>3. CASE id # aid[a]
    <3>1. disk'[id] = disk[id] /\ lock[id] = Nil
      BY <1>4, <2>1, <2>3 DEF Unsave, Release, TypeOK
    <3> QED
      BY <1>4, <3>1 DEF Unsave, TypeOK, DiskAgrees, FileAgrees
  <2> QED
    BY <2>2, <2>3
<1>5. ASSUME NEW a \in Actor, Persist(a) PROVE DiskAgrees'
  BY <1>5 DEF Persist, Persistable, Current, Acquire, Pass, AfterPersist,
      Return, Goto, Keep, TypeOK, Allocated, Places, WithMeta, Locking, Locked,
      Quiet, Held, HeldAt, DiskAgrees, FileAgrees, Record
<1>6. ASSUME NEW a \in Actor, Update(a) PROVE DiskAgrees'
  <2> SUFFICES ASSUME NEW id \in ID, daemon' # "down", lock'[id] = Nil
               PROVE  FileAgrees(id)'
    BY DEF DiskAgrees
  <2>1. aid[a] \in ID /\ ameta[a] \in Meta /\ sessions[aid[a]] = ameta[a] /\ daemon # "down"
    BY <1>6 DEF Update, Places, WithMeta, Locking, Locked, Held, HeldAt, Quiet
  <2>2. CASE id = aid[a]
    <3>1. ~closed[ameta[a]]
          /\ disk[aid[a]] = [origin |-> origin[ameta[a]], closed |-> FALSE]
      BY <1>6, <2>1 DEF Update, Held, HeldAt
    <3>2. disk'[aid[a]] = disk[aid[a]]
      BY <1>6, <2>1, <3>1 DEF Update, TypeOK
    <3> QED
      BY <1>6, <2>1, <2>2, <3>1, <3>2 DEF Update, TypeOK, FileAgrees
  <2>3. CASE id # aid[a]
    <3>1. disk'[id] = disk[id] /\ lock[id] = Nil
      BY <1>6, <2>1, <2>3 DEF Update, Release, TypeOK
    <3> QED
      BY <1>6, <3>1 DEF Update, TypeOK, DiskAgrees, FileAgrees
  <2> QED
    BY <2>2, <2>3
<1>7. ASSUME NEW a \in Actor, Mark(a) PROVE DiskAgrees'
  BY <1>7 DEF Mark, Current, WorkerToClose, Acquire, Pass, Return, Goto,
      TypeOK, Allocated, Places, WithMeta, Locking, Locked, Quiet, Held,
      HeldAt, DiskAgrees, FileAgrees, Record
<1>8. ASSUME NEW a \in Actor, MarkDisk(a) PROVE DiskAgrees'
  <2> SUFFICES ASSUME NEW id \in ID, daemon' # "down", lock'[id] = Nil
               PROVE  FileAgrees(id)'
    BY DEF DiskAgrees
  <2>1. aid[a] \in ID /\ ameta[a] \in Meta /\ sessions[aid[a]] = ameta[a] /\ daemon # "down"
    BY <1>8 DEF MarkDisk, Places, WithMeta, Locking, Locked, Held, HeldAt, Quiet
  <2>2. CASE id = aid[a]
    <3>1. disk[aid[a]] \in Record /\ closed[ameta[a]]
          /\ disk[aid[a]].origin = origin[ameta[a]] /\ disk[aid[a]] # Nil
      BY <1>8, <2>1 DEF MarkDisk, Held, HeldAt, TypeOK
    <3>2. closed[ameta[a]] = TRUE
      BY <2>1, <3>1 DEF TypeOK
    <3> QED
      BY <1>8, <2>1, <2>2, <3>1, <3>2 DEF MarkDisk, TypeOK, FileAgrees
  <2>3. CASE id # aid[a]
    <3>1. disk'[id] = disk[id] /\ lock[id] = Nil
      BY <1>8, <2>1, <2>3 DEF MarkDisk, Release, TypeOK
    <3> QED
      BY <1>8, <3>1 DEF MarkDisk, TypeOK, DiskAgrees, FileAgrees
  <2> QED
    BY <2>2, <2>3
<1>9. ASSUME NEW a \in Actor, Purge(a) PROVE DiskAgrees'
  BY <1>9 DEF Purge, Acquire, Goto, TypeOK, Allocated, Places, WithMeta,
      Locking, Locked, Quiet, Held, HeldAt, DiskAgrees, FileAgrees, Record
<1>10. ASSUME NEW a \in Actor, Remove(a) PROVE DiskAgrees'
  <2> SUFFICES ASSUME NEW id \in ID, daemon' # "down", lock'[id] = Nil
               PROVE  FileAgrees(id)'
    BY DEF DiskAgrees
  <2>1. aid[a] \in ID /\ sessions[aid[a]] = Nil /\ daemon # "down"
    BY <1>10 DEF Remove, Places, WithMeta, Locking, Locked, Held, HeldAt, Quiet
  <2>2. CASE id = aid[a]
    BY <1>10, <2>1, <2>2 DEF Remove, TypeOK, FileAgrees
  <2>3. CASE id # aid[a]
    <3>1. disk'[id] = disk[id] /\ lock[id] = Nil
      BY <1>10, <2>1, <2>3 DEF Remove, Release, TypeOK
    <3> QED
      BY <1>10, <3>1 DEF Remove, TypeOK, DiskAgrees, FileAgrees
  <2> QED
    BY <2>2, <2>3
<1>11. ASSUME StopBegin PROVE DiskAgrees'
  BY <1>11 DEF StopBegin, TypeOK, Allocated, Places, WithMeta, Locking, Locked,
      Quiet, Held, HeldAt, DiskAgrees, FileAgrees, Record
<1>12. ASSUME StopWait PROVE DiskAgrees'
  BY <1>12 DEF StopWait, WorkerSet, Doomed, TypeOK, Allocated, Places,
      WithMeta, Locking, Locked, Quiet, Held, HeldAt, DiskAgrees, FileAgrees,
      Record
<1>13. ASSUME StopEnd PROVE DiskAgrees'
  BY <1>13 DEF StopEnd, TypeOK, Allocated, Places, WithMeta, Locking, Locked,
      Quiet, Held, HeldAt, DiskAgrees, FileAgrees, Record
<1>14. ASSUME Leave PROVE DiskAgrees'
  BY <1>14 DEF Leave, Lose, TypeOK, Allocated, Places, WithMeta, Locking,
      Locked, Quiet, Held, HeldAt, DiskAgrees, FileAgrees, Record
<1>15. ASSUME Crash PROVE DiskAgrees'
  BY <1>15 DEF Crash, Lose, TypeOK, Allocated, Places, WithMeta, Locking,
      Locked, Quiet, Held, HeldAt, DiskAgrees, FileAgrees, Record
<1>16. ASSUME Restart PROVE DiskAgrees'
  <2> SUFFICES ASSUME NEW id \in ID PROVE FileAgrees(id)'
    BY DEF DiskAgrees
  <2>1. disk' = disk /\ closed' = closed /\ disk[id] \in Record \union {Nil}
    BY <1>16 DEF Restart, TypeOK
  <2>2. CASE id \in Restorable
    <3>1. /\ sessions'[id] \in Meta /\ sid[sessions'[id]] = Nil
          /\ origin'[sessions'[id]] = disk[id].origin
      BY <1>16, <2>2, RestartFacts DEF FreshMeta
    <3>2. ~closed[sessions'[id]]
      BY <3>1 DEF Allocated
    <3>3. disk[id] = [origin |-> disk[id].origin, closed |-> FALSE]
      BY <2>1, <2>2 DEF Restorable, Record
    <3> QED
      BY <2>1, <3>1, <3>2, <3>3 DEF FileAgrees, TypeOK
  <2>3. CASE id \notin Restorable
    <3>1. sessions'[id] = Nil
      BY <1>16, <2>3, RestartFacts
    <3> QED
      BY <2>1, <2>3, <3>1 DEF Restorable, FileAgrees
  <2> QED
    BY <2>2, <2>3
<1>17. ASSUME NEW a \in Caller, NEW id \in ID, CreateStart(a, id) \/
    CloseStart(a, id) PROVE DiskAgrees'
  BY <1>17 DEF CreateStart, CloseStart, TypeOK, Allocated, Places, WithMeta,
      Locking, Locked, Quiet, Held, HeldAt, DiskAgrees, FileAgrees, Record
<1>18. ASSUME NEW a \in Actor, NewCheck(a) \/ Spawn(a) \/ StopOld(a) \/
    SendClose(a) \/ KillOld(a) PROVE DiskAgrees'
  BY <1>18 DEF NewCheck, Spawn, StopOld, SendClose, KillOld, TypeOK, Allocated,
      Places, WithMeta, Locking, Locked, Quiet, Held, HeldAt, DiskAgrees,
      FileAgrees, Record
<1>19. ASSUME NEW s \in Spawner, NEW m \in Meta, ReconcileCheck(s, m) PROVE
    DiskAgrees'
  BY <1>19 DEF ReconcileCheck, TypeOK, Allocated, Places, WithMeta, Locking,
      Locked, Quiet, Held, HeldAt, DiskAgrees, FileAgrees, Record
<1>20. ASSUME NEW s \in Spawner, ReconcileLook(s) PROVE DiskAgrees'
  BY <1>20 DEF ReconcileLook, TypeOK, Allocated, Places, WithMeta, Locking,
      Locked, Quiet, Held, HeldAt, DiskAgrees, FileAgrees, Record
<1>21. ASSUME NEW h \in Handle, Connect(h) \/ Route(h) \/ Ready(h) \/ Exit(h)
    \/ WatchExit(h) \/ TimeoutCheck(h) \/ TimeoutMark(h) PROVE DiskAgrees'
  BY <1>21 DEF Connect, Route, Ready, Exit, WatchExit, TimeoutCheck,
      TimeoutMark, TypeOK, Allocated, Places, WithMeta, Locking, Locked, Quiet,
      Held, HeldAt, DiskAgrees, FileAgrees, Record
<1>22. ASSUME Snapshot PROVE DiskAgrees'
  BY <1>22 DEF Snapshot, TypeOK, Allocated, Places, WithMeta, Locking, Locked,
      Quiet, Held, HeldAt, DiskAgrees, FileAgrees, Record
<1>23. CASE UNCHANGED vars
  BY <1>23 DEF TypeOK, Allocated, Places, WithMeta, Locking, Locked, Quiet,
      Held, HeldAt, DiskAgrees, FileAgrees, Record, vars
<1> QED
  BY <1>1, <1>2, <1>3, <1>4, <1>5, <1>6, <1>7, <1>8, <1>9, <1>10, <1>11, <1>12,
      <1>13, <1>14, <1>15, <1>16, <1>17, <1>18, <1>19, <1>20, <1>21, <1>22,
      <1>23 DEF Next, ActorStep, WorkerStep

\* Handles belong to one meta and one ID, and an unused one is known nowhere.
Generations ==
    /\ \A h \in Handle :
        /\ owners[h] \in {Nil, madeFor[h]}
        /\ proc[h] = "unused" =>
            /\ owners[h] = Nil /\ conn[h] = Nil /\ ~shut[h] /\ ~Registered(h)
            /\ watcher[h] = "none"
            /\ \A a \in Actor : aold[a] # h /\ ahandle[a] # h
    /\ \A id \in ID : workers[id] # Nil => sid[madeFor[workers[id]]] = id
    /\ \A a \in Actor : aold[a] # Nil => ~Registered(aold[a])

\* A handle that was shut is not the worker handleConn expects.
ShutUnused == \A h \in Handle : shut[h] => owners[h] = Nil \/ ~Registered(h)

\* NewSession rolls back only when the daemon is closing.
RollbackOnlyClosing ==
    \A a \in Actor : pc[a] \in {"rollback", "unsave"} => daemon # "running"

\* A handle is registered once, and never again after it was displaced.
LEMMA GenerationsStep ==
    TypeOK /\ Allocated /\ Places /\ Quiet /\ Generations /\ [Next]_vars =>
        Generations'
<1> SUFFICES ASSUME TypeOK, Allocated, Places, Quiet, Generations, [Next]_vars
    PROVE Generations'
  OBVIOUS
<1> USE DistinctAssumption DEF Actor, daemonVars, metaVars, workerVars, procVars, watchVars, localVars
<1>1. ASSUME NEW a \in Actor, NewCheck(a) PROVE Generations'
  BY <1>1 DEF NewCheck, Return, Goto, Keep, TypeOK, Allocated, Places,
      WithMeta, Quiet, Generations, Registered
<1>2. ASSUME NEW a \in Actor, Insert(a) PROVE Generations'
  BY <1>2, SMTT(30) DEF Insert, Pass, Acquire, Return, Goto, FreshMeta, TypeOK,
      Allocated, Places, WithMeta, Quiet, Generations, Registered
<1>3. ASSUME NEW a \in Actor, Save(a) PROVE Generations'
  BY <1>3 DEF Save, Release, Goto, Keep, TypeOK, Allocated, Places, WithMeta,
      Quiet, Generations, Registered
<1>4. ASSUME NEW a \in Actor, Rollback(a) PROVE Generations'
  BY <1>4 DEF Rollback, Current, Pass, Acquire, Return, Goto, Keep, TypeOK,
      Allocated, Places, WithMeta, Quiet, Generations, Registered
<1>5. ASSUME NEW a \in Actor, Unsave(a) PROVE Generations'
  BY <1>5 DEF Unsave, Release, Return, Goto, TypeOK, Allocated, Places,
      WithMeta, Quiet, Generations, Registered
<1>6. ASSUME NEW a \in Actor, Spawn(a) PROVE Generations'
  BY <1>6, SMTT(30) DEF Spawn, Closing, Current, Install, StartFails, FreshHandle,
      Return, Goto, Keep, TypeOK, Allocated, Places, WithMeta, Quiet,
      Generations, Registered
<1>7. ASSUME NEW a \in Actor, StopOld(a) PROVE Generations'
  <2>1. \A b \in Actor \ {a} : pc'[b] = pc[b] /\ aold'[b] = aold[b]
    BY <1>7 DEF StopOld, Return, Goto, Keep, TypeOK
  <2>2. \A b \in Actor : /\ ahandle'[b] \in {Nil, ahandle[b]}
                        /\ aold'[b] \in {Nil, aold[b]}
    BY <1>7 DEF StopOld, Return, TypeOK
  <2>3. aold[a] # Nil => proc[aold[a]] # "unused" /\ aold[a] \in Handle
    BY DEF Generations, TypeOK
  <2>4. \A h \in Handle :
          /\ proc'[h] = "unused" => proc[h] = "unused"
          /\ proc[h] = "unused" => conn'[h] = conn[h] /\ shut'[h] = shut[h]
    BY <1>7, <2>3 DEF StopOld, Discard, Doomed, TypeOK
  <2> QED
    BY <1>7, <2>2, <2>4 DEF StopOld, Generations, Registered, TypeOK
<1>8. ASSUME NEW a \in Actor, Persist(a) PROVE Generations'
  BY <1>8 DEF Persist, Persistable, Current, Acquire, Pass, AfterPersist,
      Return, Goto, Keep, TypeOK, Allocated, Places, WithMeta, Quiet,
      Generations, Registered
<1>9. ASSUME NEW a \in Actor, Update(a) PROVE Generations'
  BY <1>9 DEF Update, Release, AfterPersist, Return, Goto, TypeOK,
      Allocated, Places, WithMeta, Quiet, Generations, Registered
<1>10. ASSUME NEW a \in Actor, Mark(a) PROVE Generations'
  BY <1>10, SMTT(30) DEF Mark, Current, WorkerToClose, Acquire, Pass, Return, Goto,
      TypeOK, Allocated, Places, WithMeta, Quiet, Generations, Registered
<1>11. ASSUME NEW a \in Actor, MarkDisk(a) PROVE Generations'
  BY <1>11 DEF MarkDisk, Release, Return, Goto, Keep, TypeOK, Allocated,
      Places, WithMeta, Quiet, Generations, Registered
<1>12. ASSUME NEW a \in Actor, SendClose(a) PROVE Generations'
  BY <1>12 DEF SendClose, Doomed, Return, Goto, TypeOK, Allocated, Places,
      WithMeta, Quiet, Generations, Registered
<1>13. ASSUME NEW a \in Actor, Purge(a) PROVE Generations'
  BY <1>13 DEF Purge, Acquire, Goto, TypeOK, Allocated, Places, WithMeta,
      Quiet, Generations, Registered
<1>14. ASSUME NEW a \in Actor, Remove(a) PROVE Generations'
  BY <1>14 DEF Remove, Release, Goto, Keep, TypeOK, Allocated, Places,
      WithMeta, Quiet, Generations, Registered
<1>15. ASSUME NEW a \in Actor, KillOld(a) PROVE Generations'
  BY <1>15 DEF KillOld, Discard, Doomed, Goto, TypeOK, Allocated, Places,
      WithMeta, Quiet, Generations, Registered
<1>16. ASSUME NEW s \in Spawner, NEW m \in Meta, ReconcileCheck(s, m) PROVE Generations'
  BY <1>16 DEF ReconcileCheck, Goto, TypeOK, Allocated, Places, WithMeta,
      Quiet, Generations, Registered
<1>17. ASSUME NEW s \in Spawner, ReconcileLook(s) PROVE Generations'
  BY <1>17 DEF ReconcileLook, Goto, Keep, Return, TypeOK, Allocated, Places,
      WithMeta, Quiet, Generations, Registered
<1>18. ASSUME NEW h \in Handle, Connect(h) PROVE Generations'
  BY <1>18 DEF Connect, Up, Expected, Doomed, Goto, TypeOK, Allocated, Places,
      WithMeta, Quiet, Generations, Registered
<1>19. ASSUME NEW h \in Handle, Route(h) PROVE Generations'
  BY <1>19, SMTT(30) DEF Route, Current, Goto, Keep, Return, TypeOK, Allocated, Places,
      WithMeta, Quiet, Generations, Registered
<1>20. ASSUME NEW h \in Handle, Ready(h) PROVE Generations'
  BY <1>20, SMTT(30) DEF Ready, Current, ReadyStatus, Return, Goto, Keep, TypeOK,
      Allocated, Places, WithMeta, Quiet, Generations, Registered
<1>21. ASSUME NEW h \in Handle, Exit(h) PROVE Generations'
  BY <1>21 DEF Exit, TypeOK, Allocated, Places, WithMeta, Quiet, Generations,
      Registered
<1>22. ASSUME NEW h \in Handle, WatchExit(h) PROVE Generations'
  BY <1>22 DEF WatchExit, OwnedCurrent, Current, TypeOK, Allocated, Places,
      WithMeta, Quiet, Generations, Registered
<1>23. ASSUME StopWait PROVE Generations'
  BY <1>23 DEF StopWait, WorkerSet, Doomed, TypeOK, Allocated, Places,
      WithMeta, Quiet, Generations, Registered
<1>24. ASSUME Leave PROVE Generations'
  BY <1>24 DEF Leave, Lose, TypeOK, Allocated, Places, WithMeta, Quiet,
      Generations, Registered
<1>25. ASSUME Crash PROVE Generations'
  BY <1>25 DEF Crash, Lose, TypeOK, Allocated, Places, WithMeta, Quiet,
      Generations, Registered
<1>26. ASSUME Restart PROVE Generations'
  BY <1>26 DEF Restart, Restorable, FreshMeta, TypeOK, Allocated, Places,
      WithMeta, Quiet, Generations, Registered
<1>27. ASSUME NEW a \in Caller, NEW id \in ID, CreateStart(a, id) \/
    CloseStart(a, id) PROVE Generations'
  BY <1>27 DEF CreateStart, CloseStart, TypeOK, Allocated, Places, WithMeta,
      Quiet, Generations, Registered
<1>28. ASSUME NEW h \in Handle, TimeoutCheck(h) \/ TimeoutMark(h) PROVE
    Generations'
  BY <1>28 DEF TimeoutCheck, TimeoutMark, TypeOK, Allocated, Places, WithMeta,
      Quiet, Generations, Registered
<1>29. ASSUME Snapshot \/ StopBegin \/ StopEnd PROVE Generations'
  BY <1>29 DEF Snapshot, StopBegin, StopEnd, TypeOK, Allocated, Places,
      WithMeta, Quiet, Generations, Registered
<1>30. CASE UNCHANGED vars
  BY <1>30 DEF TypeOK, Allocated, Places, WithMeta, Quiet, Generations,
      Registered, vars
<1> QED
  BY <1>1, <1>2, <1>3, <1>4, <1>5, <1>6, <1>7, <1>8, <1>9, <1>10, <1>11, <1>12,
      <1>13, <1>14, <1>15, <1>16, <1>17, <1>18, <1>19, <1>20, <1>21, <1>22,
      <1>23, <1>24, <1>25, <1>26, <1>27, <1>28, <1>29, <1>30 DEF Next,
      ActorStep, WorkerStep

\* A handle that was shut is not attached again.
LEMMA ShutStep ==
    TypeOK /\ Allocated /\ Places /\ Quiet /\ Generations /\ ShutUnused /\
        ShutHandleDetached /\ [Next]_vars => (ShutUnused /\
        ShutHandleDetached)'
<1> SUFFICES ASSUME TypeOK, Allocated, Places, Quiet, Generations, ShutUnused,
    ShutHandleDetached, [Next]_vars PROVE (ShutUnused /\ ShutHandleDetached)'
  OBVIOUS
<1> USE DistinctAssumption DEF Actor, daemonVars, metaVars, workerVars, procVars, watchVars, localVars
<1>1. ASSUME NEW a \in Actor, Spawn(a) PROVE (ShutUnused /\ ShutHandleDetached)'
  BY <1>1 DEF Spawn, Closing, Current, Install, StartFails, FreshHandle,
      Return, Goto, Keep, TypeOK, Places, WithMeta, Quiet, Generations,
      Registered, ShutUnused, ShutHandleDetached
<1>2. ASSUME NEW a \in Actor, StopOld(a) PROVE (ShutUnused /\ ShutHandleDetached)'
  BY <1>2 DEF StopOld, Discard, Doomed, Return, Goto, TypeOK, Places, WithMeta,
      Quiet, Generations, Registered, ShutUnused, ShutHandleDetached
<1>3. ASSUME NEW a \in Actor, Purge(a) PROVE (ShutUnused /\ ShutHandleDetached)'
  BY <1>3 DEF Purge, Acquire, Goto, TypeOK, Places, WithMeta, Quiet,
      Generations, Registered, ShutUnused, ShutHandleDetached
<1>4. ASSUME NEW a \in Actor, KillOld(a) PROVE (ShutUnused /\ ShutHandleDetached)'
  BY <1>4 DEF KillOld, Discard, Doomed, Goto, TypeOK, Places, WithMeta, Quiet,
      Generations, Registered, ShutUnused, ShutHandleDetached
<1>5. ASSUME NEW h \in Handle, Connect(h) PROVE (ShutUnused /\ ShutHandleDetached)'
  <2>1. CASE Expected(h)
    <3>1. workers[sid[madeFor[h]]] = h /\ owners[h] # Nil /\ sid[madeFor[h]] \in ID
      BY <1>5, <2>1 DEF Expected, Connect, Allocated
    <3>2. ~shut[h]
      BY <3>1 DEF ShutUnused, Registered
    <3> QED
      BY <1>5, <2>1, <3>1, <3>2
      DEF Connect, TypeOK, ShutUnused, ShutHandleDetached, Registered
  <2>2. CASE ~Expected(h)
    BY <1>5, <2>2 DEF Connect, ShutUnused, ShutHandleDetached, Registered
  <2> QED
    BY <2>1, <2>2
<1>6. ASSUME NEW h \in Handle, WatchExit(h) PROVE (ShutUnused /\ ShutHandleDetached)'
  BY <1>6 DEF WatchExit, OwnedCurrent, Current, TypeOK, Places, WithMeta,
      Quiet, Generations, Registered, ShutUnused, ShutHandleDetached
<1>7. ASSUME Leave PROVE (ShutUnused /\ ShutHandleDetached)'
  BY <1>7 DEF Leave, Lose, TypeOK, Places, WithMeta, Quiet, Generations,
      Registered, ShutUnused, ShutHandleDetached
<1>8. ASSUME Crash PROVE (ShutUnused /\ ShutHandleDetached)'
  BY <1>8 DEF Crash, Lose, TypeOK, Places, WithMeta, Quiet, Generations,
      Registered, ShutUnused, ShutHandleDetached
<1>9. ASSUME NEW a \in Caller, NEW id \in ID, CreateStart(a, id) \/
    CloseStart(a, id) PROVE (ShutUnused /\ ShutHandleDetached)'
  BY <1>9 DEF CreateStart, CloseStart, TypeOK, Places, WithMeta, Quiet,
      Generations, Registered, ShutUnused, ShutHandleDetached
<1>10. ASSUME NEW a \in Actor, NewCheck(a) \/ Insert(a) \/ Save(a) \/
    Rollback(a) \/ Unsave(a) \/ Persist(a) \/ Update(a) \/ Mark(a) \/
    MarkDisk(a) \/ SendClose(a) \/ Remove(a) PROVE (ShutUnused /\
    ShutHandleDetached)'
  BY <1>10 DEF NewCheck, Insert, Save, Rollback, Unsave, Persist, Update, Mark,
      MarkDisk, SendClose, Remove, TypeOK, Places, WithMeta, Quiet,
      Generations, Registered, ShutUnused, ShutHandleDetached
<1>11. ASSUME NEW s \in Spawner, NEW m \in Meta, ReconcileCheck(s, m) PROVE
    (ShutUnused /\ ShutHandleDetached)'
  BY <1>11 DEF ReconcileCheck, TypeOK, Places, WithMeta, Quiet, Generations,
      Registered, ShutUnused, ShutHandleDetached
<1>12. ASSUME NEW s \in Spawner, ReconcileLook(s) PROVE (ShutUnused /\
    ShutHandleDetached)'
  BY <1>12 DEF ReconcileLook, TypeOK, Places, WithMeta, Quiet, Generations,
      Registered, ShutUnused, ShutHandleDetached
<1>13. ASSUME NEW h \in Handle, Route(h) \/ Ready(h) \/ Exit(h) \/
    TimeoutCheck(h) \/ TimeoutMark(h) PROVE (ShutUnused /\ ShutHandleDetached)'
  BY <1>13 DEF Route, Ready, Exit, TimeoutCheck, TimeoutMark, TypeOK, Places,
      WithMeta, Quiet, Generations, Registered, ShutUnused, ShutHandleDetached
<1>14. ASSUME Snapshot \/ StopBegin \/ StopWait \/ StopEnd \/ Restart PROVE
    (ShutUnused /\ ShutHandleDetached)'
  BY <1>14 DEF Snapshot, StopBegin, StopWait, StopEnd, Restart, TypeOK, Places,
      WithMeta, Quiet, Generations, Registered, ShutUnused, ShutHandleDetached
<1>15. CASE UNCHANGED vars
  BY <1>15 DEF TypeOK, Places, WithMeta, Quiet, Generations, Registered,
      ShutUnused, ShutHandleDetached, vars
<1> QED
  BY <1>1, <1>2, <1>3, <1>4, <1>5, <1>6, <1>7, <1>8, <1>9, <1>10, <1>11, <1>12,
      <1>13, <1>14, <1>15 DEF Next, ActorStep, WorkerStep

\* The nonce check attaches a process to its own handle only.
LEMMA OwnStep ==
    TypeOK /\ Allocated /\ Places /\ Quiet /\ Generations /\ OwnConnection /\
        [Next]_vars => OwnConnection'
<1> SUFFICES ASSUME TypeOK, Allocated, Places, Quiet, Generations,
    OwnConnection, [Next]_vars PROVE OwnConnection'
  OBVIOUS
<1> USE DistinctAssumption DEF Actor, daemonVars, metaVars, workerVars, procVars, watchVars, localVars
<1>1. ASSUME NEW a \in Actor, StopOld(a) PROVE OwnConnection'
  BY <1>1 DEF StopOld, Discard, Doomed, Return, Goto, TypeOK, OwnConnection
<1>2. ASSUME NEW a \in Actor, KillOld(a) PROVE OwnConnection'
  BY <1>2 DEF KillOld, Discard, Doomed, Goto, TypeOK, OwnConnection
<1>3. ASSUME NEW h \in Handle, Connect(h) PROVE OwnConnection'
  BY <1>3 DEF Connect, Up, Expected, Doomed, Goto, TypeOK, OwnConnection
<1>4. ASSUME NEW h \in Handle, WatchExit(h) PROVE OwnConnection'
  BY <1>4 DEF WatchExit, OwnedCurrent, Current, TypeOK, OwnConnection
<1>5. ASSUME Leave PROVE OwnConnection'
  BY <1>5 DEF Leave, Lose, TypeOK, OwnConnection
<1>6. ASSUME Crash PROVE OwnConnection'
  BY <1>6 DEF Crash, Lose, TypeOK, OwnConnection
<1>7. ASSUME NEW a \in Caller, NEW id \in ID, CreateStart(a, id) \/
    CloseStart(a, id) PROVE OwnConnection'
  BY <1>7 DEF CreateStart, CloseStart, TypeOK, OwnConnection
<1>8. ASSUME NEW a \in Actor, NewCheck(a) \/ Insert(a) \/ Save(a) \/
    Rollback(a) \/ Unsave(a) \/ Spawn(a) \/ Persist(a) \/ Update(a) \/ Mark(a)
    \/ MarkDisk(a) \/ SendClose(a) \/ Purge(a) \/ Remove(a) PROVE
    OwnConnection'
  BY <1>8 DEF NewCheck, Insert, Save, Rollback, Unsave, Spawn, Persist, Update,
      Mark, MarkDisk, SendClose, Purge, Remove, TypeOK, OwnConnection
<1>9. ASSUME NEW s \in Spawner, NEW m \in Meta, ReconcileCheck(s, m) PROVE
    OwnConnection'
  BY <1>9 DEF ReconcileCheck, TypeOK, OwnConnection
<1>10. ASSUME NEW s \in Spawner, ReconcileLook(s) PROVE OwnConnection'
  BY <1>10 DEF ReconcileLook, TypeOK, OwnConnection
<1>11. ASSUME NEW h \in Handle, Route(h) \/ Ready(h) \/ Exit(h) \/
    TimeoutCheck(h) \/ TimeoutMark(h) PROVE OwnConnection'
  BY <1>11 DEF Route, Ready, Exit, TimeoutCheck, TimeoutMark, TypeOK,
      OwnConnection
<1>12. ASSUME Snapshot \/ StopBegin \/ StopWait \/ StopEnd \/ Restart PROVE
    OwnConnection'
  BY <1>12 DEF Snapshot, StopBegin, StopWait, StopEnd, Restart, TypeOK,
      OwnConnection
<1>13. CASE UNCHANGED vars
  BY <1>13 DEF TypeOK, OwnConnection, vars
<1> QED
  BY <1>1, <1>2, <1>3, <1>4, <1>5, <1>6, <1>7, <1>8, <1>9, <1>10, <1>11, <1>12,
      <1>13 DEF Next, ActorStep, WorkerStep

\* No step makes a closed session READY.
LEMMA ReadyStep ==
    TypeOK /\ Allocated /\ Places /\ Quiet /\ Generations /\ ClosedNeverReady
        /\ [Next]_vars => ClosedNeverReady'
<1> SUFFICES ASSUME TypeOK, Allocated, Places, Quiet, Generations,
    ClosedNeverReady, [Next]_vars PROVE ClosedNeverReady'
  OBVIOUS
<1> USE DistinctAssumption DEF Actor, daemonVars, metaVars, workerVars, procVars, watchVars, localVars
<1>1. ASSUME NEW a \in Actor, Insert(a) PROVE ClosedNeverReady'
  BY <1>1 DEF Insert, Pass, Acquire, Return, Goto, FreshMeta, TypeOK,
      Allocated, Places, WithMeta, ClosedNeverReady
<1>2. ASSUME NEW a \in Actor, Spawn(a) PROVE ClosedNeverReady'
  BY <1>2 DEF Spawn, Closing, Current, Install, StartFails, FreshHandle,
      Return, Goto, Keep, TypeOK, Allocated, Places, WithMeta, ClosedNeverReady
<1>3. ASSUME NEW a \in Actor, Mark(a) PROVE ClosedNeverReady'
  BY <1>3 DEF Mark, Current, WorkerToClose, Acquire, Pass, Return, Goto,
      TypeOK, Allocated, Places, WithMeta, ClosedNeverReady
<1>4. ASSUME NEW h \in Handle, Ready(h) PROVE ClosedNeverReady'
  BY <1>4 DEF Ready, Current, ReadyStatus, Return, Goto, Keep, TypeOK,
      Allocated, Places, WithMeta, ClosedNeverReady
<1>5. ASSUME NEW h \in Handle, WatchExit(h) PROVE ClosedNeverReady'
  BY <1>5 DEF WatchExit, OwnedCurrent, Current, TypeOK, Allocated, Places,
      WithMeta, ClosedNeverReady
<1>6. ASSUME NEW h \in Handle, TimeoutMark(h) PROVE ClosedNeverReady'
  BY <1>6 DEF TimeoutMark, TypeOK, Allocated, Places, WithMeta,
      ClosedNeverReady
<1>7. ASSUME Leave PROVE ClosedNeverReady'
  BY <1>7 DEF Leave, Lose, TypeOK, Allocated, Places, WithMeta,
      ClosedNeverReady
<1>8. ASSUME Crash PROVE ClosedNeverReady'
  BY <1>8 DEF Crash, Lose, TypeOK, Allocated, Places, WithMeta,
      ClosedNeverReady
<1>9. ASSUME NEW a \in Caller, NEW id \in ID, CreateStart(a, id) \/
    CloseStart(a, id) PROVE ClosedNeverReady'
  BY <1>9 DEF CreateStart, CloseStart, TypeOK, Allocated, Places, WithMeta,
      ClosedNeverReady
<1>10. ASSUME NEW a \in Actor, NewCheck(a) \/ Save(a) \/ Rollback(a) \/
    Unsave(a) \/ StopOld(a) \/ Persist(a) \/ Update(a) \/ MarkDisk(a) \/
    SendClose(a) \/ Purge(a) \/ Remove(a) \/ KillOld(a) PROVE ClosedNeverReady'
  BY <1>10 DEF NewCheck, Save, Rollback, Unsave, StopOld, Persist, Update,
      MarkDisk, SendClose, Purge, Remove, KillOld, TypeOK, Allocated, Places,
      WithMeta, ClosedNeverReady
<1>11. ASSUME NEW s \in Spawner, NEW m \in Meta, ReconcileCheck(s, m) PROVE
    ClosedNeverReady'
  BY <1>11 DEF ReconcileCheck, TypeOK, Allocated, Places, WithMeta,
      ClosedNeverReady
<1>12. ASSUME NEW s \in Spawner, ReconcileLook(s) PROVE ClosedNeverReady'
  BY <1>12 DEF ReconcileLook, TypeOK, Allocated, Places, WithMeta,
      ClosedNeverReady
<1>13. ASSUME NEW h \in Handle, Connect(h) \/ Route(h) \/ Exit(h) \/
    TimeoutCheck(h) PROVE ClosedNeverReady'
  BY <1>13 DEF Connect, Route, Exit, TimeoutCheck, TypeOK, Allocated, Places,
      WithMeta, ClosedNeverReady
<1>14. ASSUME Snapshot \/ StopBegin \/ StopWait \/ StopEnd \/ Restart PROVE
    ClosedNeverReady'
  BY <1>14 DEF Snapshot, StopBegin, StopWait, StopEnd, Restart, TypeOK,
      Allocated, Places, WithMeta, ClosedNeverReady
<1>15. CASE UNCHANGED vars
  BY <1>15 DEF TypeOK, Allocated, Places, WithMeta, ClosedNeverReady, vars
<1> QED
  BY <1>1, <1>2, <1>3, <1>4, <1>5, <1>6, <1>7, <1>8, <1>9, <1>10, <1>11, <1>12,
      <1>13, <1>14, <1>15 DEF Next, ActorStep, WorkerStep

\* A worker that leaves the registry is on somebody's list to be killed.
LEMMA StrayStep ==
    TypeOK /\ Allocated /\ Places /\ Quiet /\ Generations /\ NoStrayWorker /\
        [Next]_vars => NoStrayWorker'
<1> SUFFICES ASSUME TypeOK, Allocated, Places, Quiet, Generations,
    NoStrayWorker, [Next]_vars PROVE NoStrayWorker'
  OBVIOUS
<1> USE DistinctAssumption DEF Actor, daemonVars, metaVars, workerVars, procVars, watchVars, localVars
<1>1. ASSUME NEW a \in Caller, NEW id \in ID, CreateStart(a, id) PROVE NoStrayWorker'
  BY <1>1 DEF CreateStart, Up, Goto, TypeOK, Places, WithMeta, Registered,
      AboutToKill, NoStrayWorker
<1>2. ASSUME NEW a \in Caller, NEW id \in ID, CloseStart(a, id) PROVE NoStrayWorker'
  BY <1>2 DEF CloseStart, Up, Goto, TypeOK, Places, WithMeta, Registered,
      AboutToKill, NoStrayWorker
<1>3. ASSUME NEW a \in Actor, NewCheck(a) PROVE NoStrayWorker'
  BY <1>3, SMTT(30) DEF NewCheck, Return, Goto, Keep, TypeOK, Places, WithMeta,
      Registered, AboutToKill, NoStrayWorker
<1>4. ASSUME NEW a \in Actor, Insert(a) PROVE NoStrayWorker'
  BY <1>4, SMTT(30) DEF Insert, Pass, Acquire, Return, Goto, FreshMeta, TypeOK, Places,
      WithMeta, Registered, AboutToKill, NoStrayWorker
<1>5. ASSUME NEW a \in Actor, Save(a) PROVE NoStrayWorker'
  BY <1>5 DEF Save, Release, Goto, Keep, TypeOK, Places, WithMeta, Registered,
      AboutToKill, NoStrayWorker
<1>6. ASSUME NEW a \in Actor, Rollback(a) PROVE NoStrayWorker'
  BY <1>6, SMTT(30) DEF Rollback, Current, Pass, Acquire, Return, Goto, Keep, TypeOK,
      Places, WithMeta, Registered, AboutToKill, NoStrayWorker
<1>7. ASSUME NEW a \in Actor, Unsave(a) PROVE NoStrayWorker'
  BY <1>7 DEF Unsave, Release, Return, Goto, TypeOK, Places, WithMeta,
      Registered, AboutToKill, NoStrayWorker
<1>8. ASSUME NEW a \in Actor, Spawn(a) PROVE NoStrayWorker'
  <2>1. \A b \in Actor \ {a} : pc'[b] = pc[b] /\ aold'[b] = aold[b]
    BY <1>8 DEF Spawn, Return, Goto, Keep, TypeOK
  <2>2. pc[a] = "spawn" /\ aid[a] \in ID /\ sid[ameta[a]] = aid[a]
    BY <1>8 DEF Spawn, Places, WithMeta
  <2>3. CASE UNCHANGED <<workers, proc>>
    BY <2>1, <2>2, <2>3 DEF NoStrayWorker, AboutToKill, Registered
  <2>4. CASE ~UNCHANGED <<workers, proc>>
    <3>1. pc'[a] = "stopold" /\ aold'[a] = workers[aid[a]]
      BY <1>8, <2>4 DEF Spawn, Goto, TypeOK
    <3>2. \A id \in ID \ {aid[a]} : workers'[id] = workers[id]
      BY <1>8, <2>2 DEF Spawn, Install, StartFails, TypeOK
    <3>3. \A h \in Handle : proc'[h] = "running" =>
            proc[h] = "running" \/ workers'[aid[a]] = h
      BY <1>8, <2>2 DEF Spawn, Install, StartFails, TypeOK
    <3> QED
      BY <2>1, <2>2, <3>1, <3>2, <3>3 DEF NoStrayWorker, AboutToKill, Registered
  <2> QED
    BY <2>3, <2>4
<1>9. ASSUME NEW a \in Actor, StopOld(a) PROVE NoStrayWorker'
  BY <1>9, SMTT(30) DEF StopOld, Discard, Doomed, Return, Goto, TypeOK, Places, WithMeta,
      Registered, AboutToKill, NoStrayWorker
<1>10. ASSUME NEW a \in Actor, Persist(a) PROVE NoStrayWorker'
  BY <1>10 DEF Persist, Persistable, Current, Acquire, Pass, AfterPersist,
      Return, Goto, Keep, TypeOK, Places, WithMeta, Registered, AboutToKill,
      NoStrayWorker
<1>11. ASSUME NEW a \in Actor, Update(a) PROVE NoStrayWorker'
  BY <1>11 DEF Update, Release, AfterPersist, Return, Goto, TypeOK,
      Places, WithMeta, Registered, AboutToKill, NoStrayWorker
<1>12. ASSUME NEW a \in Actor, Mark(a) PROVE NoStrayWorker'
  BY <1>12, SMTT(30) DEF Mark, Current, WorkerToClose, Acquire, Pass, Return, Goto,
      TypeOK, Places, WithMeta, Registered, AboutToKill, NoStrayWorker
<1>13. ASSUME NEW a \in Actor, MarkDisk(a) PROVE NoStrayWorker'
  <2>1. \A b \in Actor \ {a} : pc'[b] = pc[b] /\ aold'[b] = aold[b]
    BY <1>13 DEF MarkDisk, Return, Goto, Keep, TypeOK
  <2>2. pc[a] = "markdisk" /\ workers' = workers /\ proc' = proc
    BY <1>13 DEF MarkDisk
  <2> QED
    BY <2>1, <2>2 DEF NoStrayWorker, AboutToKill, Registered
<1>14. ASSUME NEW a \in Actor, SendClose(a) PROVE NoStrayWorker'
  BY <1>14, SMTT(30) DEF SendClose, Doomed, Return, Goto, TypeOK, Places, WithMeta,
      Registered, AboutToKill, NoStrayWorker
<1>15. ASSUME NEW a \in Actor, Purge(a) PROVE NoStrayWorker'
  BY <1>15 DEF Purge, Acquire, Goto, TypeOK, Places, WithMeta, Registered,
      AboutToKill, NoStrayWorker
<1>16. ASSUME NEW a \in Actor, Remove(a) PROVE NoStrayWorker'
  BY <1>16 DEF Remove, Release, Goto, Keep, TypeOK, Places, WithMeta,
      Registered, AboutToKill, NoStrayWorker
<1>17. ASSUME NEW a \in Actor, KillOld(a) PROVE NoStrayWorker'
  BY <1>17 DEF KillOld, Discard, Doomed, Goto, TypeOK, Places, WithMeta,
      Registered, AboutToKill, NoStrayWorker
<1>18. ASSUME NEW s \in Spawner, NEW m \in Meta, ReconcileCheck(s, m) PROVE NoStrayWorker'
  BY <1>18, SMTT(30) DEF ReconcileCheck, Goto, TypeOK, Places, WithMeta, Registered,
      AboutToKill, NoStrayWorker
<1>19. ASSUME NEW s \in Spawner, ReconcileLook(s) PROVE NoStrayWorker'
  BY <1>19, SMTT(30) DEF ReconcileLook, Goto, Keep, Return, TypeOK, Places, WithMeta,
      Registered, AboutToKill, NoStrayWorker
<1>20. ASSUME NEW h \in Handle, Connect(h) PROVE NoStrayWorker'
  BY <1>20, SMTT(30) DEF Connect, Up, Expected, Doomed, Goto, TypeOK, Places, WithMeta,
      Registered, AboutToKill, NoStrayWorker
<1>21. ASSUME NEW h \in Handle, Route(h) PROVE NoStrayWorker'
  BY <1>21 DEF Route, Current, Goto, Keep, Return, TypeOK, Places, WithMeta,
      Registered, AboutToKill, NoStrayWorker
<1>22. ASSUME NEW h \in Handle, Ready(h) PROVE NoStrayWorker'
  BY <1>22, SMTT(30) DEF Ready, Current, ReadyStatus, Return, Goto, Keep, TypeOK, Places,
      WithMeta, Registered, AboutToKill, NoStrayWorker
<1>23. ASSUME NEW h \in Handle, Exit(h) PROVE NoStrayWorker'
  BY <1>23 DEF Exit, TypeOK, Places, WithMeta, Registered, AboutToKill,
      NoStrayWorker
<1>24. ASSUME NEW h \in Handle, WatchExit(h) PROVE NoStrayWorker'
  BY <1>24 DEF WatchExit, OwnedCurrent, Current, TypeOK, Places, WithMeta,
      Registered, AboutToKill, NoStrayWorker
<1>25. ASSUME StopWait PROVE NoStrayWorker'
  BY <1>25 DEF StopWait, WorkerSet, Doomed, TypeOK, Places, WithMeta,
      Registered, AboutToKill, NoStrayWorker
<1>26. ASSUME Leave PROVE NoStrayWorker'
  BY <1>26 DEF Leave, Lose, TypeOK, Places, WithMeta, Registered, AboutToKill,
      NoStrayWorker
<1>27. ASSUME Crash PROVE NoStrayWorker'
  BY <1>27 DEF Crash, Lose, TypeOK, Places, WithMeta, Registered, AboutToKill,
      NoStrayWorker
<1>28. ASSUME Restart PROVE NoStrayWorker'
  BY <1>28 DEF Restart, NoStrayWorker, AboutToKill, Registered
<1>29. ASSUME NEW h \in Handle, TimeoutCheck(h) \/ TimeoutMark(h) PROVE
    NoStrayWorker'
  BY <1>29 DEF TimeoutCheck, TimeoutMark, TypeOK, Places, WithMeta, Registered,
      AboutToKill, NoStrayWorker
<1>30. ASSUME Snapshot \/ StopBegin \/ StopEnd PROVE NoStrayWorker'
  BY <1>30, SMTT(30) DEF Snapshot, StopBegin, StopEnd, TypeOK, Places, WithMeta,
      Registered, AboutToKill, NoStrayWorker
<1>31. CASE UNCHANGED vars
  BY <1>31 DEF TypeOK, Places, WithMeta, Registered, AboutToKill,
      NoStrayWorker, vars
<1> QED
  BY <1>1, <1>2, <1>3, <1>4, <1>5, <1>6, <1>7, <1>8, <1>9, <1>10, <1>11, <1>12,
      <1>13, <1>14, <1>15, <1>16, <1>17, <1>18, <1>19, <1>20, <1>21, <1>22,
      <1>23, <1>24, <1>25, <1>26, <1>27, <1>28, <1>29, <1>30, <1>31 DEF Next,
      ActorStep, WorkerStep

\* A session is rolled back only after Stop has begun.
LEMMA RollbackStep ==
    TypeOK /\ Places /\ Quiet /\ RollbackOnlyClosing /\ [Next]_vars =>
        RollbackOnlyClosing'
<1> SUFFICES ASSUME TypeOK, Places, Quiet, RollbackOnlyClosing, [Next]_vars
    PROVE RollbackOnlyClosing'
  OBVIOUS
<1> USE DistinctAssumption DEF Actor, daemonVars, metaVars, workerVars, procVars, watchVars, localVars
<1>1. ASSUME NEW a \in Caller, NEW id \in ID, CreateStart(a, id) PROVE RollbackOnlyClosing'
  BY <1>1 DEF CreateStart, Up, Goto, TypeOK, Quiet, RollbackOnlyClosing
<1>2. ASSUME NEW a \in Caller, NEW id \in ID, CloseStart(a, id) PROVE RollbackOnlyClosing'
  BY <1>2 DEF CloseStart, Up, Goto, TypeOK, Quiet, RollbackOnlyClosing
<1>3. ASSUME NEW a \in Actor, NewCheck(a) PROVE RollbackOnlyClosing'
  BY <1>3 DEF NewCheck, Return, Goto, Keep, TypeOK, Quiet, RollbackOnlyClosing
<1>4. ASSUME NEW a \in Actor, Insert(a) PROVE RollbackOnlyClosing'
  BY <1>4 DEF Insert, Pass, Acquire, Return, Goto, FreshMeta, TypeOK, Quiet,
      RollbackOnlyClosing
<1>5. ASSUME NEW a \in Actor, Save(a) PROVE RollbackOnlyClosing'
  BY <1>5 DEF Save, Release, Goto, Keep, TypeOK, Quiet, RollbackOnlyClosing
<1>6. ASSUME NEW a \in Actor, Rollback(a) PROVE RollbackOnlyClosing'
  BY <1>6 DEF Rollback, Current, Pass, Acquire, Return, Goto, Keep, TypeOK,
      Quiet, RollbackOnlyClosing
<1>7. ASSUME NEW a \in Actor, Unsave(a) PROVE RollbackOnlyClosing'
  BY <1>7 DEF Unsave, Release, Return, Goto, TypeOK, Quiet, RollbackOnlyClosing
<1>8. ASSUME NEW a \in Actor, Spawn(a) PROVE RollbackOnlyClosing'
  BY <1>8 DEF Spawn, Closing, Current, Install, StartFails, FreshHandle,
      Return, Goto, Keep, TypeOK, Quiet, RollbackOnlyClosing
<1>9. ASSUME NEW a \in Actor, StopOld(a) PROVE RollbackOnlyClosing'
  BY <1>9 DEF StopOld, Discard, Doomed, Return, Goto, TypeOK, Quiet,
      RollbackOnlyClosing
<1>10. ASSUME NEW a \in Actor, Persist(a) PROVE RollbackOnlyClosing'
  BY <1>10 DEF Persist, Persistable, Current, Acquire, Pass, AfterPersist,
      Return, Goto, Keep, TypeOK, Quiet, RollbackOnlyClosing
<1>11. ASSUME NEW a \in Actor, Update(a) PROVE RollbackOnlyClosing'
  BY <1>11 DEF Update, Release, AfterPersist, Return, Goto, TypeOK,
      Quiet, RollbackOnlyClosing
<1>12. ASSUME NEW a \in Actor, Mark(a) PROVE RollbackOnlyClosing'
  BY <1>12 DEF Mark, Current, WorkerToClose, Acquire, Pass, Return, Goto,
      TypeOK, Quiet, RollbackOnlyClosing
<1>13. ASSUME NEW a \in Actor, MarkDisk(a) PROVE RollbackOnlyClosing'
  BY <1>13 DEF MarkDisk, Release, Return, Goto, Keep, TypeOK, Quiet,
      RollbackOnlyClosing
<1>14. ASSUME NEW a \in Actor, SendClose(a) PROVE RollbackOnlyClosing'
  BY <1>14 DEF SendClose, Doomed, Return, Goto, TypeOK, Quiet,
      RollbackOnlyClosing
<1>15. ASSUME NEW a \in Actor, Purge(a) PROVE RollbackOnlyClosing'
  BY <1>15 DEF Purge, Acquire, Goto, TypeOK, Quiet, RollbackOnlyClosing
<1>16. ASSUME NEW a \in Actor, Remove(a) PROVE RollbackOnlyClosing'
  BY <1>16 DEF Remove, Release, Goto, Keep, TypeOK, Quiet, RollbackOnlyClosing
<1>17. ASSUME NEW a \in Actor, KillOld(a) PROVE RollbackOnlyClosing'
  BY <1>17 DEF KillOld, Discard, Doomed, Goto, TypeOK, Quiet,
      RollbackOnlyClosing
<1>18. ASSUME NEW s \in Spawner, NEW m \in Meta, ReconcileCheck(s, m) PROVE RollbackOnlyClosing'
  BY <1>18 DEF ReconcileCheck, Goto, TypeOK, Quiet, RollbackOnlyClosing
<1>19. ASSUME NEW s \in Spawner, ReconcileLook(s) PROVE RollbackOnlyClosing'
  BY <1>19 DEF ReconcileLook, Goto, Keep, Return, TypeOK, Quiet,
      RollbackOnlyClosing
<1>20. ASSUME NEW h \in Handle, Connect(h) PROVE RollbackOnlyClosing'
  BY <1>20 DEF Connect, Up, Expected, Doomed, Goto, TypeOK, Quiet,
      RollbackOnlyClosing
<1>21. ASSUME NEW h \in Handle, Route(h) PROVE RollbackOnlyClosing'
  BY <1>21 DEF Route, Current, Goto, Keep, Return, TypeOK, Quiet,
      RollbackOnlyClosing
<1>22. ASSUME NEW h \in Handle, Ready(h) PROVE RollbackOnlyClosing'
  BY <1>22 DEF Ready, Current, ReadyStatus, Return, Goto, Keep, TypeOK, Quiet,
      RollbackOnlyClosing
<1>23. ASSUME StopBegin PROVE RollbackOnlyClosing'
  BY <1>23 DEF StopBegin, TypeOK, Quiet, RollbackOnlyClosing
<1>24. ASSUME StopWait PROVE RollbackOnlyClosing'
  BY <1>24 DEF StopWait, WorkerSet, Doomed, TypeOK, Quiet, RollbackOnlyClosing
<1>25. ASSUME StopEnd PROVE RollbackOnlyClosing'
  BY <1>25 DEF StopEnd, TypeOK, Quiet, RollbackOnlyClosing
<1>26. ASSUME Leave PROVE RollbackOnlyClosing'
  BY <1>26 DEF Leave, Lose, TypeOK, Quiet, RollbackOnlyClosing
<1>27. ASSUME Crash PROVE RollbackOnlyClosing'
  BY <1>27 DEF Crash, Lose, TypeOK, Quiet, RollbackOnlyClosing
<1>28. ASSUME Restart PROVE RollbackOnlyClosing'
  BY <1>28 DEF Restart, Restorable, FreshMeta, TypeOK, Quiet,
      RollbackOnlyClosing
<1>29. ASSUME NEW h \in Handle, Exit(h) \/ WatchExit(h) \/ TimeoutCheck(h) \/
    TimeoutMark(h) PROVE RollbackOnlyClosing'
  BY <1>29 DEF Exit, WatchExit, TimeoutCheck, TimeoutMark, TypeOK, Quiet,
      RollbackOnlyClosing
<1>30. ASSUME Snapshot PROVE RollbackOnlyClosing'
  BY <1>30 DEF Snapshot, TypeOK, Quiet, RollbackOnlyClosing
<1>31. CASE UNCHANGED vars
  BY <1>31 DEF TypeOK, Quiet, RollbackOnlyClosing, vars
<1> QED
  BY <1>1, <1>2, <1>3, <1>4, <1>5, <1>6, <1>7, <1>8, <1>9, <1>10, <1>11, <1>12,
      <1>13, <1>14, <1>15, <1>16, <1>17, <1>18, <1>19, <1>20, <1>21, <1>22,
      <1>23, <1>24, <1>25, <1>26, <1>27, <1>28, <1>29, <1>30, <1>31 DEF Next,
      ActorStep, WorkerStep

\* Registering, replacing and purging keep the two registries in step.
LEMMA MatchStep ==
    TypeOK /\ Allocated /\ Places /\ Quiet /\ Generations /\
        RollbackOnlyClosing /\ WorkerOfCurrentSession /\ [Next]_vars =>
        WorkerOfCurrentSession'
<1> SUFFICES ASSUME TypeOK, Allocated, Places, Quiet, Generations,
    RollbackOnlyClosing, WorkerOfCurrentSession, [Next]_vars PROVE
    WorkerOfCurrentSession'
  OBVIOUS
<1> USE DistinctAssumption DEF Actor, daemonVars, metaVars, workerVars, procVars, watchVars, localVars
<1>1. ASSUME NEW a \in Actor, Insert(a) PROVE WorkerOfCurrentSession'
  BY <1>1 DEF Insert, Pass, Acquire, Return, Goto, FreshMeta, TypeOK,
      Allocated, Places, WithMeta, Quiet, Generations, Registered,
      RollbackOnlyClosing, WorkerOfCurrentSession
<1>2. ASSUME NEW a \in Actor, Rollback(a) PROVE WorkerOfCurrentSession'
  BY <1>2 DEF Rollback, Current, Pass, Acquire, Return, Goto, Keep, TypeOK,
      Allocated, Places, WithMeta, Quiet, Generations, Registered,
      RollbackOnlyClosing, WorkerOfCurrentSession
<1>3. ASSUME NEW a \in Actor, Spawn(a) PROVE WorkerOfCurrentSession'
  BY <1>3 DEF Spawn, Closing, Current, Install, StartFails, FreshHandle,
      Return, Goto, Keep, TypeOK, Allocated, Places, WithMeta, Quiet,
      Generations, Registered, RollbackOnlyClosing, WorkerOfCurrentSession
<1>4. ASSUME NEW a \in Actor, Purge(a) PROVE WorkerOfCurrentSession'
  BY <1>4 DEF Purge, Acquire, Goto, TypeOK, Allocated, Places, WithMeta, Quiet,
      Generations, Registered, RollbackOnlyClosing, WorkerOfCurrentSession
<1>5. ASSUME NEW h \in Handle, WatchExit(h) PROVE WorkerOfCurrentSession'
  BY <1>5 DEF WatchExit, OwnedCurrent, Current, TypeOK, Allocated, Places,
      WithMeta, Quiet, Generations, Registered, RollbackOnlyClosing,
      WorkerOfCurrentSession
<1>6. ASSUME StopBegin PROVE WorkerOfCurrentSession'
  BY <1>6 DEF StopBegin, TypeOK, Allocated, Places, WithMeta, Quiet,
      Generations, Registered, RollbackOnlyClosing, WorkerOfCurrentSession
<1>7. ASSUME StopWait PROVE WorkerOfCurrentSession'
  BY <1>7 DEF StopWait, WorkerSet, Doomed, TypeOK, Allocated, Places, WithMeta,
      Quiet, Generations, Registered, RollbackOnlyClosing,
      WorkerOfCurrentSession
<1>8. ASSUME StopEnd PROVE WorkerOfCurrentSession'
  BY <1>8 DEF StopEnd, TypeOK, Allocated, Places, WithMeta, Quiet, Generations,
      Registered, RollbackOnlyClosing, WorkerOfCurrentSession
<1>9. ASSUME Leave PROVE WorkerOfCurrentSession'
  BY <1>9 DEF Leave, Lose, TypeOK, Allocated, Places, WithMeta, Quiet,
      Generations, Registered, RollbackOnlyClosing, WorkerOfCurrentSession
<1>10. ASSUME Crash PROVE WorkerOfCurrentSession'
  BY <1>10 DEF Crash, Lose, TypeOK, Allocated, Places, WithMeta, Quiet,
      Generations, Registered, RollbackOnlyClosing, WorkerOfCurrentSession
<1>11. ASSUME Restart PROVE WorkerOfCurrentSession'
  BY <1>11 DEF Restart, Restorable, FreshMeta, TypeOK, Allocated, Places,
      WithMeta, Quiet, Generations, Registered, RollbackOnlyClosing,
      WorkerOfCurrentSession
<1>12. ASSUME NEW a \in Caller, NEW id \in ID, CreateStart(a, id) \/
    CloseStart(a, id) PROVE WorkerOfCurrentSession'
  BY <1>12 DEF CreateStart, CloseStart, TypeOK, Allocated, Places, WithMeta,
      Quiet, Generations, Registered, RollbackOnlyClosing,
      WorkerOfCurrentSession
<1>13. ASSUME NEW a \in Actor, NewCheck(a) \/ Save(a) \/ Unsave(a) \/
    StopOld(a) \/ Persist(a) \/ Update(a) \/ Mark(a) \/ MarkDisk(a) \/
    SendClose(a) \/ Remove(a) \/ KillOld(a) PROVE WorkerOfCurrentSession'
  BY <1>13 DEF NewCheck, Save, Unsave, StopOld, Persist, Update, Mark,
      MarkDisk, SendClose, Remove, KillOld, TypeOK, Allocated, Places,
      WithMeta, Quiet, Generations, Registered, RollbackOnlyClosing,
      WorkerOfCurrentSession
<1>14. ASSUME NEW s \in Spawner, NEW m \in Meta, ReconcileCheck(s, m) PROVE
    WorkerOfCurrentSession'
  BY <1>14 DEF ReconcileCheck, TypeOK, Allocated, Places, WithMeta, Quiet,
      Generations, Registered, RollbackOnlyClosing, WorkerOfCurrentSession
<1>15. ASSUME NEW s \in Spawner, ReconcileLook(s) PROVE WorkerOfCurrentSession'
  BY <1>15 DEF ReconcileLook, TypeOK, Allocated, Places, WithMeta, Quiet,
      Generations, Registered, RollbackOnlyClosing, WorkerOfCurrentSession
<1>16. ASSUME NEW h \in Handle, Connect(h) \/ Route(h) \/ Ready(h) \/ Exit(h)
    \/ TimeoutCheck(h) \/ TimeoutMark(h) PROVE WorkerOfCurrentSession'
  BY <1>16 DEF Connect, Route, Ready, Exit, TimeoutCheck, TimeoutMark, TypeOK,
      Allocated, Places, WithMeta, Quiet, Generations, Registered,
      RollbackOnlyClosing, WorkerOfCurrentSession
<1>17. ASSUME Snapshot PROVE WorkerOfCurrentSession'
  BY <1>17 DEF Snapshot, TypeOK, Allocated, Places, WithMeta, Quiet,
      Generations, Registered, RollbackOnlyClosing, WorkerOfCurrentSession
<1>18. CASE UNCHANGED vars
  BY <1>18 DEF TypeOK, Allocated, Places, WithMeta, Quiet, Generations,
      Registered, RollbackOnlyClosing, WorkerOfCurrentSession, vars
<1> QED
  BY <1>1, <1>2, <1>3, <1>4, <1>5, <1>6, <1>7, <1>8, <1>9, <1>10, <1>11, <1>12,
      <1>13, <1>14, <1>15, <1>16, <1>17, <1>18 DEF Next, ActorStep, WorkerStep

\* From the snapshot of waitForWorkersExit on, nothing that is registered runs
\* on: what was registered was told to go, and nothing is registered any more.
Stopping ==
    daemon \in {"waiting", "stopped"} =>
        \A id \in ID : workers[id] # Nil => proc[workers[id]] # "running"

\* Every step keeps Stopping.
LEMMA StoppingStep ==
    TypeOK /\ TypeOK' /\ Stopping /\ [Next]_vars => Stopping'
<1> SUFFICES ASSUME TypeOK, TypeOK', Stopping, [Next]_vars PROVE Stopping'
  OBVIOUS
<1> USE DistinctAssumption DEF daemonVars, workerVars, procVars, Stopping
<1>1. ASSUME NEW a \in Actor, Spawn(a) PROVE Stopping'
  BY <1>1 DEF Spawn, Closing
<1>2. ASSUME NEW a \in Actor, StopOld(a) \/ KillOld(a) PROVE Stopping'
  BY <1>2 DEF StopOld, KillOld, Discard, Doomed, TypeOK
<1>3. ASSUME NEW a \in Actor, SendClose(a) PROVE Stopping'
  BY <1>3 DEF SendClose, Doomed, TypeOK
<1>4. ASSUME NEW a \in Actor, Purge(a) PROVE Stopping'
  BY <1>4 DEF Purge, TypeOK
<1>5. ASSUME NEW h \in Handle, Connect(h) PROVE Stopping'
  BY <1>5 DEF Connect, Doomed, TypeOK
<1>6. ASSUME NEW h \in Handle, Exit(h) PROVE Stopping'
  BY <1>6 DEF Exit, TypeOK
<1>7. ASSUME NEW h \in Handle, WatchExit(h) PROVE Stopping'
  BY <1>7 DEF WatchExit, TypeOK
<1>8. CASE StopWait
  <2>1. \A id \in ID : workers'[id] # Nil => workers[id] \in WorkerSet
    BY <1>8 DEF StopWait, WorkerSet
  <2>2. \A h \in Handle : h \in WorkerSet => proc'[h] = Doomed(proc[h])
    BY <1>8 DEF StopWait
  <2> QED
    BY <1>8, <2>1, <2>2 DEF StopWait, Doomed, TypeOK
<1>9. CASE StopEnd
  BY <1>9 DEF StopEnd
<1>10. CASE StopBegin \/ Leave \/ Crash \/ Restart
  BY <1>10 DEF StopBegin, Leave, Crash, Lose, Restart
<1>11. ASSUME NEW a \in Caller, NEW id \in ID, CreateStart(a, id) \/
    CloseStart(a, id) PROVE Stopping'
  BY <1>11 DEF CreateStart, CloseStart
<1>12. ASSUME NEW a \in Actor, NewCheck(a) \/ Insert(a) \/ Save(a) \/
    Rollback(a) \/ Unsave(a) \/ Persist(a) \/ Update(a) \/ Mark(a) \/
    MarkDisk(a) \/ Remove(a) PROVE Stopping'
  BY <1>12 DEF NewCheck, Insert, Save, Rollback, Unsave, Persist, Update, Mark,
      MarkDisk, Remove
<1>13. ASSUME NEW s \in Spawner, NEW m \in Meta, ReconcileCheck(s, m)
       PROVE  Stopping'
  BY <1>13 DEF ReconcileCheck
<1>14. ASSUME NEW s \in Spawner, ReconcileLook(s) PROVE Stopping'
  BY <1>14 DEF ReconcileLook
<1>15. ASSUME NEW h \in Handle, Route(h) \/ Ready(h) \/ TimeoutCheck(h) \/
    TimeoutMark(h) PROVE Stopping'
  BY <1>15 DEF Route, Ready, TimeoutCheck, TimeoutMark
<1>16. CASE Snapshot
  BY <1>16 DEF Snapshot
<1>17. CASE UNCHANGED vars
  BY <1>17 DEF vars
<1> QED
  BY <1>1, <1>2, <1>3, <1>4, <1>5, <1>6, <1>7, <1>8, <1>9, <1>10, <1>11, <1>12,
      <1>13, <1>14, <1>15, <1>16, <1>17 DEF Next, ActorStep, WorkerStep

-----------------------------------------------------------------------------
(* The inductive invariants: Core is about sessions, files and locks, and    *)
(* Workers, which rests on it, about worker generations.                     *)

Core ==
    TypeOK /\ Allocated /\ Places /\ Locking /\ Quiet /\ Held /\ DiskAgrees

Workers ==
    /\ Generations /\ ShutUnused /\ ShutHandleDetached /\ OwnConnection
    /\ ClosedNeverReady /\ NoStrayWorker /\ RollbackOnlyClosing
    /\ WorkerOfCurrentSession

\* The daemon starts with empty registries, idle goroutines and no files.
LEMMA InitInvariant == Init => Core /\ Workers
  <1> SUFFICES ASSUME Init PROVE Core /\ Workers
    OBVIOUS
  <1> USE DistinctAssumption, BoundAssumption DEF Init
  <1>1. TypeOK
    BY DEF TypeOK, Status, PC, Record
  <1>2. Allocated /\ Places /\ Locking /\ Quiet
    BY DEF Allocated, Places, WithMeta, Locking, Locked, Quiet
  <1>3. Held /\ DiskAgrees
    BY DEF Held, HeldAt, DiskAgrees, FileAgrees
  <1>4. Generations /\ ShutUnused /\ ShutHandleDetached /\ OwnConnection
    BY DEF Generations, Registered, ShutUnused, ShutHandleDetached, OwnConnection, Actor
  <1>5. ClosedNeverReady /\ NoStrayWorker /\ RollbackOnlyClosing
    BY DEF ClosedNeverReady, NoStrayWorker, RollbackOnlyClosing
  <1>6. WorkerOfCurrentSession
    BY DEF WorkerOfCurrentSession
  <1> QED
    BY <1>1, <1>2, <1>3, <1>4, <1>5, <1>6 DEF Core, Workers

\* Core holds in every reachable state.
THEOREM CoreInvariance == Spec => []Core
  <1>1. Init => Core
    BY InitInvariant
  <1>2. Core /\ [Next]_vars => Core'
    BY TypeStep, AllocatedStep, PlacesStep, LockingStep, QuietStep, HeldStep, DiskStep
    DEF Core
  <1> QED
    BY <1>1, <1>2, PTL DEF Spec

\* Workers holds in every reachable state.
THEOREM WorkersInvariance == Spec => []Workers
  <1>1. Init => Workers
    BY InitInvariant
  <1>2. Core /\ Workers /\ [Next]_vars => Workers'
    BY GenerationsStep, ShutStep, OwnStep, ReadyStep, StrayStep, RollbackStep, MatchStep
    DEF Core, Workers
  <1> QED
    BY <1>1, <1>2, CoreInvariance, PTL DEF Spec

\* Every variable keeps its type.
THEOREM TypeCorrect == Spec => []TypeOK
  BY CoreInvariance, PTL DEF Core

\* Between operations on an ID its file and the registry agree, through
\* concurrent requests, crashes and restarts.
THEOREM DiskAgreesTheorem == Spec => []DiskAgrees
  BY CoreInvariance, PTL DEF Core

\* An update keyed by session ID never reaches the file of another session.
THEOREM NoForeignUpdateTheorem == Spec => []NoForeignUpdate
  <1>1. Core => NoForeignUpdate
    <2> SUFFICES ASSUME Core, NEW a \in Actor, pc[a] = "update"
                 PROVE  /\ disk[aid[a]] # Nil
                        /\ disk[aid[a]].origin = origin[ameta[a]]
                        /\ ~disk[aid[a]].closed
      BY DEF NoForeignUpdate
    <2>1. disk[aid[a]] = [origin |-> origin[ameta[a]], closed |-> FALSE]
      BY DEF Core, Held, HeldAt
    <2>2. origin[ameta[a]] \in Meta
      BY DistinctAssumption DEF Core, Places, WithMeta, Allocated
    <2>3. disk[aid[a]] # Nil
      <3>1. [origin |-> origin[ameta[a]], closed |-> FALSE] \in Record
        BY <2>2 DEF Record
      <3> QED
        BY <2>1, <3>1, RecordAssumption
    <2> QED
      BY <2>1, <2>3
  <1> QED
    BY <1>1, CoreInvariance, PTL

\* The registered worker of an ID belongs to the registered session.
THEOREM WorkerOfCurrentSessionTheorem == Spec => []WorkerOfCurrentSession
  BY WorkersInvariance, PTL DEF Workers

\* No running worker is forgotten by its daemon.
THEOREM NoStrayWorkerTheorem == Spec => []NoStrayWorker
  BY WorkersInvariance, PTL DEF Workers

\* A shut handle never gets a connection again.
THEOREM ShutHandleDetachedTheorem == Spec => []ShutHandleDetached
  BY WorkersInvariance, PTL DEF Workers

\* A connection leads to the process its handle was made for.
THEOREM OwnConnectionTheorem == Spec => []OwnConnection
  BY WorkersInvariance, PTL DEF Workers

\* A closed session is never READY.
THEOREM ClosedNeverReadyTheorem == Spec => []ClosedNeverReady
  BY WorkersInvariance, PTL DEF Workers

\* When Stop has returned no worker runs on, whatever was being created,
\* spawned, replaced or purged when it began.
THEOREM StoppedLeavesNoWorkerTheorem == Spec => []StoppedLeavesNoWorker
  <1>1. Init => Stopping
    BY DEF Init, Stopping
  <1>2. Core /\ Core' /\ Stopping /\ [Next]_vars => Stopping'
    BY StoppingStep DEF Core
  <1>3. Workers /\ Stopping => StoppedLeavesNoWorker
    BY DistinctAssumption
    DEF Workers, NoStrayWorker, Stopping, StoppedLeavesNoWorker, Registered
  <1> QED
    BY <1>1, <1>2, <1>3, CoreInvariance, WorkersInvariance, PTL DEF Spec

=============================================================================
