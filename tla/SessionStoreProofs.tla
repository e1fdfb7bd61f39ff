-------------------------- MODULE SessionStoreProofs --------------------------
(***************************************************************************)
(* The session files under competing operations, failed file operations    *)
(* and crashes: the invariant and its proof, for any number of IDs,        *)
(* goroutines, sessions, failures and crashes.                             *)
(***************************************************************************)
EXTENDS SessionStore, TLAPS

\* A file is replaced as a whole.
Types ==
    /\ TypeOK
    /\ disk \in [ID -> Record \union {Nil}]
    /\ \A a \in Actor :
        /\ pc[a] # "idle" => sid[a] \in ID /\ op[a] \in Op
        /\ pc[a] = "call" /\ op[a] = "update" => meta[a] \in Session

Writes(a) == pc[a] \in {"create", "write", "rename"}
InFile(a) == Writes(a) \/ pc[a] \in {"enter", "load", "remove"}

Locking == \A a \in Actor : InFile(a) => fileLock[sid[a]] = a

\* Sessions and records are filed under the ID they were created with.
Homes ==
    /\ \A id \in ID :
        /\ sessions[id] # Nil => home[sessions[id].session] = id
        /\ disk[id] # Nil => home[disk[id].session] = id
    /\ \A a \in Actor : InFile(a) /\ meta[a] # Nil => home[meta[a]] = sid[a]
    /\ \A s \in Session :
        /\ home[s] \in ID <=> s <= made
        /\ s \in saved \union asked \union ended => s <= made

\* The file of id is about s, or it does no harm.
Harmless(id, s) ==
    disk[id] # Nil =>
        disk[id].closed \/ disk[id].session \in failed \union {s}

Agrees(id) ==
    IF sessions[id] # Nil
    THEN /\ sessions[id].session \in failed \/ disk[id] = sessions[id]
         /\ Harmless(id, sessions[id].session)
    ELSE Harmless(id, Nil)

Saving(a) ==
    /\ pc[a] \in {"enter", "create", "write", "rename"}
    /\ sessions[sid[a]] = [session |-> meta[a], closed |-> FALSE]
    /\ image[a] = sessions[sid[a]]
    /\ Harmless(sid[a], meta[a])

Updating(a) ==
    /\ pc[a] \in {"enter", "load", "create", "write", "rename"}
    /\ sessions[sid[a]] = [session |-> meta[a], closed |-> FALSE]
    /\ Agrees(sid[a])
    /\ Writes(a) => image[a] = disk[sid[a]]

Closing(a) ==
    /\ pc[a] \in {"enter", "load", "create", "write", "rename"}
    /\ sessions[sid[a]] = [session |-> meta[a], closed |-> TRUE]
    /\ meta[a] \in failed
        \/ (disk[sid[a]] # Nil /\ disk[sid[a]].session = meta[a])
    /\ Harmless(sid[a], meta[a])
    /\ Writes(a) => /\ disk[sid[a]] # Nil
                    /\ image[a] = [session |-> disk[sid[a]].session, closed |-> TRUE]

Removing(a) ==
    /\ pc[a] \in {"enter", "remove"}
    /\ sessions[sid[a]] = Nil
    /\ Harmless(sid[a], meta[a])

\* Between the change of the registry and that of the file.
WorkingOn(a) ==
    /\ op[a] = "save" => meta[a] # Nil /\ Saving(a)
    /\ op[a] = "update" => meta[a] # Nil /\ Updating(a)
    /\ op[a] = "MarkClosed" => meta[a] # Nil /\ Closing(a)
    /\ op[a] \in {"remove", "rollback"} => Removing(a)
    /\ pc[a] = "rename" => tmp[sid[a]] = image[a]

Working == \A a \in Actor : InFile(a) => WorkingOn(a)

Idle == \A id \in ID : fileLock[id] = Nil => Agrees(id)

Saved ==
    \A s \in saved \ (asked \union failed) :
        /\ sessions[home[s]] = [session |-> s, closed |-> FALSE]
        /\ disk[home[s]] = [session |-> s, closed |-> FALSE]

Ended ==
    \A id \in ID, s \in ended :
        /\ sessions[id] # [session |-> s, closed |-> FALSE]
        /\ disk[id] # [session |-> s, closed |-> FALSE]

StoreInvariant ==
    Types /\ Locking /\ Homes /\ Working /\ Idle /\ Saved /\ Ended

-----------------------------------------------------------------------------
(* Types.                                                                   *)

LEMMA RecordFacts ==
    /\ \A s \in Session, c \in BOOLEAN :
        /\ [session |-> s, closed |-> c] \in Record
        /\ [session |-> s, closed |-> c] # Nil
        /\ [session |-> s, closed |-> c] # Torn
    /\ \A r \in Record :
        /\ r.session \in Session /\ r.closed \in BOOLEAN
        /\ r = [session |-> r.session, closed |-> r.closed]
        /\ r # Nil /\ r # Torn
BY StoreAssumption DEF Session, Record

LEMMA RecordsEqual ==
    \A s, t, c, d :
        [session |-> s, closed |-> c] = [session |-> t, closed |-> d] => s = t /\ c = d
<1> SUFFICES ASSUME NEW s, NEW t, NEW c, NEW d,
                    [session |-> s, closed |-> c] = [session |-> t, closed |-> d]
             PROVE  s = t /\ c = d
  OBVIOUS
<1>1. [session |-> s, closed |-> c].session = s /\ [session |-> t, closed |-> d].session = t
  OBVIOUS
<1>2. [session |-> s, closed |-> c].closed = c /\ [session |-> t, closed |-> d].closed = d
  OBVIOUS
<1> QED
  BY <1>1, <1>2

LEMMA TypesOfCall ==
    ASSUME StoreInvariant, NEW a \in Actor, Call(a) \/ Decline(a)
    PROVE  Types'
<1>1. CASE Call(a)
  BY <1>1 DEF StoreInvariant, Types, TypeOK, Call, PC, files, bounds, history
<1>2. CASE Decline(a)
  BY <1>2 DEF StoreInvariant, Types, TypeOK, Decline, Forget, PC, files, bounds, history
<1> QED
  BY <1>1, <1>2

LEMMA TypesOfRegistry ==
    ASSUME StoreInvariant, NEW a \in Actor,
           Register(a) \/ Close(a) \/ Purge(a) \/ Rollback(a) \/ Persist(a)
    PROVE  Types'
<1> USE DEF StoreInvariant, Types, TypeOK, PC, files, bounds, history, locals, LockFile
<1>1. CASE Register(a)
  <2>1. made + 1 \in Session
    BY <1>1, StoreAssumption DEF Register, Session
  <2>2. [session |-> made + 1, closed |-> FALSE] \in Record
    BY <2>1, RecordFacts
  <2>3. made' \in 0 .. MaxSessions
    BY <1>1, StoreAssumption DEF Register
  <2> QED
    BY <1>1, <2>1, <2>2, <2>3 DEF Register
<1>2. CASE Close(a)
  <2>1. Current(a) /\ op[a] = "MarkClosed"
    BY <1>2 DEF Close, Declines
  <2>2. sid[a] \in ID /\ sessions[sid[a]] \in Record /\ meta[a] \in Session
    BY <1>2, <2>1, RecordFacts DEF Close, Current
  <2>3. [sessions[sid[a]] EXCEPT !.closed = TRUE] \in Record
    BY <2>2 DEF Record
  <2>4. sessions' = [sessions EXCEPT ![sid[a]] = [sessions[sid[a]] EXCEPT !.closed = TRUE]]
    BY <1>2 DEF Close
  <2> QED
    BY <1>2, <2>2, <2>3, <2>4 DEF Close
<1>3. CASE Purge(a)
  <2>1. sid[a] \in ID /\ sessions[sid[a]] \in Record \union {Nil}
    BY <1>3 DEF Purge
  <2> QED
    BY <1>3, <2>1, RecordFacts DEF Purge
<1>4. CASE Rollback(a)
  <2>1. sid[a] \in ID /\ meta[a] \in Session
    BY <1>4, RecordFacts DEF Rollback, Declines, Current
  <2> QED
    BY <1>4, <2>1 DEF Rollback
<1>5. CASE Persist(a)
  BY <1>5 DEF Persist
<1> QED
  BY <1>1, <1>2, <1>3, <1>4, <1>5

LEMMA TypesOfWork ==
    ASSUME StoreInvariant, NEW a \in Actor,
           Enter(a) \/ Load(a) \/ Create(a) \/ Fill(a)
    PROVE  Types'
<1> USE DEF StoreInvariant, Types, TypeOK, PC, files, bounds, history, locals
<1>1. CASE Enter(a)
  <2>1. op[a] = "save" => image[a] \in Record
    <3>1. op[a] = "save" => image[a] = [session |-> meta[a], closed |-> FALSE] /\ meta[a] # Nil
      BY <1>1 DEF Enter, Working, WorkingOn, InFile, Saving
    <3>2. meta[a] # Nil => meta[a] \in Session
      OBVIOUS
    <3> QED
      BY <3>1, <3>2, RecordFacts
  <2>2. /\ pc' = [pc EXCEPT ![a] = pc'[a]]
        /\ pc'[a] \in PC \ {"idle", "write", "rename"}
        /\ pc'[a] = "create" => op[a] = "save"
    BY <1>1 DEF Enter
  <2> QED
    BY <1>1, <2>1, <2>2 DEF Enter
<1>2. CASE Load(a)
  <2>1. NewRecord(a, disk[sid[a]]) \in Record
    BY <1>2, RecordFacts DEF Load, NewRecord, Record
  <2> QED
    BY <1>2, <2>1 DEF Load
<1>3. CASE Create(a)
  BY <1>3 DEF Create
<1>4. CASE Fill(a)
  BY <1>4 DEF Fill
<1> QED
  BY <1>1, <1>2, <1>3, <1>4

LEMMA TypesOfReturn ==
    ASSUME StoreInvariant, NEW a \in Actor,
           LoadClosed(a) \/ LoadFails(a) \/ Rename(a) \/ Remove(a) \/ IOFails(a)
    PROVE  Types'
<1> USE DEF StoreInvariant, Types, TypeOK, PC, files, bounds, history, locals
<1>1. Return(a)
  BY DEF LoadClosed, LoadFails, Rename, Remove, IOFails
<1>2. /\ mu' \in Actor \union {Nil}
      /\ fileLock' \in [ID -> Actor \union {Nil}]
      /\ pc' \in [Actor -> PC] /\ op' \in [Actor -> Op \union {Nil}]
      /\ sid' \in [Actor -> ID \union {Nil}] /\ meta' \in [Actor -> Session \union {Nil}]
      /\ image' \in [Actor -> Record \union {Nil}]
      /\ \A b \in Actor : pc'[b] \in {"create", "write", "rename"} => image'[b] \in Record
      /\ \A b \in Actor : 
            /\ pc'[b] # "idle" => sid'[b] \in ID /\ op'[b] \in Op
            /\ pc'[b] = "call" /\ op'[b] = "update" => meta'[b] \in Session
      /\ UNCHANGED <<sessions, made, crashes, home, asked>>
  BY <1>1 DEF Return, Forget
<1>3. InFile(a)
  BY DEF InFile, Writes, LoadClosed, LoadFails, Rename, Remove, IOFails
<1>4. WorkingOn(a) /\ sid[a] \in ID
  BY <1>3 DEF Working, InFile, Writes
<1>5. /\ faults' \in 0 .. MaxFaults
      /\ saved' \subseteq Session /\ ended' \subseteq Session /\ failed' \subseteq Session
  <2>1. op[a] = "save" => meta[a] \in Session
    BY <1>4 DEF WorkingOn
  <2>2. faults' = faults \/ (faults < MaxFaults /\ faults' = faults + 1)
    BY DEF LoadClosed, LoadFails, Rename, Remove, IOFails, Succeeds
  <2>3. faults' \in 0 .. MaxFaults
    BY <2>2, StoreAssumption
  <2>4. Succeeds(a) \/ Fails(a)
    BY DEF LoadClosed, LoadFails, Rename, Remove, IOFails
  <2>5. CASE Succeeds(a)
    BY <2>1, <2>3, <2>5 DEF Succeeds, Ends
  <2>6. CASE Fails(a)
    BY <2>3, <2>6 DEF Fails
  <2> QED
    BY <2>4, <2>5, <2>6
<1>6. /\ disk' \in [ID -> Record \union {Nil}]
      /\ disk' \in [ID -> Record \union {Nil, Torn}]
      /\ tmp' \in [ID -> Record \union {Nil, Torn}]
  <2>1. CASE UNCHANGED <<disk, tmp>>
    BY <2>1
  <2>2. CASE Remove(a)
    BY <2>2 DEF Remove
  <2>3. CASE Rename(a)
    <3>1. tmp[sid[a]] \in Record
      BY <1>4, <2>3 DEF Rename, WorkingOn
    <3> QED
      BY <2>3, <3>1 DEF Rename
  <2> QED
    BY <2>1, <2>2, <2>3 DEF LoadClosed, LoadFails, IOFails
<1> QED
  BY <1>2, <1>5, <1>6

LEMMA TypesOfCrash ==
    ASSUME StoreInvariant, Crash
    PROVE  Types'
<1> USE DEF StoreInvariant, Types, TypeOK, PC, files, bounds, history, locals
<1>1. sessions' \in [ID -> Record \union {Nil}]
  BY DEF Crash, Restorable
<1>2. crashes' \in 0 .. MaxCrashes /\ faults' \in 0 .. MaxFaults
  BY StoreAssumption DEF Crash
<1>3. failed' \subseteq Session
  BY RecordFacts DEF Crash, Restorable
<1> QED
  BY <1>1, <1>2, <1>3 DEF Crash, Forget

-----------------------------------------------------------------------------
(* The other goroutines and the other IDs.                                  *)

\* A step of a, on the file of i.
Frame(a, i) ==
    /\ \A b \in Actor : b # a =>
        /\ pc'[b] = pc[b] /\ op'[b] = op[b] /\ sid'[b] = sid[b]
        /\ meta'[b] = meta[b] /\ image'[b] = image[b]
    /\ \A k \in ID : k # i =>
        /\ sessions'[k] = sessions[k] /\ disk'[k] = disk[k]
        /\ tmp'[k] = tmp[k] /\ fileLock'[k] = fileLock[k]
    /\ failed \subseteq failed'

\* It disturbs nobody who is in another file, and no other file.
LEMMA FrameOthers ==
    ASSUME StoreInvariant, NEW a \in Actor, NEW i \in ID, Frame(a, i),
           fileLock[i] \in {Nil, a}
    PROVE  /\ \A b \in Actor : b # a /\ InFile(b)' =>
                InFile(b) /\ sid'[b] # i /\ fileLock'[sid'[b]] = b /\ WorkingOn(b)'
           /\ \A k \in ID : k # i /\ fileLock'[k] = Nil => Agrees(k)'
<1>1. ASSUME NEW b \in Actor, b # a, InFile(b)'
      PROVE  InFile(b) /\ sid'[b] # i /\ fileLock'[sid'[b]] = b /\ WorkingOn(b)'
  <2>1. InFile(b) /\ sid[b] \in ID
    BY <1>1 DEF InFile, Writes, Frame, StoreInvariant, Types
  <2>2. fileLock[sid[b]] = b /\ WorkingOn(b) /\ sid[b] # i
    BY <1>1, <2>1, StoreAssumption DEF StoreInvariant, Locking, Working
  <2>3. /\ pc'[b] = pc[b] /\ op'[b] = op[b] /\ sid'[b] = sid[b]
        /\ meta'[b] = meta[b] /\ image'[b] = image[b]
        /\ sessions'[sid[b]] = sessions[sid[b]] /\ disk'[sid[b]] = disk[sid[b]]
        /\ tmp'[sid[b]] = tmp[sid[b]] /\ fileLock'[sid[b]] = fileLock[sid[b]]
        /\ failed \subseteq failed'
    BY <1>1, <2>1, <2>2 DEF Frame
  <2>4. WorkingOn(b)'
    BY <2>2, <2>3 DEF WorkingOn, Saving, Updating, Closing, Removing, Agrees, Harmless, Writes
  <2> QED
    BY <2>1, <2>2, <2>3, <2>4
<1>2. ASSUME NEW k \in ID, k # i, fileLock'[k] = Nil PROVE Agrees(k)'
  BY <1>2 DEF Frame, StoreInvariant, Idle, Agrees, Harmless
<1> QED
  BY <1>1, <1>2

\* What is left to show of a step: its own goroutine and its own file.
LEMMA FrameAll ==
    ASSUME StoreInvariant, NEW a \in Actor, NEW i \in ID, Frame(a, i),
           fileLock[i] \in {Nil, a}, Types',
           InFile(a)' => sid'[a] = i /\ fileLock'[i] = a /\ WorkingOn(a)',
           fileLock'[i] = Nil => Agrees(i)'
    PROVE  Locking' /\ Working' /\ Idle'
<1>1. Locking'
  BY FrameOthers DEF Locking
<1>2. Working'
  BY FrameOthers DEF Working
<1>3. Idle'
  BY FrameOthers DEF Idle
<1> QED
  BY <1>1, <1>2, <1>3

\* A step that changes neither registry nor file keeps what is said of them.
LEMMA StillSaid ==
    ASSUME StoreInvariant, NEW a \in Actor, NEW i \in ID, Frame(a, i), Types',
           UNCHANGED <<sessions, disk, made, home, saved, asked, ended>>,
           InFile(a)' => InFile(a) /\ sid'[a] = sid[a] /\ meta'[a] = meta[a]
    PROVE  Homes' /\ Saved' /\ Ended'
<1>1. \A b \in Actor : InFile(b)' => InFile(b) /\ sid'[b] = sid[b] /\ meta'[b] = meta[b]
  BY DEF Frame, InFile, Writes
<1>2. Homes'
  BY <1>1 DEF StoreInvariant, Homes
<1> QED
  BY <1>2 DEF StoreInvariant, Saved, Ended, Frame

LEMMA CallKeeps ==
    ASSUME StoreInvariant, NEW a \in Actor, Call(a) \/ Decline(a)
    PROVE  StoreInvariant'
<1>1. Types'
  BY TypesOfCall
<1>2. /\ UNCHANGED <<sessions, disk, tmp, fileLock, made, home, saved, asked, ended, failed>>
      /\ pc'[a] \in {"call", "idle"}
      /\ \A b \in Actor : b # a =>
            /\ pc'[b] = pc[b] /\ op'[b] = op[b] /\ sid'[b] = sid[b]
            /\ meta'[b] = meta[b] /\ image'[b] = image[b]
  <2>1. CASE Call(a)
    BY <2>1 DEF Call, files, history, StoreInvariant, Types, TypeOK
  <2>2. CASE Decline(a)
    BY <2>2 DEF Decline, Forget, files, history
  <2> QED
    BY <2>1, <2>2
<1>3. ~InFile(a)'
  BY <1>2 DEF InFile, Writes
<1>4. \A b \in Actor : b # a => (InFile(b)' <=> InFile(b))
  BY <1>2 DEF InFile, Writes
<1>5. Locking'
  BY <1>2, <1>3, <1>4 DEF StoreInvariant, Locking
<1>6. Working'
  <2> SUFFICES ASSUME NEW b \in Actor, InFile(b)' PROVE WorkingOn(b)'
    BY DEF Working
  <2>1. b # a /\ WorkingOn(b)
    BY <1>3, <1>4 DEF StoreInvariant, Working
  <2> QED
    BY <1>2, <2>1
       DEF WorkingOn, Saving, Updating, Closing, Removing, Agrees, Harmless, Writes
<1>7. Idle'
  BY <1>2 DEF StoreInvariant, Idle, Agrees, Harmless
<1>8. Homes'
  BY <1>2, <1>3, <1>4 DEF StoreInvariant, Homes
<1>9. Saved' /\ Ended'
  BY <1>2 DEF StoreInvariant, Saved, Ended
<1> QED
  BY <1>1, <1>5, <1>6, <1>7, <1>8, <1>9 DEF StoreInvariant

LEMMA HarmlessToAll ==
    ASSUME StoreInvariant, NEW i \in ID, Harmless(i, Nil), NEW s
    PROVE  Harmless(i, s)
<1>1. disk[i] # Nil => disk[i].session # Nil
  BY RecordFacts, StoreAssumption DEF StoreInvariant, Types, Session
<1> QED
  BY <1>1 DEF Harmless

-----------------------------------------------------------------------------
(* The registry is changed.                                                 *)

LEMMA Taking ==
    ASSUME StoreInvariant, NEW a \in Actor,
           Register(a) \/ Close(a) \/ Purge(a) \/ Rollback(a) \/ Persist(a)
    PROVE  /\ sid[a] \in ID /\ fileLock[sid[a]] = Nil /\ Agrees(sid[a])
           /\ Frame(a, sid[a]) /\ sid'[a] = sid[a] /\ op'[a] = op[a]
           /\ pc'[a] = "enter" /\ fileLock'[sid[a]] = a
           /\ UNCHANGED <<disk, tmp, saved, ended, failed>>
<1> USE DEF StoreInvariant, Types, TypeOK, files, locals, history, LockFile
<1>1. sid[a] \in ID /\ fileLock[sid[a]] = Nil
  BY DEF Register, Close, Purge, Rollback, Persist
<1>2. Agrees(sid[a])
  BY <1>1 DEF Idle
<1>3. /\ sid' = sid /\ op' = op /\ pc' = [pc EXCEPT ![a] = "enter"]
      /\ fileLock' = [fileLock EXCEPT ![sid[a]] = a]
      /\ UNCHANGED <<disk, tmp, saved, ended, failed>>
  BY DEF Register, Close, Purge, Rollback, Persist
<1>4. \A b \in Actor : b # a => meta'[b] = meta[b] /\ image'[b] = image[b]
  BY DEF Register, Close, Purge, Rollback, Persist
<1>5. \A k \in ID : k # sid[a] => sessions'[k] = sessions[k]
  <2>1. CASE Close(a)
    BY <2>1 DEF Close
  <2>2. CASE ~Close(a)
    BY <2>2 DEF Register, Purge, Rollback, Persist
  <2> QED
    BY <2>1, <2>2
<1>6. Frame(a, sid[a])
  BY <1>3, <1>4, <1>5 DEF Frame
<1> QED
  BY <1>1, <1>2, <1>3, <1>6

\* Who took the lock is in the file.
LEMMA TakingIsInFile ==
    ASSUME StoreInvariant, NEW a \in Actor,
           Register(a) \/ Close(a) \/ Purge(a) \/ Rollback(a) \/ Persist(a),
           WorkingOn(a)'
    PROVE  Types' /\ Locking' /\ Working' /\ Idle'
<1>1. Types'
  BY TypesOfRegistry
<1>2. fileLock'[sid[a]] # Nil
  BY Taking, StoreAssumption
<1> QED
  BY <1>1, <1>2, Taking, FrameAll

LEMMA RegisterKeeps ==
    ASSUME StoreInvariant, NEW a \in Actor, Register(a)
    PROVE  StoreInvariant'
<1>0. PICK i, m : i = sid[a] /\ m = made + 1
  OBVIOUS
<1> DEFINE r == [session |-> m, closed |-> FALSE]
<1>1. /\ i \in ID /\ Agrees(i) /\ sid'[a] = i /\ op'[a] = "save" /\ pc'[a] = "enter"
      /\ UNCHANGED <<disk, tmp, saved, ended, failed, asked>> /\ Frame(a, i)
      /\ fileLock[i] = Nil
  BY <1>0, Taking DEF Register, history
<1>2. /\ made < MaxSessions /\ made' = m /\ sessions[i] = Nil /\ op[a] = "save"
      /\ sessions' = [sessions EXCEPT ![i] = r]
      /\ image' = [image EXCEPT ![a] = r] /\ meta' = [meta EXCEPT ![a] = m]
      /\ home' = [home EXCEPT ![m] = i]
  BY <1>0 DEF Register, Declines
<1>3. /\ m \in Session /\ made \in Nat /\ m \notin 0 .. made
      /\ \A s \in Session : (s <= m <=> s <= made \/ s = m) /\ (s <= made => s # m)
  BY <1>0, <1>2, StoreAssumption DEF StoreInvariant, Types, TypeOK, Session
<1>4. r \in Record /\ r.session = m /\ r.closed = FALSE /\ r # Nil /\ m # Nil
  BY <1>3, RecordFacts, StoreAssumption DEF Session
<1>5. /\ sessions'[i] = r /\ image'[a] = r /\ meta'[a] = m /\ home'[m] = i
      /\ \A k \in ID : k # i => sessions'[k] = sessions[k]
      /\ \A s \in Session : s # m => home'[s] = home[s]
      /\ \A b \in Actor : b # a => meta'[b] = meta[b]
  BY <1>1, <1>2, <1>3 DEF StoreInvariant, Types, TypeOK
<1>6. Harmless(i, m)'
  <2>1. Harmless(i, m)
    BY <1>1, <1>2, HarmlessToAll DEF Agrees
  <2> QED
    BY <1>1, <2>1 DEF Harmless
<1>7. WorkingOn(a)'
  <2>1. Saving(a)'
    BY <1>1, <1>5, <1>6 DEF Saving
  <2> QED
    BY <1>1, <1>4, <1>5, <2>1 DEF WorkingOn
<1>8. Types' /\ Locking' /\ Working' /\ Idle'
  BY <1>7, TakingIsInFile
<1>9. \A s \in Session : home[s] \in ID => s # m
  BY <1>3 DEF StoreInvariant, Homes
<1>10. /\ \A k \in ID : sessions[k] # Nil => sessions[k].session \in Session
       /\ \A k \in ID : disk[k] # Nil => disk[k].session \in Session
       /\ \A b \in Actor : meta[b] # Nil => meta[b] \in Session
       /\ saved \subseteq Session /\ ended \subseteq Session
  BY RecordFacts DEF StoreInvariant, Types, TypeOK
<1>11. Homes'
  <2>1. \A k \in ID : sessions'[k] # Nil => home'[sessions'[k].session] = k
    BY <1>4, <1>5, <1>9, <1>10 DEF StoreInvariant, Homes
  <2>2. \A k \in ID : disk'[k] # Nil => home'[disk'[k].session] = k
    BY <1>1, <1>5, <1>9, <1>10 DEF StoreInvariant, Homes
  <2>3. ASSUME NEW b \in Actor, InFile(b)', meta'[b] # Nil
        PROVE  home'[meta'[b]] = sid'[b]
    <3>1. CASE b = a
      BY <1>1, <1>5, <3>1
    <3>2. CASE b # a
      <4>1. InFile(b) /\ sid'[b] = sid[b] /\ meta'[b] = meta[b] /\ sid[b] \in ID
        BY <1>1, <2>3, <3>2 DEF Frame, InFile, Writes, StoreInvariant, Types
      <4>2. home[meta[b]] = sid[b]
        BY <2>3, <4>1 DEF StoreInvariant, Homes
      <4> QED
        BY <1>5, <1>9, <1>10, <2>3, <4>1, <4>2
    <3> QED
      BY <3>1, <3>2
  <2>4. \A s \in Session : home'[s] \in ID <=> s <= made'
    BY <1>1, <1>2, <1>3, <1>5 DEF StoreInvariant, Homes
  <2>5. \A s \in Session : s \in saved' \union asked' \union ended' => s <= made'
    BY <1>1, <1>2, <1>3 DEF StoreInvariant, Homes
  <2> QED
    BY <2>1, <2>2, <2>3, <2>4, <2>5 DEF Homes
<1>12. Saved'
  <2> SUFFICES ASSUME NEW s \in saved \ (asked \union failed)
               PROVE  /\ sessions'[home'[s]] = [session |-> s, closed |-> FALSE]
                      /\ disk'[home'[s]] = [session |-> s, closed |-> FALSE]
    BY <1>1 DEF Saved
  <2>1. s \in Session /\ home[s] \in ID
    BY <1>10 DEF StoreInvariant, Homes
  <2>2. sessions[home[s]] = [session |-> s, closed |-> FALSE]
    BY DEF StoreInvariant, Saved
  <2>3. home[s] # i /\ s # m
    BY <1>2, <1>9, <2>1, <2>2, RecordFacts
  <2> QED
    BY <1>1, <1>5, <2>1, <2>3 DEF StoreInvariant, Saved
<1>13. Ended'
  <2>1. m \notin ended
    BY <1>3, <1>10 DEF StoreInvariant, Homes
  <2>2. \A s \in ended : r # [session |-> s, closed |-> FALSE]
    BY <2>1, RecordsEqual
  <2>3. SUFFICES ASSUME NEW k \in ID, NEW s \in ended
                 PROVE  /\ sessions'[k] # [session |-> s, closed |-> FALSE]
                        /\ disk'[k] # [session |-> s, closed |-> FALSE]
    BY <1>1 DEF Ended
  <2>4. /\ sessions[k] # [session |-> s, closed |-> FALSE]
        /\ disk[k] # [session |-> s, closed |-> FALSE]
    BY DEF StoreInvariant, Ended
  <2> QED
    BY <1>1, <1>5, <2>2, <2>4
<1> QED
  BY <1>8, <1>11, <1>12, <1>13 DEF StoreInvariant

LEMMA CloseKeeps ==
    ASSUME StoreInvariant, NEW a \in Actor, Close(a)
    PROVE  StoreInvariant'
<1>0. PICK i, m : i = sid[a] /\ m = meta[a]
  OBVIOUS
<1> DEFINE r == [session |-> m, closed |-> TRUE]
<1>1. /\ i \in ID /\ Agrees(i) /\ sid'[a] = i /\ op'[a] = "MarkClosed" /\ pc'[a] = "enter"
      /\ UNCHANGED <<disk, saved, ended, failed, home, made, meta>> /\ Frame(a, i)
      /\ asked' = asked \union {m}
  BY <1>0, Taking DEF Close, locals
<1>2. sessions[i] # Nil /\ sessions[i].session = m
  BY <1>0 DEF Close, Declines, Current
<1>3. m \in Session /\ r \in Record /\ r # Nil /\ m # Nil /\ sessions[i] \in Record
  <2>1. sessions[i] \in Record
    BY <1>1, <1>2 DEF StoreInvariant, Types, TypeOK
  <2>2. m \in Session
    BY <1>2, <2>1, RecordFacts
  <2> QED
    BY <2>1, <2>2, RecordFacts, StoreAssumption DEF Session
<1>4. sessions'[i] = r /\ \A k \in ID : k # i => sessions'[k] = sessions[k]
  <2>1. [sessions[i] EXCEPT !.closed = TRUE] = r
    <3>1. PICK q : q = [sessions[i] EXCEPT !.closed = TRUE]
      OBVIOUS
    <3>2. q \in Record /\ q.session = sessions[i].session /\ q.closed = TRUE
      BY <1>3, <3>1 DEF Record
    <3> QED
      BY <1>2, <3>1, <3>2, RecordFacts
  <2>2. sessions' = [sessions EXCEPT ![i] = [sessions[i] EXCEPT !.closed = TRUE]]
    BY <1>0 DEF Close
  <2> QED
    BY <1>1, <2>1, <2>2 DEF StoreInvariant, Types, TypeOK
<1>5. /\ Harmless(i, m)
      /\ m \in failed \/ (disk[i] # Nil /\ disk[i].session = m)
  BY <1>1, <1>2 DEF Agrees
<1>6. WorkingOn(a)'
  <2>1. Harmless(i, m)'
    BY <1>1, <1>5 DEF Harmless
  <2>2. meta'[a] = m
    BY <1>0, <1>1
  <2>3. Closing(a)'
    BY <1>1, <1>4, <1>5, <2>1, <2>2 DEF Closing, Writes
  <2> QED
    BY <1>1, <1>3, <2>2, <2>3 DEF WorkingOn
<1>7. Types' /\ Locking' /\ Working' /\ Idle'
  BY <1>6, TakingIsInFile
<1>8. home[m] = i /\ m <= made
  BY <1>1, <1>2, <1>3 DEF StoreInvariant, Homes
<1>9. Homes'
  <2>1. \A k \in ID : sessions'[k] # Nil => home'[sessions'[k].session] = k
    BY <1>1, <1>4, <1>8 DEF StoreInvariant, Homes
  <2>2. ASSUME NEW b \in Actor, InFile(b)', meta'[b] # Nil
        PROVE  home'[meta'[b]] = sid'[b]
    <3>1. CASE b = a
      BY <1>0, <1>1, <1>8, <3>1
    <3>2. CASE b # a
      <4>1. InFile(b) /\ sid'[b] = sid[b] /\ meta'[b] = meta[b]
        BY <1>1, <2>2, <3>2 DEF Frame, InFile, Writes
      <4> QED
        BY <1>1, <2>2, <4>1 DEF StoreInvariant, Homes
    <3> QED
      BY <3>1, <3>2
  <2> QED
    BY <1>1, <1>8, <2>1, <2>2 DEF StoreInvariant, Homes
<1>10. Saved'
  <2> SUFFICES ASSUME NEW s \in saved \ (asked \union failed), s # m
               PROVE  /\ sessions'[home[s]] = [session |-> s, closed |-> FALSE]
                      /\ disk[home[s]] = [session |-> s, closed |-> FALSE]
    BY <1>1 DEF Saved
  <2>1. home[s] \in ID
    BY DEF StoreInvariant, Types, TypeOK, Homes
  <2>2. /\ sessions[home[s]] = [session |-> s, closed |-> FALSE]
        /\ disk[home[s]] = [session |-> s, closed |-> FALSE]
    BY DEF StoreInvariant, Saved
  <2>3. home[s] # i
    BY <1>2, <2>2
  <2> QED
    BY <1>4, <2>1, <2>2, <2>3
<1>11. Ended'
  <2>1. \A s : r # [session |-> s, closed |-> FALSE]
    BY RecordsEqual
  <2> QED
    BY <1>1, <1>4, <2>1 DEF StoreInvariant, Ended
<1> QED
  BY <1>7, <1>9, <1>10, <1>11 DEF StoreInvariant

\* The session of i is taken out of the registry.
LEMMA TakingOut ==
    ASSUME StoreInvariant, NEW a \in Actor, Purge(a) \/ Rollback(a)
    PROVE  StoreInvariant'
<1>0. PICK i, m : i = sid[a] /\ m = meta'[a]
  OBVIOUS
<1>1. /\ i \in ID /\ Agrees(i) /\ sid'[a] = i /\ op'[a] \in {"remove", "rollback"}
      /\ pc'[a] = "enter" /\ UNCHANGED <<disk, saved, ended, failed, home, made>>
      /\ Frame(a, i) /\ m = meta'[a]
  BY <1>0, Taking DEF Purge, Rollback, locals
<1>2. /\ sessions[i] # Nil => sessions[i].session = m
      /\ m # Nil => sessions[i] # Nil
      /\ asked' = asked \union (IF m = Nil THEN {} ELSE {m})
  <2>1. CASE Purge(a)
    <3>1. m = IF sessions[i] = Nil THEN Nil ELSE sessions[i].session
      BY <1>0, <2>1 DEF Purge, StoreInvariant, Types, TypeOK
    <3>2. sessions[i] # Nil => sessions[i].session # Nil
      BY <1>1, RecordFacts, StoreAssumption DEF StoreInvariant, Types, TypeOK, Session
    <3> QED
      BY <1>0, <2>1, <3>1, <3>2 DEF Purge
  <2>2. CASE Rollback(a)
    <3>1. sessions[i] # Nil /\ sessions[i].session = m /\ asked' = asked \union {m}
      BY <1>0, <2>2 DEF Rollback, Declines, Current, locals
    <3>2. m # Nil
      BY <1>1, <3>1, RecordFacts, StoreAssumption DEF StoreInvariant, Types, TypeOK, Session
    <3> QED
      BY <3>1, <3>2
  <2> QED
    BY <2>1, <2>2
<1>3. sessions'[i] = Nil /\ \A k \in ID : k # i => sessions'[k] = sessions[k]
  BY <1>0, <1>1 DEF Purge, Rollback, StoreInvariant, Types, TypeOK
<1>4. Harmless(i, m)
  <2>1. CASE sessions[i] = Nil
    BY <1>1, <2>1, HarmlessToAll DEF Agrees
  <2>2. CASE sessions[i] # Nil
    BY <1>1, <1>2, <2>2 DEF Agrees
  <2> QED
    BY <2>1, <2>2
<1>5. WorkingOn(a)'
  <2>1. Removing(a)'
    BY <1>1, <1>3, <1>4 DEF Removing, Harmless
  <2> QED
    BY <1>1, <2>1 DEF WorkingOn
<1>6. Types' /\ Locking' /\ Working' /\ Idle'
  BY <1>5, TakingIsInFile
<1>7. m # Nil => m \in Session /\ home[m] = i /\ m <= made
  BY <1>1, <1>2, RecordFacts DEF StoreInvariant, Types, TypeOK, Homes
<1>8. Homes'
  <2>1. \A k \in ID : sessions'[k] # Nil => home'[sessions'[k].session] = k
    BY <1>1, <1>3 DEF StoreInvariant, Homes
  <2>2. ASSUME NEW b \in Actor, InFile(b)', meta'[b] # Nil
        PROVE  home'[meta'[b]] = sid'[b]
    <3>1. CASE b = a
      BY <1>1, <1>7, <2>2, <3>1
    <3>2. CASE b # a
      <4>1. InFile(b) /\ sid'[b] = sid[b] /\ meta'[b] = meta[b]
        BY <1>1, <2>2, <3>2 DEF Frame, InFile, Writes
      <4> QED
        BY <1>1, <2>2, <4>1 DEF StoreInvariant, Homes
    <3> QED
      BY <3>1, <3>2
  <2>3. \A s \in Session : s \in saved' \union asked' \union ended' => s <= made'
    BY <1>1, <1>2, <1>7 DEF StoreInvariant, Homes
  <2> QED
    BY <1>1, <2>1, <2>2, <2>3 DEF StoreInvariant, Homes
<1>9. Saved'
  <2> SUFFICES ASSUME NEW s \in saved \ (asked \union failed), s \notin asked'
               PROVE  /\ sessions'[home[s]] = [session |-> s, closed |-> FALSE]
                      /\ disk[home[s]] = [session |-> s, closed |-> FALSE]
    BY <1>1, <1>2 DEF Saved
  <2>1. s \in Session /\ home[s] \in ID
    BY DEF StoreInvariant, Types, TypeOK, Homes
  <2>2. /\ sessions[home[s]] = [session |-> s, closed |-> FALSE]
        /\ disk[home[s]] = [session |-> s, closed |-> FALSE]
    BY DEF StoreInvariant, Saved
  <2>3. home[s] # i
    <3> SUFFICES ASSUME home[s] = i PROVE FALSE
      OBVIOUS
    <3>1. sessions[i] # Nil /\ sessions[i].session = s
      BY <2>1, <2>2, RecordFacts
    <3>2. m = s /\ s # Nil
      BY <1>2, <2>1, <3>1, StoreAssumption DEF Session
    <3> QED
      BY <1>2, <3>2
  <2> QED
    BY <1>3, <2>1, <2>2, <2>3
<1>10. Ended'
  <2>1. \A s \in ended : Nil # [session |-> s, closed |-> FALSE]
    BY RecordFacts DEF StoreInvariant, Types, TypeOK
  <2> QED
    BY <1>1, <1>3, <2>1 DEF StoreInvariant, Ended
<1> QED
  BY <1>6, <1>8, <1>9, <1>10 DEF StoreInvariant

LEMMA PersistKeeps ==
    ASSUME StoreInvariant, NEW a \in Actor, Persist(a)
    PROVE  StoreInvariant'
<1>0. PICK i, m : i = sid[a] /\ m = meta[a]
  OBVIOUS
<1>1. /\ i \in ID /\ Agrees(i) /\ sid'[a] = i /\ op'[a] = "update"
      /\ pc'[a] = "enter" /\ Frame(a, i) /\ meta' = meta
      /\ UNCHANGED <<sessions, disk, saved, asked, ended, failed, home, made>>
  BY <1>0, Taking DEF Persist, locals, history
<1>2. sessions[i] = [session |-> m, closed |-> FALSE]
  BY <1>0 DEF Persist, Declines
<1>3. m # Nil
  <2>1. m \in Session
    BY <1>0 DEF Persist, StoreInvariant, Types
  <2> QED
    BY <2>1, StoreAssumption DEF Session
<1>4. WorkingOn(a)'
  <2>1. Agrees(i)'
    BY <1>1 DEF Agrees, Harmless
  <2>2. Updating(a)'
    BY <1>0, <1>1, <1>2, <2>1 DEF Updating, Writes
  <2> QED
    BY <1>0, <1>1, <1>3, <2>2 DEF WorkingOn
<1>5. Types' /\ Locking' /\ Working' /\ Idle'
  BY <1>4, TakingIsInFile
<1>6. Homes'
  <2>1. ASSUME NEW b \in Actor, InFile(b)', meta'[b] # Nil
        PROVE  home'[meta'[b]] = sid'[b]
    <3>1. CASE b = a
      <4>1. sessions[i] # Nil /\ sessions[i].session = m
        BY <1>0, <1>2, RecordFacts DEF Persist, StoreInvariant, Types
      <4>2. home[m] = i
        BY <1>1, <4>1 DEF StoreInvariant, Homes
      <4> QED
        BY <1>0, <1>1, <3>1, <4>2
    <3>2. CASE b # a
      <4>1. InFile(b) /\ sid'[b] = sid[b]
        BY <1>1, <2>1, <3>2 DEF Frame, InFile, Writes
      <4> QED
        BY <1>1, <2>1, <4>1 DEF StoreInvariant, Homes
    <3> QED
      BY <3>1, <3>2
  <2> QED
    BY <1>1, <2>1 DEF StoreInvariant, Homes
<1>7. Saved' /\ Ended'
  BY <1>1 DEF StoreInvariant, Saved, Ended
<1> QED
  BY <1>5, <1>6, <1>7 DEF StoreInvariant

-----------------------------------------------------------------------------
(* The store is entered, and the temporary file written.                    *)

LEMMA WorkKeeps ==
    ASSUME StoreInvariant, NEW a \in Actor,
           Enter(a) \/ Load(a) \/ Create(a) \/ Fill(a)
    PROVE  StoreInvariant'
<1>0. PICK i : i = sid[a]
  OBVIOUS
<1>1. Types'
  BY TypesOfWork
<1>2. /\ UNCHANGED <<sessions, disk, fileLock, op, sid, meta, made, home>>
      /\ UNCHANGED <<saved, asked, ended, failed>>
  BY DEF Enter, Load, Create, Fill, files, locals, history
<1>3. InFile(a) /\ InFile(a)'
  <2>1. pc'[a] \in {"create", "remove", "load", "write", "rename"}
    BY DEF Enter, Load, Create, Fill, StoreInvariant, Types, TypeOK
  <2> QED
    BY <2>1 DEF Enter, Load, Create, Fill, InFile, Writes
<1>4. i \in ID /\ fileLock[i] = a /\ WorkingOn(a)
  BY <1>0, <1>3 DEF StoreInvariant, Types, Locking, Working, InFile, Writes
<1>5. Frame(a, i)
  BY <1>0, <1>2 DEF Frame, Enter, Load, Create, Fill, locals, files, StoreInvariant, Types,
                   TypeOK
<1>6. Agrees(i)' = Agrees(i) /\ \A s : Harmless(i, s)' = Harmless(i, s)
  BY <1>2 DEF Agrees, Harmless
<1>7. WorkingOn(a)'
  <2> USE DEF Writes
  <2>1. /\ op'[a] = op[a] /\ sid'[a] = i /\ meta'[a] = meta[a]
        /\ sessions' = sessions /\ disk' = disk /\ failed' = failed
    BY <1>0, <1>2
  <2>2. CASE Enter(a)
    <3>1. image' = image /\ pc[a] = "enter"
          /\ pc'[a] = CASE op[a] = "save" -> "create"
                        [] op[a] \in {"remove", "rollback"} -> "remove"
                        [] OTHER -> "load"
      BY <2>2 DEF Enter, locals, StoreInvariant, Types, TypeOK
    <3>2. op[a] = "save" => Saving(a)'
      BY <1>0, <1>4, <2>1, <3>1 DEF WorkingOn, Saving, Harmless
    <3>3. op[a] = "update" => Updating(a)'
      BY <1>0, <1>4, <2>1, <3>1 DEF WorkingOn, Updating, Agrees, Harmless
    <3>4. op[a] = "MarkClosed" => Closing(a)'
      BY <1>0, <1>4, <2>1, <3>1 DEF WorkingOn, Closing, Harmless
    <3>5. op[a] \in {"remove", "rollback"} => Removing(a)'
      BY <1>0, <1>4, <2>1, <3>1 DEF WorkingOn, Removing, Harmless
    <3>6. pc'[a] # "rename"
      BY <3>1
    <3> QED
      BY <1>4, <2>1, <3>2, <3>3, <3>4, <3>5, <3>6 DEF WorkingOn
  <2>3. CASE Load(a)
    <3>1. /\ pc[a] = "load" /\ pc'[a] = "create" /\ disk[i] \in Record
          /\ image'[a] = NewRecord(a, disk[i])
      BY <1>0, <2>3 DEF Load, StoreInvariant, Types, TypeOK
    <3>2. op[a] \in {"update", "MarkClosed"}
      BY <1>4, <3>1 DEF WorkingOn, Saving, Removing, StoreInvariant, Types, Op
    <3>3. op[a] = "update" => Updating(a)'
      BY <1>0, <1>4, <2>1, <3>1 DEF WorkingOn, Updating, Agrees, Harmless, NewRecord
    <3>4. op[a] = "MarkClosed" => Closing(a)'
      <4> SUFFICES ASSUME op[a] = "MarkClosed" PROVE Closing(a)'
        OBVIOUS
      <4>1. /\ disk[i] # Nil
            /\ image'[a] = [session |-> disk[i].session, closed |-> TRUE]
        <5>1. PICK q : q = [disk[i] EXCEPT !.closed = TRUE]
          OBVIOUS
        <5>2. q \in Record /\ q.session = disk[i].session /\ q.closed = TRUE
          BY <3>1, <5>1 DEF Record
        <5> QED
          BY <3>1, <5>1, <5>2, RecordFacts DEF NewRecord
      <4> QED
        BY <1>0, <1>4, <2>1, <3>1, <4>1 DEF WorkingOn, Closing, Harmless
    <3> QED
      BY <1>4, <2>1, <3>1, <3>2, <3>3, <3>4 DEF WorkingOn
  <2>4. CASE Create(a) \/ Fill(a)
    <3>1. /\ pc[a] \in {"create", "write"} /\ pc'[a] \in {"write", "rename"} /\ image' = image
          /\ pc'[a] = "rename" => tmp'[i] = image[a]
      BY <1>0, <1>4, <2>4 DEF Create, Fill, locals, StoreInvariant, Types, TypeOK
    <3>2. op[a] = "save" => Saving(a)'
      BY <1>0, <1>4, <2>1, <3>1 DEF WorkingOn, Saving, Harmless
    <3>3. op[a] = "update" => Updating(a)'
      BY <1>0, <1>4, <2>1, <3>1 DEF WorkingOn, Updating, Agrees, Harmless
    <3>4. op[a] = "MarkClosed" => Closing(a)'
      BY <1>0, <1>4, <2>1, <3>1 DEF WorkingOn, Closing, Harmless
    <3>5. op[a] \notin {"remove", "rollback"}
      BY <1>4, <3>1 DEF WorkingOn, Removing
    <3> QED
      BY <1>4, <2>1, <3>1, <3>2, <3>3, <3>4, <3>5 DEF WorkingOn
  <2> QED
    BY <2>2, <2>3, <2>4
<1>8. fileLock'[i] = a /\ sid'[a] = i /\ a # Nil
  BY <1>0, <1>2, <1>4, StoreAssumption
<1>9. Locking' /\ Working' /\ Idle'
  BY <1>1, <1>4, <1>5, <1>7, <1>8, FrameAll
<1>10. Homes' /\ Saved' /\ Ended'
  BY <1>1, <1>2, <1>3, <1>4, <1>5, StillSaid
<1> QED
  BY <1>1, <1>9, <1>10 DEF StoreInvariant

-----------------------------------------------------------------------------
(* The operation is over.                                                   *)

\* The goroutine has left the file, and nothing else has changed.
LEMMA Leaving ==
    ASSUME StoreInvariant, NEW a \in Actor, NEW i \in ID, i = sid[a],
           LoadClosed(a) \/ LoadFails(a) \/ Rename(a) \/ Remove(a) \/ IOFails(a)
    PROVE  /\ Types' /\ Frame(a, i) /\ ~InFile(a)' /\ fileLock[i] = a
           /\ WorkingOn(a) /\ InFile(a)
           /\ UNCHANGED <<sessions, home, made, asked>>
           /\ Agrees(i)' => Locking' /\ Working' /\ Idle'
<1> USE DEF files
<1>1. Return(a) /\ Types'
  BY TypesOfReturn DEF LoadClosed, LoadFails, Rename, Remove, IOFails
<1>2. ~InFile(a)' /\ UNCHANGED <<sessions, home, made, asked>>
  BY <1>1 DEF Return, Forget, InFile, Writes
<1>3. InFile(a)
  BY DEF InFile, Writes, LoadClosed, LoadFails, Rename, Remove, IOFails
<1>4. WorkingOn(a) /\ fileLock[i] = a
  BY <1>3 DEF StoreInvariant, Working, Locking
<1>5. Frame(a, i)
  <2>1. failed \subseteq failed'
    BY DEF LoadClosed, LoadFails, Rename, Remove, IOFails, Succeeds, Fails
  <2>2. \A k \in ID : k # i => disk'[k] = disk[k] /\ tmp'[k] = tmp[k]
    BY DEF LoadClosed, LoadFails, Rename, Remove, IOFails, StoreInvariant, Types, TypeOK
  <2>3. \A k \in ID : k # i => fileLock'[k] = fileLock[k] /\ sessions'[k] = sessions[k]
    BY <1>1 DEF Return, StoreInvariant, Types, TypeOK
  <2> QED
    BY <1>1, <2>1, <2>2, <2>3 DEF Return, Forget, Frame
<1>6. Agrees(i)' => Locking' /\ Working' /\ Idle'
  BY <1>1, <1>2, <1>4, <1>5, FrameAll
<1> QED
  BY <1>1, <1>2, <1>3, <1>4, <1>5, <1>6

\* Nothing was written.
LEMMA GivingUp ==
    ASSUME StoreInvariant, NEW a \in Actor, LoadClosed(a) \/ LoadFails(a) \/ IOFails(a)
    PROVE  StoreInvariant'
<1>0. PICK i \in ID : i = sid[a]
  BY DEF LoadClosed, LoadFails, IOFails, StoreInvariant, Types
<1>1. /\ Types' /\ Frame(a, i) /\ ~InFile(a)' /\ WorkingOn(a) /\ InFile(a)
      /\ UNCHANGED <<sessions, home, made, asked>>
      /\ Agrees(i)' => Locking' /\ Working' /\ Idle'
  BY <1>0, Leaving
<1>2. /\ disk' = disk /\ op[a] \in Op
      /\ \/ op[a] = "update" /\ failed \subseteq failed'
         \/ failed' = failed \union (IF meta[a] = Nil THEN {} ELSE {meta[a]})
  BY <1>1 DEF LoadClosed, LoadFails, IOFails, Succeeds, Fails, files, StoreInvariant, Types
<1>3. saved' = saved /\ ended' = ended
  BY DEF LoadClosed, LoadFails, IOFails, Succeeds, Fails, Ends
<1>4. Agrees(i)'
  <2>1. CASE op[a] = "update"
    BY <1>0, <1>1, <1>2, <2>1 DEF WorkingOn, Updating, Agrees, Harmless
  <2>2. CASE op[a] \in {"save", "MarkClosed"}
    <3>1. /\ Harmless(i, meta[a]) /\ meta[a] # Nil
          /\ \E c \in BOOLEAN : sessions[i] = [session |-> meta[a], closed |-> c]
      BY <1>0, <1>1, <2>2 DEF WorkingOn, Saving, Closing
    <3>2. sessions[i] # Nil /\ sessions[i].session = meta[a]
      BY <3>1, RecordFacts DEF StoreInvariant, Types, TypeOK
    <3>3. meta[a] \in failed'
      BY <1>2, <2>2, <3>1
    <3> QED
      BY <1>1, <1>2, <3>1, <3>2, <3>3 DEF Agrees, Harmless, Frame
  <2>3. CASE op[a] \in {"remove", "rollback"}
    <3>1. Harmless(i, meta[a]) /\ sessions[i] = Nil
      BY <1>0, <1>1, <2>3 DEF WorkingOn, Removing
    <3>2. meta[a] # Nil => meta[a] \in failed'
      BY <1>2, <2>3
    <3> QED
      BY <1>1, <1>2, <3>1, <3>2 DEF Agrees, Harmless, Frame
  <2> QED
    BY <1>2, <2>1, <2>2, <2>3 DEF Op
<1>5. Homes' /\ Saved' /\ Ended'
  BY <1>1, <1>2, <1>3, StillSaid
<1> QED
  BY <1>1, <1>4, <1>5 DEF StoreInvariant

\* What the goroutine was about to say of its session has been said.
LEMMA Finishing ==
    ASSUME StoreInvariant, NEW a \in Actor, NEW i \in ID, i = sid[a], NEW m, m = meta[a],
           Rename(a) \/ Remove(a),
           \A k \in ID : k # i => disk'[k] = disk[k],
           disk'[i] # Nil => home[disk'[i].session] = i,
           Agrees(i)',
           \A s \in saved' \ (asked \union failed) : home[s] = i =>
                /\ sessions[i] = [session |-> s, closed |-> FALSE]
                /\ disk'[i] = [session |-> s, closed |-> FALSE],
           \A s \in ended' : home[s] = i =>
                /\ sessions[i] # [session |-> s, closed |-> FALSE]
                /\ disk'[i] # [session |-> s, closed |-> FALSE]
    PROVE  StoreInvariant'
<1>1. /\ Types' /\ Frame(a, i) /\ ~InFile(a)' /\ WorkingOn(a) /\ InFile(a)
      /\ UNCHANGED <<sessions, home, made, asked, failed>>
      /\ Locking' /\ Working' /\ Idle'
  BY Leaving DEF Rename, Remove, Succeeds
<1>2. /\ saved' \subseteq saved \union (IF m = Nil THEN {} ELSE {m})
      /\ ended' \subseteq ended \union (IF m = Nil THEN {} ELSE {m})
  <2>1. op[a] = "save" => m # Nil
    BY <1>1 DEF WorkingOn
  <2> QED
    BY <2>1 DEF Rename, Remove, Succeeds, Ends
<1>3. m # Nil => m \in Session /\ home[m] = i /\ m <= made
  BY <1>1 DEF StoreInvariant, Types, TypeOK, Homes
<1>4. Homes'
  <2>1. \A k \in ID : disk'[k] # Nil => home'[disk'[k].session] = k
    BY <1>1 DEF StoreInvariant, Homes
  <2>2. \A b \in Actor : InFile(b)' =>
            InFile(b) /\ sid'[b] = sid[b] /\ meta'[b] = meta[b]
    BY <1>1 DEF Frame, InFile, Writes
  <2>3. \A s \in Session : s \in saved' \union asked' \union ended' => s <= made'
    BY <1>1, <1>2, <1>3 DEF StoreInvariant, Homes
  <2> QED
    BY <1>1, <2>1, <2>2, <2>3 DEF StoreInvariant, Homes
<1>5. Saved'
  <2> SUFFICES ASSUME NEW s \in saved' \ (asked \union failed)
               PROVE  /\ sessions[home[s]] = [session |-> s, closed |-> FALSE]
                      /\ disk'[home[s]] = [session |-> s, closed |-> FALSE]
    BY <1>1 DEF Saved
  <2>1. CASE home[s] = i
    BY <2>1
  <2>2. CASE home[s] # i
    <3>1. s \in saved
      BY <1>2, <1>3, <2>2
    <3>2. home[s] \in ID
      BY <3>1 DEF StoreInvariant, Types, TypeOK, Homes
    <3> QED
      BY <2>2, <3>1, <3>2 DEF StoreInvariant, Saved
  <2> QED
    BY <2>1, <2>2
<1>6. Ended'
  <2> SUFFICES ASSUME NEW k \in ID, NEW s \in ended'
               PROVE  /\ sessions[k] # [session |-> s, closed |-> FALSE]
                      /\ disk'[k] # [session |-> s, closed |-> FALSE]
    BY <1>1 DEF Ended
  <2>1. CASE home[s] = k /\ k = i
    BY <2>1
  <2>2. CASE home[s] = k /\ k # i
    <3>1. s \in ended
      BY <1>2, <1>3, <2>2
    <3> QED
      BY <2>2, <3>1 DEF StoreInvariant, Ended
  <2>3. CASE home[s] # k
    <3>1. s \in Session
      BY <1>1 DEF Types, TypeOK
    <3>2. ASSUME NEW r, r = [session |-> s, closed |-> FALSE] PROVE r # Nil /\ r.session = s
      BY <3>1, <3>2, RecordFacts
    <3>3. home'[sessions'[k].session] = k \/ sessions'[k] = Nil
      BY <1>4 DEF Homes
    <3>4. home'[disk'[k].session] = k \/ disk'[k] = Nil
      BY <1>4 DEF Homes
    <3> QED
      BY <1>1, <2>3, <3>2, <3>3, <3>4
  <2> QED
    BY <2>1, <2>2, <2>3
<1> QED
  BY <1>1, <1>4, <1>5, <1>6 DEF StoreInvariant

LEMMA RemoveKeeps ==
    ASSUME StoreInvariant, NEW a \in Actor, Remove(a)
    PROVE  StoreInvariant'
<1>0. PICK i, m : i \in ID /\ i = sid[a] /\ m = meta[a]
  BY DEF Remove, StoreInvariant, Types
<1>1. WorkingOn(a) /\ UNCHANGED <<sessions, home, asked>> /\ op[a] \in Op /\ Types'
  BY <1>0, Leaving DEF Remove, StoreInvariant, Types
<1>2. op[a] \in {"remove", "rollback"}
  BY <1>1 DEF Remove, WorkingOn, Saving, Updating, Closing, Op
<1>3. sessions[i] = Nil
  BY <1>0, <1>1, <1>2 DEF WorkingOn, Removing
<1>4. disk'[i] = Nil /\ \A k \in ID : k # i => disk'[k] = disk[k]
  BY <1>0 DEF Remove, StoreInvariant, Types
<1>5. Agrees(i)'
  BY <1>1, <1>3, <1>4 DEF Agrees, Harmless
<1>6. saved' = saved
  BY <1>2 DEF Remove, Succeeds
<1>7. \A s \in saved \ (asked \union failed) : home[s] # i
  <2> SUFFICES ASSUME NEW s \in saved \ (asked \union failed), home[s] = i PROVE FALSE
    OBVIOUS
  <2>1. sessions[i] = [session |-> s, closed |-> FALSE] /\ s \in Session
    BY DEF StoreInvariant, Saved, Types, TypeOK
  <2> QED
    BY <1>3, <2>1, RecordFacts
<1>8. \A s \in ended' : Nil # [session |-> s, closed |-> FALSE]
  BY <1>1, RecordFacts DEF Types, TypeOK
<1> QED
  BY <1>0, <1>3, <1>4, <1>5, <1>6, <1>7, <1>8, Finishing

LEMMA RenameKeeps ==
    ASSUME StoreInvariant, NEW a \in Actor, Rename(a)
    PROVE  StoreInvariant'
<1>0. PICK i, m : i \in ID /\ i = sid[a] /\ m = meta[a]
  BY DEF Rename, StoreInvariant, Types
<1>1. WorkingOn(a) /\ UNCHANGED <<sessions, home, asked>> /\ op[a] \in Op /\ Types'
  BY <1>0, Leaving DEF Rename, StoreInvariant, Types
<1>2. /\ disk'[i] = image[a] /\ image[a] \in Record
      /\ \A k \in ID : k # i => disk'[k] = disk[k]
      /\ failed' = failed
  BY <1>0, <1>1 DEF Rename, WorkingOn, Succeeds, StoreInvariant, Types, TypeOK
<1>3. op[a] \in {"save", "update", "MarkClosed"}
  BY <1>1 DEF Rename, WorkingOn, Removing, Op
<1>4. /\ \A s \in saved \ (asked \union failed) : home[s] = i =>
            /\ sessions[i] = [session |-> s, closed |-> FALSE]
            /\ disk[i] = [session |-> s, closed |-> FALSE]
      /\ \A s \in ended :
            /\ sessions[i] # [session |-> s, closed |-> FALSE]
            /\ disk[i] # [session |-> s, closed |-> FALSE]
  BY <1>0 DEF StoreInvariant, Saved, Ended
<1>5. CASE op[a] = "save"
  <2>1. /\ image[a] = [session |-> m, closed |-> FALSE] /\ sessions[i] = image[a] /\ m # Nil
        /\ saved' = saved \union {m} /\ ended' = ended
    BY <1>0, <1>1, <1>5 DEF WorkingOn, Saving, Rename, Succeeds, Ends
  <2>2. image[a] # Nil /\ image[a].session = m /\ image[a].closed = FALSE
    BY <1>2, <2>1, RecordFacts
  <2>3. Agrees(i)'
    BY <1>0, <1>1, <1>2, <2>1, <2>2 DEF Agrees, Harmless
  <2>4. home[m] = i
    BY <1>0, <2>1, <2>2 DEF StoreInvariant, Homes
  <2>5. \A s \in saved' \ (asked \union failed) : home[s] = i =>
            /\ sessions[i] = [session |-> s, closed |-> FALSE]
            /\ disk'[i] = [session |-> s, closed |-> FALSE]
    <3>1. TAKE s \in saved' \ (asked \union failed)
    <3>2. CASE s = m
      BY <1>2, <2>1, <3>2
    <3>3. CASE s # m
      <4>1. home[s] = i => sessions[i] = [session |-> s, closed |-> FALSE]
        BY <1>4, <2>1, <3>3
      <4> QED
        BY <1>2, <2>1, <4>1
    <3> QED
      BY <3>2, <3>3
  <2>6. \A s \in ended' : home[s] = i =>
            /\ sessions[i] # [session |-> s, closed |-> FALSE]
            /\ disk'[i] # [session |-> s, closed |-> FALSE]
    BY <1>2, <1>4, <2>1
  <2>7. disk'[i] # Nil => home[disk'[i].session] = i
    BY <1>2, <2>2, <2>4
  <2> QED
    BY <1>0, <1>2, <2>3, <2>5, <2>6, <2>7, Finishing
<1>6. CASE op[a] = "update"
  <2>1. image[a] = disk[i] /\ Agrees(i) /\ saved' = saved /\ ended' = ended
    BY <1>0, <1>1, <1>6 DEF WorkingOn, Updating, Writes, Rename, Succeeds, Ends
  <2>2. Agrees(i)'
    BY <1>0, <1>1, <1>2, <2>1 DEF Agrees, Harmless
  <2>3. disk[i] # Nil => home[disk[i].session] = i
    BY <1>0 DEF StoreInvariant, Homes
  <2> QED
    BY <1>0, <1>2, <1>4, <2>1, <2>2, <2>3, Finishing
<1>7. CASE op[a] = "MarkClosed"
  <2>1. /\ image[a] = [session |-> disk[i].session, closed |-> TRUE] /\ disk[i] # Nil
        /\ sessions[i] = [session |-> m, closed |-> TRUE] /\ m # Nil
        /\ m \in failed \/ disk[i].session = m
        /\ saved' = saved
    BY <1>0, <1>1, <1>7 DEF WorkingOn, Closing, Writes, Rename, Succeeds
  <2>2. \A s : /\ sessions[i] # [session |-> s, closed |-> FALSE]
               /\ image[a] # [session |-> s, closed |-> FALSE]
    BY <2>1, RecordsEqual
  <2>3. m \in Session /\ sessions[i] # Nil /\ sessions[i].session = m
    <3>1. m \in Session
      BY <1>0, <2>1 DEF StoreInvariant, Types, TypeOK
    <3>2. sessions[i].session = m
      BY <2>1
    <3>3. [session |-> m, closed |-> TRUE] # Nil
      BY <3>1, RecordFacts
    <3> QED
      BY <2>1, <3>1, <3>2, <3>3
  <2>4. image[a] # Nil /\ image[a].session = disk[i].session /\ image[a].closed = TRUE
    <3>1. image[a].session = disk[i].session /\ image[a].closed = TRUE
      BY <2>1
    <3> QED
      BY <1>2, <3>1, RecordFacts
  <2>5. Agrees(i)'
    BY <1>0, <1>1, <1>2, <2>1, <2>3, <2>4 DEF Agrees, Harmless
  <2>6. home[disk[i].session] = i
    BY <1>0, <2>1 DEF StoreInvariant, Homes
  <2> QED
    BY <1>0, <1>2, <1>4, <2>1, <2>2, <2>4, <2>5, <2>6, Finishing
<1> QED
  BY <1>3, <1>5, <1>6, <1>7

-----------------------------------------------------------------------------
(* The daemon dies.                                                         *)

LEMMA CrashKeeps ==
    ASSUME StoreInvariant, Crash
    PROVE  StoreInvariant'
<1>1. Types'
  BY TypesOfCrash
<1>0. PICK unread \in SUBSET {id \in ID : Restorable(id)} :
        /\ sessions' = [id \in ID |->
                IF Restorable(id) /\ id \notin unread THEN disk[id] ELSE Nil]
        /\ failed' = failed \union {disk[id].session : id \in unread}
  BY DEF Crash
<1>2. /\ UNCHANGED <<disk, made, home, saved, asked, ended>>
      /\ \A k \in ID : sessions'[k] =
            IF Restorable(k) /\ k \notin unread THEN disk[k] ELSE Nil
      /\ \A k \in unread : disk[k].session \in failed'
      /\ failed \subseteq failed'
      /\ \A b \in Actor : ~InFile(b)'
  BY <1>0 DEF Crash, Forget, InFile, Writes, files
<1>3. \A k \in ID : disk[k] = Nil \/ disk[k] \in Record
  BY DEF StoreInvariant, Types
<1>4. Locking' /\ Working'
  BY <1>2 DEF Locking, Working
<1>5. Idle'
  <2> SUFFICES ASSUME NEW k \in ID PROVE Agrees(k)'
    BY DEF Idle
  <2>1. CASE Restorable(k) /\ k \notin unread
    BY <1>2, <2>1, RecordFacts DEF Agrees, Harmless, Restorable
  <2>2. CASE ~Restorable(k)
    BY <1>2, <1>3, <2>2 DEF Agrees, Harmless, Restorable
  <2>3. CASE k \in unread
    BY <1>2, <2>3 DEF Agrees, Harmless
  <2> QED
    BY <2>1, <2>2, <2>3
<1>6. Homes'
  BY <1>2, RecordFacts DEF StoreInvariant, Homes, Restorable
<1>7. Saved'
  <2> SUFFICES ASSUME NEW s \in saved \ (asked \union failed')
               PROVE  /\ sessions'[home[s]] = [session |-> s, closed |-> FALSE]
                      /\ disk[home[s]] = [session |-> s, closed |-> FALSE]
    BY <1>2 DEF Saved
  <2>1. s \in Session /\ home[s] \in ID
    BY DEF StoreInvariant, Types, TypeOK, Homes
  <2>2. disk[home[s]] = [session |-> s, closed |-> FALSE]
    <3>1. Saved
      BY DEF StoreInvariant
    <3>2. failed \subseteq failed'
      BY <1>2
    <3>3. s \in saved \ (asked \union failed)
      BY <3>2, Zenon
    <3> QED
      BY <3>1, <3>3, Zenon DEF Saved
  <2>3. LET r == [session |-> s, closed |-> FALSE]
        IN  r \in Record /\ r.session = s /\ r.closed = FALSE
    BY <2>1, RecordFacts
  <2>4. Restorable(home[s])
    BY <2>2, <2>3 DEF Restorable
  <2>5. home[s] \notin unread
    <3>1. disk[home[s]].session = s
      BY <2>2, <2>3
    <3> QED
      BY <1>2, <3>1
  <2> QED
    BY <1>2, <2>1, <2>2, <2>4, <2>5
<1>8. Ended'
  <2> SUFFICES ASSUME NEW k \in ID, NEW s \in ended
               PROVE  /\ sessions'[k] # [session |-> s, closed |-> FALSE]
                      /\ disk[k] # [session |-> s, closed |-> FALSE]
    BY <1>2 DEF Ended
  <2>1. s \in Session
    BY DEF StoreInvariant, Types, TypeOK
  <2>2. disk[k] # [session |-> s, closed |-> FALSE] /\ Nil # [session |-> s, closed |-> FALSE]
    BY <2>1, RecordFacts DEF StoreInvariant, Ended
  <2> QED
    BY <1>2, <2>2
<1> QED
  BY <1>1, <1>4, <1>5, <1>6, <1>7, <1>8 DEF StoreInvariant

-----------------------------------------------------------------------------
LEMMA StoreInvariantInitially == Init => StoreInvariant
<1> SUFFICES ASSUME Init PROVE StoreInvariant
  OBVIOUS
<1>1. Types
  BY StoreAssumption DEF Init, Types, TypeOK, PC
<1>2. Locking /\ Working
  BY DEF Init, Locking, Working, InFile, Writes
<1>3. Homes
  BY StoreAssumption DEF Init, Homes, InFile, Writes, Session
<1>4. Idle /\ Saved /\ Ended
  BY DEF Init, Idle, Agrees, Harmless, Saved, Ended
<1> QED
  BY <1>1, <1>2, <1>3, <1>4 DEF StoreInvariant

\* Registry and files agree wherever nobody works on them, and between the
\* two changes of an operation they differ by that operation only.
THEOREM StoreInvariantTheorem == Spec => []StoreInvariant
<1>1. StoreInvariant /\ [Next]_vars => StoreInvariant'
  <2> SUFFICES ASSUME StoreInvariant, [Next]_vars PROVE StoreInvariant'
    OBVIOUS
  <2>1. CASE UNCHANGED vars
    <3>1. UNCHANGED <<sessions, disk, tmp, fileLock, mu, pc, op, sid, meta, image>>
      BY <2>1 DEF vars
    <3>2. UNCHANGED <<made, faults, crashes, home, saved, asked, ended, failed>>
      BY <2>1 DEF vars
    <3>3. Types'
      BY <3>1, <3>2 DEF StoreInvariant, Types, TypeOK
    <3>4. Locking' /\ Homes' /\ Saved' /\ Ended'
      BY <3>1, <3>2 DEF StoreInvariant, Locking, Homes, Saved, Ended, InFile, Writes
    <3>5. Working'
      BY <3>1, <3>2 DEF StoreInvariant, Working, WorkingOn, Saving, Updating, Closing,
                        Removing, Agrees, Harmless, InFile, Writes
    <3>6. Idle'
      BY <3>1, <3>2 DEF StoreInvariant, Idle, Agrees, Harmless
    <3> QED
      BY <3>3, <3>4, <3>5, <3>6 DEF StoreInvariant
  <2>2. ASSUME NEW a \in Actor,
               Call(a) \/ Decline(a) \/ Register(a) \/ Close(a) \/ Purge(a)
                \/ Rollback(a) \/ Persist(a)
        PROVE  StoreInvariant'
    BY <2>2, CallKeeps, RegisterKeeps, CloseKeeps, TakingOut, PersistKeeps
  <2>3. ASSUME NEW a \in Actor,
               Enter(a) \/ Load(a) \/ LoadClosed(a) \/ LoadFails(a) \/ Create(a)
                \/ Fill(a) \/ Rename(a) \/ Remove(a) \/ IOFails(a)
        PROVE  StoreInvariant'
    BY <2>3, WorkKeeps, GivingUp, RenameKeeps, RemoveKeeps
  <2> QED
    BY <2>1, <2>2, <2>3, CrashKeeps DEF Next
<1> QED
  BY <1>1, StoreInvariantInitially, PTL DEF Spec

\* Types of registry, files and goroutines.
THEOREM StoreTypeOK == Spec => []TypeOK
<1>1. StoreInvariant => TypeOK
  BY DEF StoreInvariant, Types
<1> QED
  BY <1>1, StoreInvariantTheorem, PTL

\* No crash between any two file operations, no failed write, rename or
\* removal and no operation on another session loses a session whose creation
\* was written, unless a starting daemon could not read its file.
THEOREM SavedSurvivesTheorem == Spec => []SavedSurvives
<1>1. StoreInvariant => SavedSurvives
  BY DEF StoreInvariant, Saved, SavedSurvives
<1> QED
  BY <1>1, StoreInvariantTheorem, PTL

\* A session whose close or removal was written never comes back, in no later
\* daemon either.
THEOREM EndedStaysEndedTheorem == Spec => []EndedStaysEnded
<1>1. StoreInvariant => EndedStaysEnded
  BY DEF StoreInvariant, Ended, EndedStaysEnded
<1> QED
  BY <1>1, StoreInvariantTheorem, PTL

\* A file that nobody works on says what the registry says, but for a session
\* whose own creation or end could not be written.
THEOREM FailureStaysOwnTheorem == Spec => []FailureStaysOwn
<1>1. StoreInvariant => FailureStaysOwn
  <2> SUFFICES ASSUME StoreInvariant, NEW id \in ID, fileLock[id] = Nil
               PROVE  IF sessions[id] # Nil
                      THEN sessions[id].session \in failed \/ disk[id] = sessions[id]
                      ELSE disk[id] # Nil => disk[id].closed \/ disk[id].session \in failed
    BY DEF FailureStaysOwn
  <2>1. Agrees(id)
    BY DEF StoreInvariant, Idle
  <2>2. disk[id] # Nil => disk[id].session # Nil
    BY RecordFacts, StoreAssumption DEF StoreInvariant, Types, Session
  <2> QED
    BY <2>1, <2>2 DEF Agrees, Harmless
<1> QED
  BY <1>1, StoreInvariantTheorem, PTL

=============================================================================
