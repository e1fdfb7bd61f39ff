-------------------------- MODULE SessionLifecycle --------------------------
(***************************************************************************)
(* The session lifecycle of the botmux daemon: the in-memory registry of   *)
(* sessions, the registry of worker generations, the session files on      *)
(* disk, and the goroutines that create, spawn, close, purge, restore and  *)
(* supervise sessions while worker processes connect, die and are          *)
(* replaced.                                                               *)
(*                                                                         *)
(* A step of an actor is a stretch of code that holds a lock (sessionsMu,  *)
(* workersMu + sessionsMu, store.mu) or a single call; between two steps   *)
(* anything else may run.  The per-session file lock is held across steps. *)
(* Pointers are members of Meta and Handle and are never reused, so that a *)
(* stale pointer stays distinguishable from every later one.               *)
(*                                                                         *)
(* Turns, output and the cancel watchdog with its restart fence are not    *)
(* state of this module, nor is the retry budget of the monitor.           *)
(***************************************************************************)
EXTENDS Naturals, FiniteSets

CONSTANTS
    ID,        \* session IDs
    Meta,      \* *SessionMeta pointers
    Handle,    \* *WorkerHandle pointers, one worker process each
    Caller,    \* goroutines of HTTP and TCP requests and of the GC
    Spawner,   \* goroutines started by reconcileSessions
    Nil,
    Forces,    \* values of ?force that requests use
    MaxStops,  \* bound on calls of Stop
    MaxCrashes \* bound on daemon crashes

ASSUME DistinctAssumption ==
    /\ Nil \notin ID \union Meta \union Handle \union Caller \union Spawner
    /\ Caller \intersect Spawner = {}
    /\ Handle \intersect (Caller \union Spawner) = {}
ASSUME ForcesAssumption == Forces \subseteq BOOLEAN
ASSUME BoundAssumption == MaxStops \in Nat /\ MaxCrashes \in Nat

\* Everything that runs lifecycle code in the daemon; a handle stands for the
\* handleConn goroutine that reads from its worker.
Actor == Caller \union Spawner \union Handle

VARIABLES
    daemon,    \* "running", "stopping", "waiting", "stopped", "down"
    stops,     \* number of calls of Stop so far
    crashes,   \* number of crashes so far
    waitSet,   \* handles waitForWorkersExit waits for
    sessions,  \* d.sessions
    sid,       \* meta.SessionID, Nil for memory not allocated yet
    origin,    \* the NewSession call the session comes from
    closed,    \* meta.Closed
    status,    \* meta.Status
    disk,      \* <sessions_dir>/<id>.json: its origin and closed flag, or Nil
    workers,   \* d.workers
    owners,    \* d.workerOwners
    madeFor,   \* the meta captured by the goroutines of a handle
    proc,      \* the worker process: "unused", "running", "doomed" (killed, told
               \* to close, rejected), "orphan" (its daemon is gone), "exited"
    conn,      \* handle.Conn: the process at the other end, or Nil
    shut,      \* handle.closed
    watcher,   \* waitWorkerExit: "none", "armed", "done"
    startup,   \* monitorReady: "none" (not started), "waiting", "expired"
               \* (10 s are over), "over" (also: handle.isReady)
    lock,      \* holder of the session file lock
    pc,        \* per actor: where it is
    aid, ameta, ahandle, aold,  \* per actor: local id, meta, handle, old handle
    snapshot   \* metas reconcileSessions has still to look at

daemonVars == <<daemon, stops, crashes, waitSet>>
metaVars   == <<sid, origin, closed, status>>
workerVars == <<workers, owners, madeFor>>
procVars   == <<proc, conn, shut>>
watchVars  == <<watcher, startup>>
localVars  == <<pc, aid, ameta, ahandle, aold>>
vars == <<daemonVars, sessions, metaVars, disk, workerVars, procVars,
          watchVars, lock, localVars, snapshot>>

Status == {"CREATED", "SPAWNING", "READY", "RECOVERING", "CLOSED"}

PC == {"idle", "new", "insert", "save", "spawn", "stopold", "persist", "update",
       "rollback", "unsave", "mark", "markdisk", "sendclose", "purge", "remove",
       "killold", "look", "route", "ready"}

\* The places where an actor holds the file lock of its session.
Locked == {"save", "update", "unsave", "markdisk", "remove"}

Record == [origin : Meta, closed : BOOLEAN]

ASSUME RecordAssumption == Nil \notin Record

Closing == daemon \in {"stopping", "waiting", "stopped"}    \* d.closed
Up == daemon # "down"

Current(m) == m # Nil /\ sessions[sid[m]] = m   \* isCurrentSessionLocked

Registered(h) == \E id \in ID : workers[id] = h

FreshMeta(m)   == sid[m] = Nil
FreshHandle(h) == proc[h] = "unused"

-----------------------------------------------------------------------------
Init ==
    /\ daemon = "running" /\ stops = 0 /\ crashes = 0 /\ waitSet = {}
    /\ sessions = [id \in ID |-> Nil]
    /\ sid = [m \in Meta |-> Nil]
    /\ origin = [m \in Meta |-> Nil]
    /\ closed = [m \in Meta |-> FALSE]
    /\ status = [m \in Meta |-> "CREATED"]
    /\ disk = [id \in ID |-> Nil]
    /\ workers = [id \in ID |-> Nil]
    /\ owners = [h \in Handle |-> Nil]
    /\ madeFor = [h \in Handle |-> Nil]
    /\ proc = [h \in Handle |-> "unused"]
    /\ conn = [h \in Handle |-> Nil]
    /\ shut = [h \in Handle |-> FALSE]
    /\ watcher = [h \in Handle |-> "none"]
    /\ startup = [h \in Handle |-> "none"]
    /\ lock = [id \in ID |-> Nil]
    /\ pc = [a \in Actor |-> "idle"]
    /\ aid = [a \in Actor |-> Nil]
    /\ ameta = [a \in Actor |-> Nil]
    /\ ahandle = [a \in Actor |-> Nil]
    /\ aold = [a \in Actor |-> Nil]
    /\ snapshot = {}

\* Moves of an actor through its code.
Goto(a, place) == pc' = [pc EXCEPT ![a] = place]

Keep == UNCHANGED <<aid, ameta, ahandle, aold>>

Return(a) ==
    /\ Goto(a, "idle")
    /\ aid' = [aid EXCEPT ![a] = Nil]
    /\ ameta' = [ameta EXCEPT ![a] = Nil]
    /\ ahandle' = [ahandle EXCEPT ![a] = Nil]
    /\ aold' = [aold EXCEPT ![a] = Nil]

Acquire(a) ==
    /\ lock[aid[a]] = Nil
    /\ lock' = [lock EXCEPT ![aid[a]] = a]

\* The lock is free, is taken, and is given back within the step.
Pass(a) == lock[aid[a]] = Nil /\ UNCHANGED lock

Release(a) == lock' = [lock EXCEPT ![aid[a]] = Nil]

-----------------------------------------------------------------------------
(* Creating a session: handleCreateSession, NewSession.                    *)

\* A request that creates session id.  Over HTTP, ?force=true, or a closed
\* session with the ID, has the ID purged first; a new_session over TCP, like a
\* request for an unused ID, goes straight to NewSession.
CreateStart(a, id) ==
    /\ Up
    /\ pc[a] = "idle"
    /\ \E force \in Forces :
        \/ /\ force \/ (sessions[id] # Nil /\ closed[sessions[id]])
           /\ Goto(a, "purge")
        \/ ~force /\ Goto(a, "new")
    /\ aid' = [aid EXCEPT ![a] = id]
    /\ UNCHANGED <<ameta, ahandle, aold, daemonVars, sessions, metaVars, disk,
                   workerVars, procVars, watchVars, lock, snapshot>>

\* NewSession: the early isClosed check.
NewCheck(a) ==
    /\ pc[a] = "new"
    /\ IF Closing THEN Return(a) ELSE Goto(a, "insert") /\ Keep
    /\ UNCHANGED <<daemonVars, sessions, metaVars, disk, workerVars, procVars,
                   watchVars, lock, snapshot>>

\* NewSession: the file lock, then the registration under sessionsMu.
Insert(a) ==
    /\ pc[a] = "insert"
    /\ \/ /\ sessions[aid[a]] # Nil          \* already exists
          /\ Pass(a)
          /\ Return(a)
          /\ UNCHANGED <<sessions, metaVars>>
       \/ /\ sessions[aid[a]] = Nil
          /\ Acquire(a)
          /\ \E m \in Meta :
              /\ FreshMeta(m)
              /\ sessions' = [sessions EXCEPT ![aid[a]] = m]
              /\ sid' = [sid EXCEPT ![m] = aid[a]]
              /\ origin' = [origin EXCEPT ![m] = m]
              /\ ameta' = [ameta EXCEPT ![a] = m]
          /\ Goto(a, "save")
          /\ UNCHANGED <<closed, status, aid, ahandle, aold>>
    /\ UNCHANGED <<daemonVars, disk, workerVars, procVars, watchVars, snapshot>>

\* NewSession: store.save, then unlockFile.
Save(a) ==
    /\ pc[a] = "save"
    /\ disk' = [disk EXCEPT ![aid[a]] =
                   [origin |-> origin[ameta[a]], closed |-> closed[ameta[a]]]]
    /\ Release(a)
    /\ Goto(a, "spawn") /\ Keep
    /\ UNCHANGED <<daemonVars, sessions, metaVars, workerVars, procVars,
                   watchVars, snapshot>>

\* rollbackNewSession, registry part.
Rollback(a) ==
    /\ pc[a] = "rollback"
    /\ IF Current(ameta[a])
       THEN /\ Acquire(a)
            /\ sessions' = [sessions EXCEPT ![aid[a]] = Nil]
            /\ Goto(a, "unsave") /\ Keep
       ELSE /\ Pass(a)
            /\ Return(a)
            /\ UNCHANGED sessions
    /\ UNCHANGED <<daemonVars, metaVars, disk, workerVars, procVars, watchVars,
                   snapshot>>

\* rollbackNewSession: store.remove.
Unsave(a) ==
    /\ pc[a] = "unsave"
    /\ disk' = [disk EXCEPT ![aid[a]] = Nil]
    /\ Release(a)
    /\ Return(a)
    /\ UNCHANGED <<daemonVars, sessions, metaVars, workerVars, procVars,
                   watchVars, snapshot>>

-----------------------------------------------------------------------------
(* Spawning a worker: spawnWorkerForSession.                               *)

\* closeMu, workersMu and sessionsMu are held together: the daemon is open,
\* the session is the registered one, and the new handle, whose process has
\* started, replaces the old.
Install(a, m, h) ==
    /\ FreshHandle(h)
    /\ madeFor' = [madeFor EXCEPT ![h] = m]
    /\ owners' = [owners EXCEPT ![h] = m]
    /\ workers' = [workers EXCEPT ![sid[m]] = h]
    /\ status' = [status EXCEPT ![m] = "SPAWNING"]
    /\ proc' = [proc EXCEPT ![h] = "running"]
    /\ ahandle' = [ahandle EXCEPT ![a] = h]

\* The process cannot be started: the new handle is withdrawn again, the old
\* one stays displaced.
StartFails(a, m) ==
    /\ workers' = [workers EXCEPT ![sid[m]] = Nil]
    /\ status' = [status EXCEPT ![m] = "RECOVERING"]
    /\ UNCHANGED <<owners, madeFor, proc, ahandle>>

Spawn(a) ==
    /\ pc[a] = "spawn"
    /\ \/ /\ Closing                           \* errDaemonClosed
          /\ IF a \in Caller THEN Goto(a, "rollback") /\ Keep ELSE Return(a)
          /\ UNCHANGED <<status, workerVars, proc>>
       \/ /\ ~Closing /\ ~Current(ameta[a])    \* no longer current
          /\ Return(a)
          /\ UNCHANGED <<status, workerVars, proc>>
       \/ /\ ~Closing /\ Current(ameta[a])
          /\ (\E h \in Handle : Install(a, ameta[a], h)) \/ StartFails(a, ameta[a])
          /\ aold' = [aold EXCEPT ![a] = workers[aid[a]]]
          /\ Goto(a, "stopold")
          /\ UNCHANGED <<aid, ameta>>
    /\ UNCHANGED <<daemonVars, sessions, sid, origin, closed, disk, conn, shut,
                   watchVars, lock, snapshot>>

\* Mutant: nothing is killed.
DoomedNot(state) == state

\* What a process becomes that is killed, told to exit or rejected.
Doomed(state) == IF state \in {"running", "orphan"} THEN "doomed" ELSE state

\* stopWorkerHandle, and the end of PurgeSession: kill and disconnect.
Discard(h) ==
    /\ proc' = IF h = Nil THEN proc ELSE [proc EXCEPT ![h] = Doomed(@)]
    /\ conn' = IF h = Nil THEN conn ELSE [conn EXCEPT ![h] = Nil]
    /\ shut' = IF h = Nil THEN shut ELSE [shut EXCEPT ![h] = TRUE]

StopOld(a) ==
    /\ pc[a] = "stopold"
    /\ Discard(aold[a])
    /\ IF ahandle[a] = Nil
       THEN Return(a)
       ELSE /\ Goto(a, "persist")
            /\ aold' = [aold EXCEPT ![a] = Nil]
            /\ UNCHANGED <<aid, ameta, ahandle>>
    /\ UNCHANGED <<daemonVars, sessions, metaVars, disk, workerVars, watchVars,
                   lock, snapshot>>

-----------------------------------------------------------------------------
(* Writing a field of the session file: persistCurrentSession, and the     *)
(* store operation it guards.                                              *)

\* Mutant: the goroutines are started only if the worker PID was persisted.
AfterPersistWritten(a) ==
    LET written == pc[a] = "update" IN
    /\ Return(a)
    /\ watcher' = IF ahandle[a] = Nil \/ ~written THEN watcher
                  ELSE [watcher EXCEPT ![ahandle[a]] = "armed"]
    /\ startup' = IF ahandle[a] = Nil \/ ~written \/ startup[ahandle[a]] = "over"
                  THEN startup ELSE [startup EXCEPT ![ahandle[a]] = "waiting"]

\* What the spawning goroutine does next: it starts the goroutines of the new
\* handle.  A reader goroutine (ahandle is Nil) goes back to reading.
AfterPersist(a) ==
    /\ Return(a)
    /\ watcher' = IF ahandle[a] = Nil THEN watcher
                  ELSE [watcher EXCEPT ![ahandle[a]] = "armed"]
    /\ startup' = IF ahandle[a] = Nil \/ startup[ahandle[a]] = "over" THEN startup
                  ELSE [startup EXCEPT ![ahandle[a]] = "waiting"]

\* Mutant: a check by ID, as if an ID named the same session for ever.
PersistableById(m) == sessions[sid[m]] # Nil /\ ~closed[m]

Persistable(m) == Current(m) /\ ~closed[m]

\* The file lock, and the check that the meta is still current and open.
Persist(a) ==
    /\ pc[a] = "persist"
    /\ IF Persistable(ameta[a])
       THEN Acquire(a) /\ Goto(a, "update") /\ Keep /\ UNCHANGED watchVars
       ELSE Pass(a) /\ AfterPersist(a)
    /\ UNCHANGED <<daemonVars, sessions, metaVars, disk, workerVars, procVars,
                   snapshot>>

\* store.UpdateWorkerPID, UpdateLastActive, UpdateOutput, UpdateCliSessionID:
\* load the record of the ID and, unless it is gone or closed, save it with one
\* field changed.  That field is not part of Record, whose fields stay as they
\* were loaded.
Update(a) ==
    /\ pc[a] = "update"
    /\ Release(a)
    /\ AfterPersist(a)
    /\ UNCHANGED <<daemonVars, sessions, metaVars, disk, workerVars, procVars,
                   snapshot>>

-----------------------------------------------------------------------------
(* Closing: CloseSession, handleCloseSession, runGC; markSessionMetaClosed.*)

\* CloseSession resolves the ID; the file lock comes later.
CloseStart(a, id) ==
    /\ Up
    /\ pc[a] = "idle"
    /\ sessions[id] # Nil
    /\ aid' = [aid EXCEPT ![a] = id]
    /\ ameta' = [ameta EXCEPT ![a] = sessions[id]]
    /\ Goto(a, "mark")
    /\ UNCHANGED <<ahandle, aold, daemonVars, sessions, metaVars, disk, workerVars,
                   procVars, watchVars, lock, snapshot>>

\* The worker of m that a close request is sent to.
WorkerToClose(m) ==
    LET h == workers[sid[m]] IN
    IF h # Nil /\ owners[h] = m THEN h ELSE Nil

\* markSessionMetaClosed, memory part.
Mark(a) ==
    /\ pc[a] = "mark"
    /\ IF Current(ameta[a])
       THEN /\ Acquire(a)
            /\ closed' = [closed EXCEPT ![ameta[a]] = TRUE]
            /\ status' = [status EXCEPT ![ameta[a]] = "CLOSED"]
            /\ ahandle' = [ahandle EXCEPT ![a] = WorkerToClose(ameta[a])]
            /\ Goto(a, "markdisk")
            /\ UNCHANGED <<aid, ameta, aold>>
       ELSE /\ Pass(a)
            /\ Return(a)
            /\ UNCHANGED <<closed, status>>
    /\ UNCHANGED <<daemonVars, sessions, sid, origin, disk, workerVars, procVars,
                   watchVars, snapshot>>

\* store.MarkClosed, which loads the record first, then unlockFile.
MarkDisk(a) ==
    /\ pc[a] = "markdisk"
    /\ disk' = IF disk[aid[a]] = Nil THEN disk
               ELSE [disk EXCEPT ![aid[a]] = [origin |-> @.origin, closed |-> TRUE]]
    /\ Release(a)
    /\ IF ahandle[a] = Nil THEN Return(a) ELSE Goto(a, "sendclose") /\ Keep
    /\ UNCHANGED <<daemonVars, sessions, metaVars, workerVars, procVars, watchVars,
                   snapshot>>

\* closeSessionMeta: MsgClose, and a kill 2 s later.
SendClose(a) ==
    /\ pc[a] = "sendclose"
    /\ proc' = [proc EXCEPT ![ahandle[a]] = Doomed(@)]
    /\ Return(a)
    /\ UNCHANGED <<daemonVars, sessions, metaVars, disk, workerVars, conn, shut,
                   watchVars, lock, snapshot>>

-----------------------------------------------------------------------------
(* Purging: PurgeSession, which acts on whatever session has the ID.       *)

\* Mutant: the worker is left to waitWorkerExit.
PurgeSessionOnly(a) ==
    /\ pc[a] = "purge"
    /\ Acquire(a)
    /\ sessions' = [sessions EXCEPT ![aid[a]] = Nil]
    /\ aold' = [aold EXCEPT ![a] = workers[aid[a]]]
    /\ Goto(a, "remove")
    /\ UNCHANGED <<aid, ameta, ahandle, daemonVars, metaVars, disk, workerVars,
                   procVars, watchVars, snapshot>>

Purge(a) ==
    LET h == workers[aid[a]] IN
    /\ pc[a] = "purge"
    /\ Acquire(a)
    /\ workers' = [workers EXCEPT ![aid[a]] = Nil]
    /\ owners' = IF h = Nil THEN owners ELSE [owners EXCEPT ![h] = Nil]
    /\ sessions' = [sessions EXCEPT ![aid[a]] = Nil]
    /\ aold' = [aold EXCEPT ![a] = h]
    /\ Goto(a, "remove")
    /\ UNCHANGED <<aid, ameta, ahandle, daemonVars, metaVars, disk, madeFor,
                   procVars, watchVars, snapshot>>

\* store.remove, then unlockFile.
Remove(a) ==
    /\ pc[a] = "remove"
    /\ disk' = [disk EXCEPT ![aid[a]] = Nil]
    /\ Release(a)
    /\ Goto(a, "killold") /\ Keep
    /\ UNCHANGED <<daemonVars, sessions, metaVars, workerVars, procVars, watchVars,
                   snapshot>>

\* The purged worker is disconnected and killed; the request goes on to
\* NewSession.
KillOld(a) ==
    /\ pc[a] = "killold"
    /\ Discard(aold[a])
    /\ aold' = [aold EXCEPT ![a] = Nil]
    /\ Goto(a, "new")
    /\ UNCHANGED <<aid, ameta, ahandle, daemonVars, sessions, metaVars, disk,
                   workerVars, watchVars, lock, snapshot>>

-----------------------------------------------------------------------------
(* The monitor: reconcileSessions.                                         *)

\* One pass begins when every spawn of the previous one has returned.  It may
\* begin during Stop too: the loop reads d.monitorStop again in every round, and
\* stopSessionMonitor has set it to nil.
Snapshot ==
    /\ Up
    /\ snapshot = {}
    /\ \A s \in Spawner : pc[s] = "idle"
    /\ snapshot' = {sessions[id] : id \in ID} \ {Nil}
    /\ snapshot' # {}
    /\ UNCHANGED <<daemonVars, sessions, metaVars, disk, workerVars, procVars,
                   watchVars, lock, localVars>>

\* The loop body, first read: a closed session is skipped.
ReconcileCheck(s, m) ==
    /\ m \in snapshot
    /\ pc[s] = "idle"
    /\ \A t \in Spawner : pc[t] # "look"
    /\ snapshot' = snapshot \ {m}
    /\ IF closed[m]
       THEN UNCHANGED localVars
       ELSE /\ Goto(s, "look")
            /\ aid' = [aid EXCEPT ![s] = sid[m]]
            /\ ameta' = [ameta EXCEPT ![s] = m]
            /\ UNCHANGED <<ahandle, aold>>
    /\ UNCHANGED <<daemonVars, sessions, metaVars, disk, workerVars, procVars,
                   watchVars, lock>>

\* IsAlive; fresh says whether a heartbeat arrived within 30 s.
Alive(h, fresh) == ~shut[h] /\ conn[h] # Nil /\ fresh

\* No worker, or a dead one that is not just starting.
NeedsSpawn(m, h, fresh) ==
    h # Nil => ~Alive(h, fresh) /\ status[m] # "SPAWNING"

\* Second read.  The retry budget may keep the monitor from spawning.
ReconcileLook(s) ==
    LET m == ameta[s] IN
    /\ pc[s] = "look"
    /\ \/ /\ \E fresh \in BOOLEAN : NeedsSpawn(m, workers[sid[m]], fresh)
          /\ Goto(s, "spawn") /\ Keep
       \/ Return(s)
    /\ UNCHANGED <<daemonVars, sessions, metaVars, disk, workerVars, procVars,
                   watchVars, lock, snapshot>>

-----------------------------------------------------------------------------
(* Worker processes and their connections: handleConn, routeMessage.       *)

\* Mutants: the nonce is not compared; closed sessions are let in.
ExpectedAnyNonce(h) ==
    LET id == sid[madeFor[h]]
        m  == sessions[id]
    IN  m # Nil /\ ~closed[m] /\ workers[id] # Nil /\ owners[workers[id]] = m

ExpectedClosed(h) ==
    LET id == sid[madeFor[h]]
        m  == sessions[id]
    IN  m # Nil /\ workers[id] = h /\ owners[h] = m

\* The checks of handleConn under workersMu and sessionsMu; the nonce is the
\* handle's identity.
Expected(h) ==
    LET id == sid[madeFor[h]]
        m  == sessions[id]
    IN  /\ m # Nil /\ ~closed[m]
        /\ workers[id] # Nil /\ owners[workers[id]] = m
        /\ workers[id] = h

\* A worker process, new or reconnecting, has sent READY with its nonce, and
\* may be dead when that is read.  It is attached, or rejected and then exits.
Connect(h) ==
    /\ Up
    /\ proc[h] # "unused"
    /\ pc[h] = "idle"
    /\ IF Expected(h)
       THEN /\ conn' = [conn EXCEPT ![workers[sid[madeFor[h]]]] = h]
            /\ Goto(h, "route")
            /\ aid' = [aid EXCEPT ![h] = sid[madeFor[h]]]
            /\ ameta' = [ameta EXCEPT ![h] = madeFor[h]]
            /\ UNCHANGED <<proc, ahandle, aold>>
       ELSE /\ proc' = [proc EXCEPT ![h] = Doomed(@)]
            /\ UNCHANGED <<conn, localVars>>
    /\ UNCHANGED <<daemonVars, sessions, metaVars, disk, workerVars, shut,
                   watchVars, lock, snapshot>>

\* routeMessage: isCurrentSessionWorker, whose locks are released again.
Route(h) ==
    LET m == ameta[h] IN
    /\ pc[h] = "route"
    /\ IF workers[sid[m]] = h /\ owners[h] = m /\ Current(m)
       THEN Goto(h, "ready") /\ Keep
       ELSE Return(h)
    /\ UNCHANGED <<daemonVars, sessions, metaVars, disk, workerVars, procVars,
                   watchVars, lock, snapshot>>

\* routeMessage, READY: the status under sessionsMu, then markReady, which
\* ends monitorReady, then the activity is persisted.
ReadyStatus(m) == IF closed[m] THEN status[m] ELSE "READY"

Ready(h) ==
    LET m == ameta[h] IN
    /\ pc[h] = "ready"
    /\ IF Current(m)
       THEN /\ status' = [status EXCEPT ![m] = ReadyStatus(m)]
            /\ startup' = [startup EXCEPT ![h] =
                              IF @ = "expired" THEN @ ELSE "over"]
            /\ Goto(h, "persist") /\ Keep
       ELSE /\ Return(h)
            /\ UNCHANGED <<status, startup>>
    /\ UNCHANGED <<daemonVars, sessions, sid, origin, closed, disk, workerVars,
                   procVars, watcher, lock, snapshot>>

\* A worker process ends, by itself or because it was told to.
Exit(h) ==
    /\ proc[h] \in {"running", "doomed", "orphan"}
    /\ proc' = [proc EXCEPT ![h] = "exited"]
    /\ UNCHANGED <<daemonVars, sessions, metaVars, disk, workerVars, conn, shut,
                   watchVars, lock, localVars, snapshot>>

\* waitWorkerExit: only the current worker of a current session moves the
\* session to RECOVERING.
OwnedCurrent(h) ==
    LET m == owners[h] IN
    m # Nil /\ workers[sid[madeFor[h]]] = h /\ Current(m)

WatchExit(h) ==
    /\ watcher[h] = "armed"
    /\ proc[h] = "exited"
    /\ watcher' = [watcher EXCEPT ![h] = "done"]
    /\ owners' = [owners EXCEPT ![h] = Nil]
    /\ IF OwnedCurrent(h)
       THEN /\ workers' = [workers EXCEPT ![sid[madeFor[h]]] = Nil]
            /\ status' = IF closed[owners[h]] THEN status
                         ELSE [status EXCEPT ![owners[h]] = "RECOVERING"]
       ELSE UNCHANGED <<workers, status>>
    /\ conn' = [conn EXCEPT ![h] = Nil]
    /\ shut' = [shut EXCEPT ![h] = TRUE]
    /\ UNCHANGED <<daemonVars, sessions, sid, origin, closed, disk, madeFor, proc,
                   startup, lock, localVars, snapshot>>

\* monitorReady, 10 s without READY: isCurrentWorker under workersMu...
TimeoutCheck(h) ==
    /\ startup[h] = "waiting"
    /\ startup' = [startup EXCEPT ![h] =
                     IF workers[sid[madeFor[h]]] = h THEN "expired" ELSE "over"]
    /\ UNCHANGED <<daemonVars, sessions, metaVars, disk, workerVars, procVars,
                   watcher, lock, localVars, snapshot>>

\* ... then the status under sessionsMu.
TimeoutMark(h) ==
    LET m == madeFor[h] IN
    /\ startup[h] = "expired"
    /\ startup' = [startup EXCEPT ![h] = "over"]
    /\ status' = IF ~closed[m] /\ status[m] # "READY"
                 THEN [status EXCEPT ![m] = "RECOVERING"] ELSE status
    /\ UNCHANGED <<daemonVars, sessions, sid, origin, closed, disk, workerVars,
                   procVars, watcher, lock, localVars, snapshot>>

-----------------------------------------------------------------------------
(* Shutdown, crash and restart of the daemon.                              *)

\* Mutant: only workers that can be told to exit are waited for.
ConnectedWorkerSet == {h \in Handle : Registered(h) /\ conn[h] # Nil}

WorkerSet == {workers[id] : id \in ID} \ {Nil}

\* Stop: d.closed is set, the listeners are closed.
StopBegin ==
    /\ daemon = "running"
    /\ stops < MaxStops
    /\ daemon' = "stopping"
    /\ stops' = stops + 1
    /\ UNCHANGED <<crashes, waitSet, sessions, metaVars, disk, workerVars,
                   procVars, watchVars, lock, localVars, snapshot>>

\* restartWorkersForShutdown, then the snapshot of waitForWorkersExit; the
\* workers are told to exit and are killed after 3 s.
StopWait ==
    /\ daemon = "stopping"
    /\ daemon' = "waiting"
    /\ waitSet' = WorkerSet
    /\ proc' = [h \in Handle |-> IF h \in WorkerSet THEN Doomed(proc[h]) ELSE proc[h]]
    /\ UNCHANGED <<stops, crashes, sessions, metaVars, disk, workerVars, conn,
                   shut, watchVars, lock, localVars, snapshot>>

\* waitForWorkersExit returns when every ExitDone is closed; d.cancel ends the
\* monitorReady goroutines.
StopEnd ==
    /\ daemon = "waiting"
    /\ \A h \in waitSet : watcher[h] = "done"
    /\ daemon' = "stopped"
    /\ startup' = [h \in Handle |-> IF startup[h] = "waiting" THEN "over" ELSE startup[h]]
    /\ UNCHANGED <<stops, crashes, waitSet, sessions, metaVars, disk, workerVars,
                   procVars, watcher, lock, localVars, snapshot>>

\* The process ends, after Stop or in a crash: memory is gone, files and
\* worker processes are not.
Lose ==
    /\ daemon' = "down"
    /\ waitSet' = {}
    /\ sessions' = [id \in ID |-> Nil]
    /\ workers' = [id \in ID |-> Nil]
    /\ owners' = [h \in Handle |-> Nil]
    /\ proc' = [h \in Handle |-> IF proc[h] = "running" THEN "orphan" ELSE proc[h]]
    /\ conn' = [h \in Handle |-> Nil]
    /\ watcher' = [h \in Handle |-> "none"]
    /\ startup' = [h \in Handle |-> "none"]
    /\ lock' = [id \in ID |-> Nil]
    /\ pc' = [a \in Actor |-> "idle"]
    /\ aid' = [a \in Actor |-> Nil]
    /\ ameta' = [a \in Actor |-> Nil]
    /\ ahandle' = [a \in Actor |-> Nil]
    /\ aold' = [a \in Actor |-> Nil]
    /\ snapshot' = {}
    /\ UNCHANGED <<stops, metaVars, disk, madeFor, shut>>

\* Wait waits for the monitor and for handleConn, not for HTTP requests.
Leave ==
    /\ daemon = "stopped"
    /\ snapshot = {}
    /\ \A a \in Spawner \union Handle : pc[a] = "idle"
    /\ Lose
    /\ UNCHANGED crashes

Crash ==
    /\ daemon \notin {"stopped", "down"}
    /\ crashes < MaxCrashes
    /\ crashes' = crashes + 1
    /\ Lose

\* Mutant: closed sessions are restored too.
RestorableAny == {id \in ID : disk[id] # Nil}

\* restoreSessions: every file that is not closed becomes a session again.
Restorable == {id \in ID : disk[id] # Nil /\ ~disk[id].closed}

Restart ==
    /\ daemon = "down"
    /\ daemon' = "running"
    /\ \E f \in [Restorable -> Meta] :
        /\ \A id \in Restorable : FreshMeta(f[id])
        /\ \A i, j \in Restorable : f[i] = f[j] => i = j
        /\ sessions' = [id \in ID |-> IF id \in Restorable THEN f[id] ELSE Nil]
        /\ sid' = [m \in Meta |->
                     IF \E id \in Restorable : f[id] = m
                     THEN CHOOSE id \in Restorable : f[id] = m ELSE sid[m]]
        /\ origin' = [m \in Meta |->
                     IF \E id \in Restorable : f[id] = m
                     THEN disk[CHOOSE id \in Restorable : f[id] = m].origin
                     ELSE origin[m]]
    /\ UNCHANGED <<stops, crashes, waitSet, closed, status, disk, workerVars,
                   procVars, watchVars, lock, localVars, snapshot>>

-----------------------------------------------------------------------------
ActorStep(a) ==
    \/ NewCheck(a) \/ Insert(a) \/ Save(a) \/ Rollback(a) \/ Unsave(a)
    \/ Spawn(a) \/ StopOld(a) \/ Persist(a) \/ Update(a)
    \/ Mark(a) \/ MarkDisk(a) \/ SendClose(a)
    \/ Purge(a) \/ Remove(a) \/ KillOld(a)

WorkerStep(h) ==
    \/ Connect(h) \/ Route(h) \/ Ready(h) \/ Exit(h)
    \/ WatchExit(h) \/ TimeoutCheck(h) \/ TimeoutMark(h)

Next ==
    \/ \E a \in Caller, id \in ID : CreateStart(a, id) \/ CloseStart(a, id)
    \/ \E a \in Actor : ActorStep(a)
    \/ \E s \in Spawner, m \in Meta : ReconcileCheck(s, m)
    \/ \E s \in Spawner : ReconcileLook(s)
    \/ \E h \in Handle : WorkerStep(h)
    \/ Snapshot \/ StopBegin \/ StopWait \/ StopEnd \/ Leave \/ Crash \/ Restart

Spec == Init /\ [][Next]_vars

\* Goroutines are scheduled, and sync.Mutex hands the file lock to a goroutine
\* that has waited for long.  A worker process connects or exits, and one that
\* was told to go is killed; Stop goes on.  Nothing makes a request arrive, a
\* timeout expire, the monitor spawn, or a worker that was left alone exit.
Fairness ==
    /\ \A a \in Actor :
        /\ WF_vars(ActorStep(a))
        /\ SF_vars(Insert(a) \/ Rollback(a) \/ Persist(a) \/ Mark(a) \/ Purge(a))
    /\ \A s \in Spawner : WF_vars(ReconcileLook(s))
    /\ \A h \in Handle :
        /\ WF_vars(Connect(h) \/ Exit(h))
        /\ WF_vars(proc[h] = "doomed" /\ Exit(h))
        /\ WF_vars(Route(h) \/ Ready(h))
        /\ WF_vars(WatchExit(h))
    /\ WF_vars(StopWait) /\ WF_vars(StopEnd)

FairSpec == Spec /\ Fairness

-----------------------------------------------------------------------------
(* Properties.                                                             *)

\* Every variable has its type.
TypeOK ==
    /\ daemon \in {"running", "stopping", "waiting", "stopped", "down"}
    /\ stops \in Nat /\ crashes \in Nat
    /\ waitSet \subseteq Handle
    /\ sessions \in [ID -> Meta \union {Nil}]
    /\ sid \in [Meta -> ID \union {Nil}]
    /\ origin \in [Meta -> Meta \union {Nil}]
    /\ closed \in [Meta -> BOOLEAN]
    /\ status \in [Meta -> Status]
    /\ disk \in [ID -> Record \union {Nil}]
    /\ workers \in [ID -> Handle \union {Nil}]
    /\ owners \in [Handle -> Meta \union {Nil}]
    /\ madeFor \in [Handle -> Meta \union {Nil}]
    /\ proc \in [Handle -> {"unused", "running", "doomed", "orphan", "exited"}]
    /\ conn \in [Handle -> Handle \union {Nil}]
    /\ shut \in [Handle -> BOOLEAN]
    /\ watcher \in [Handle -> {"none", "armed", "done"}]
    /\ startup \in [Handle -> {"none", "waiting", "expired", "over"}]
    /\ lock \in [ID -> Actor \union {Nil}]
    /\ pc \in [Actor -> PC]
    /\ aid \in [Actor -> ID \union {Nil}]
    /\ ameta \in [Actor -> Meta \union {Nil}]
    /\ ahandle \in [Actor -> Handle \union {Nil}]
    /\ aold \in [Actor -> Handle \union {Nil}]
    /\ snapshot \subseteq Meta

\* Between lifecycle operations on an ID, its file says exactly what the
\* registry says: the session's file is there, of the same session and with
\* the same closed flag, and an ID without session has no file, or a closed
\* one.  A restart therefore restores the sessions that were open.
FileAgrees(id) ==
    IF sessions[id] # Nil
    THEN disk[id] = [origin |-> origin[sessions[id]], closed |-> closed[sessions[id]]]
    ELSE disk[id] = Nil \/ disk[id].closed

DiskAgrees ==
    \A id \in ID : daemon # "down" /\ lock[id] = Nil => FileAgrees(id)

\* An update keyed by session ID reaches the record of the session it was
\* made for, although the ID may have been purged and created again since the
\* update was asked for.
NoForeignUpdate ==
    \A a \in Actor :
        pc[a] = "update" =>
            /\ disk[aid[a]] # Nil
            /\ disk[aid[a]].origin = origin[ameta[a]]
            /\ ~disk[aid[a]].closed

\* While the daemon is open, the worker registered under an ID belongs to the
\* session registered under that ID.
WorkerOfCurrentSession ==
    \A id \in ID :
        daemon = "running" /\ workers[id] # Nil =>
            /\ sessions[id] # Nil
            /\ owners[workers[id]] = sessions[id]

\* A handle that was shut is never given a connection again: nothing sends
\* to, or keeps open, a connection of a displaced worker.
ShutHandleDetached == \A h \in Handle : shut[h] => conn[h] = Nil

\* No worker process escapes: as long as its daemon lives, a running worker is
\* registered, or was told to go, or a goroutine is on its way to kill it.
AboutToKill(h) ==
    \E a \in Actor : pc[a] \in {"stopold", "remove", "killold"} /\ aold[a] = h

NoStrayWorker ==
    \A h \in Handle : proc[h] = "running" => Registered(h) \/ AboutToKill(h)

\* A closed session is never shown as READY.
ClosedNeverReady == \A m \in Meta : closed[m] => status[m] # "READY"

\* When Stop has returned, no worker runs on, whoever was spawning or purging
\* when it began, but one that a goroutine is just about to kill.
StoppedLeavesNoWorker ==
    daemon = "stopped" => \A h \in Handle : proc[h] = "running" => AboutToKill(h)

\* Whatever is sent to a worker goes to the process that was started for it:
\* a worker of an earlier generation, or one that outlived its daemon, is never
\* taken for the current one.
OwnConnection == \A h \in Handle : conn[h] \in {Nil, h}

\* Stop returns: it waits for the ExitDone of every registered worker, which
\* the goroutine that spawned the worker may not yet have gone to close.
StopReturns == daemon = "stopping" ~> daemon \in {"stopped", "down"}

\* A closed session ends up without a worker: also one that was spawned or was
\* connecting while the session was being closed goes away.
ClosedWorkersGo ==
    \A m \in Meta, h \in Handle :
        closed[m] /\ madeFor[h] = m ~> proc[h] \notin {"running", "doomed"}

-----------------------------------------------------------------------------
(* What the documents say of the program, and the code does not do.        *)

\* docs/versions/v3-architecture.md says that a CLOSED session is not pulled up
\* again, because reconcileSessions skips a closed meta.  It looks before it
\* spawns, and spawnWorkerForSession looks only whether the meta is current.
ClosedNotSpawned ==
    [][\A m \in Meta, h \in Handle :
          closed[m] /\ madeFor[h] # m => madeFor'[h] # m]_madeFor

\* docs/versions/v5-architecture.md says that the timeout callback of an old
\* worker verifies that its handle is the current generation, so that it does
\* not disturb the new worker.  monitorReady does, but lets go of the lock
\* before it sets the status.
TimeoutOfCurrentWorker ==
    [][\A h \in Handle :
          startup[h] = "expired" /\ startup'[h] = "over" /\ status' # status
          => workers[sid[madeFor[h]]] = h]_<<startup, status>>

\* docs/versions/v3-architecture.md says that the worker of a READY session is
\* connected.  routeMessage checks that the worker is the current one, lets go
\* of the locks, and sets READY although the worker may have exited since.
ReadyIsConnected ==
    \A id \in ID :
        LET m == sessions[id] IN
        daemon = "running" /\ m # Nil /\ status[m] = "READY" =>
            workers[id] # Nil /\ conn[workers[id]] # Nil

\* docs/versions/v4-architecture.md says that creating a session that exists and
\* is not closed is a conflict, without ?force=true.  handleCreateSession looks
\* at one session with the ID and PurgeSession purges another.
ConflictWithoutForce ==
    [][TRUE \notin Forces =>
          \A a \in Caller :
              pc[a] = "purge" /\ pc'[a] = "remove" /\ sessions[aid[a]] # Nil
              => closed[sessions[aid[a]]]]_pc
=============================================================================
