------------------------------ MODULE LockOrder ------------------------------
(***************************************************************************)
(* The nesting of the daemon's locks.  A function is the sequence of its   *)
(* lock operations, taken whole from the source; goroutines call them in   *)
(* any order and are interleaved between any two operations.  closeMu is a *)
(* sync.Mutex, workersMu and sessionsMu are sync.RWMutexes, and the file   *)
(* lock of a session is that of SessionFileLock, in all its steps.         *)
(*                                                                         *)
(* The other mutexes (of a meta, of a handle, of the store, monitorMu,     *)
(* connMapMu, sessionFileLocksMu) are leaves: nothing is taken inside.     *)
(***************************************************************************)
EXTENDS SessionFileLock, Sequences

ASSUME GoroutineAssumption == Nil \notin Thread

VARIABLES
    todo,       \* per goroutine: the operations left of the function it is in
    readers,    \* per mutex: the goroutines that hold it for reading
    waiting,    \* per mutex: the readers that wait for its writer
    writer      \* per mutex: who holds it for writing, or waits for the last
                \* of its readers; Nil for nobody

mutexes == <<readers, waiting, writer>>
allVars == <<vars, todo, mutexes>>

Mutex == {"closeMu", "workersMu", "sessionsMu"}

-----------------------------------------------------------------------------
(* The functions.  All of them release in the reverse order.               *)

Writing(mu, body) ==
    <<[do |-> "Lock", mu |-> mu]>> \o body \o <<[do |-> "Unlock", mu |-> mu]>>
Reading(mu, body) ==
    <<[do |-> "RLock", mu |-> mu]>> \o body \o <<[do |-> "RUnlock", mu |-> mu]>>
WithFile(body) ==
    <<[do |-> "LockFile", mu |-> "file"]>> \o body
        \o <<[do |-> "UnlockFile", mu |-> "file"]>>

NewSession == WithFile(Writing("sessionsMu", <<>>))

rollbackNewSession == WithFile(Writing("sessionsMu", <<>>))

spawnWorkerForSession ==
    Writing("closeMu", Writing("workersMu", Writing("sessionsMu", <<>>)))

persistCurrentSession == WithFile(Reading("sessionsMu", <<>>))

\* Mutant of markSessionMetaClosed: the return for a stale meta forgets
\* workersMu.
markSessionMetaClosedForgetting ==
    WithFile(<<[do |-> "Lock", mu |-> "workersMu"]>> \o Writing("sessionsMu", <<>>))

markSessionMetaClosed ==
    WithFile(Writing("workersMu", Writing("sessionsMu", <<>>)))

PurgeSession == WithFile(Writing("workersMu", Writing("sessionsMu", <<>>)))

waitWorkerExit == Writing("workersMu", Writing("sessionsMu", <<>>))

\* handleConn writes the acknowledgement inside, which fits the buffer of a
\* new connection.
handleConn == Writing("workersMu", Reading("sessionsMu", <<>>))

commitCancelSendFailureIfCurrent ==
    Writing("workersMu", Reading("sessionsMu", <<>>))

watchCancelledTurn == Reading("workersMu", Writing("sessionsMu", <<>>))

markCurrentWorkerRestartPending ==
    Reading("workersMu", Writing("sessionsMu", <<>>))

currentWorkerForSession == Reading("workersMu", Reading("sessionsMu", <<>>))
isCurrentWorkerForSession == Reading("workersMu", Reading("sessionsMu", <<>>))
isCurrentSessionWorker == Reading("workersMu", Reading("sessionsMu", <<>>))
hasReadyCurrentWorkerForSession ==
    Reading("workersMu", Reading("sessionsMu", <<>>))

\* Mutant of finishCancelWithFailure: it calls isCurrentSession, which takes
\* sessionsMu itself, in place of isCurrentSessionLocked.
finishCancelRelocking == Reading("sessionsMu", Reading("sessionsMu", <<>>))

finishCancelWithFailure == Reading("sessionsMu", <<>>)

isCurrentSession == Reading("sessionsMu", <<>>)
isCurrentWorker == Reading("workersMu", <<>>)
monitorReady == Writing("sessionsMu", <<>>)
isClosed == Writing("closeMu", <<>>)

Program ==
    {NewSession, rollbackNewSession, spawnWorkerForSession,
     persistCurrentSession, markSessionMetaClosed, PurgeSession,
     waitWorkerExit, handleConn, commitCancelSendFailureIfCurrent,
     watchCancelledTurn, markCurrentWorkerRestartPending,
     currentWorkerForSession, isCurrentWorkerForSession,
     isCurrentSessionWorker, hasReadyCurrentWorkerForSession,
     finishCancelWithFailure, isCurrentSession, isCurrentWorker,
     monitorReady, isClosed}

-----------------------------------------------------------------------------
SystemInit ==
    /\ Init
    /\ todo = [t \in Thread |-> <<>>]
    /\ readers = [mu \in Mutex |-> {}]
    /\ waiting = [mu \in Mutex |-> {}]
    /\ writer = [mu \in Mutex |-> Nil]

\* All that t has asked for so far was given to it.
Running(t) ==
    \A mu \in Mutex :
        /\ t \notin waiting[mu]
        /\ writer[mu] = t => readers[mu] = {}

\* The next operation of t is this one, and t goes on to the one after it.
Due(t, op) == todo[t] # <<>> /\ Running(t) /\ Head(todo[t]).do = op
Done(t) == todo' = [todo EXCEPT ![t] = Tail(@)]

Call(t) ==
    /\ todo[t] = <<>>
    /\ \E p \in Program : todo' = [todo EXCEPT ![t] = p]
    /\ UNCHANGED <<vars, mutexes>>

\* RWMutex.RLock: a writer, even one that waits, comes first.
ReadLock(t) ==
    /\ Due(t, "RLock")
    /\ LET mu == Head(todo[t]).mu IN
        IF writer[mu] = Nil
        THEN /\ readers' = [readers EXCEPT ![mu] = @ \union {t}]
             /\ UNCHANGED waiting
        ELSE /\ waiting' = [waiting EXCEPT ![mu] = @ \union {t}]
             /\ UNCHANGED readers
    /\ Done(t)
    /\ UNCHANGED <<vars, writer>>

ReadUnlock(t) ==
    /\ Due(t, "RUnlock")
    /\ readers' = [readers EXCEPT ![Head(todo[t]).mu] = @ \ {t}]
    /\ Done(t)
    /\ UNCHANGED <<vars, waiting, writer>>

\* RWMutex.Lock: one writer at a time; it may still have to wait for readers
\* (Running).  A Mutex is one without readers.
WriteLock(t) ==
    /\ Due(t, "Lock")
    /\ writer[Head(todo[t]).mu] = Nil
    /\ writer' = [writer EXCEPT ![Head(todo[t]).mu] = t]
    /\ Done(t)
    /\ UNCHANGED <<vars, readers, waiting>>

\* RWMutex.Unlock: the readers that wait come before the next writer.
WriteUnlock(t) ==
    /\ Due(t, "Unlock")
    /\ LET mu == Head(todo[t]).mu IN
        /\ writer' = [writer EXCEPT ![mu] = Nil]
        /\ readers' = [readers EXCEPT ![mu] = waiting[mu]]
        /\ waiting' = [waiting EXCEPT ![mu] = {}]
    /\ Done(t)
    /\ UNCHANGED vars

\* lockSessionFile: ask and take are two steps.
FileRequest(t) ==
    /\ Due(t, "LockFile")
    /\ \E id \in ID : Request(t, id)
    /\ UNCHANGED <<todo, mutexes>>

FileLock(t) ==
    /\ Due(t, "LockFile")
    /\ Lock(t)
    /\ Done(t)
    /\ UNCHANGED mutexes

\* The function it returned: release and forget are two steps.
FileUnlock(t) ==
    /\ Due(t, "UnlockFile")
    /\ Unlock(t)
    /\ UNCHANGED <<todo, mutexes>>

FileDrop(t) ==
    /\ Due(t, "UnlockFile")
    /\ Drop(t)
    /\ Done(t)
    /\ UNCHANGED mutexes

Proceed(t) ==
    \/ ReadLock(t) \/ ReadUnlock(t) \/ WriteLock(t) \/ WriteUnlock(t)
    \/ FileRequest(t) \/ FileLock(t) \/ FileUnlock(t) \/ FileDrop(t)

SystemNext == \E t \in Thread : Call(t) \/ Proceed(t)

\* A goroutine that can go on does, and a mutex hands itself to a waiter that
\* has starved for a millisecond.
SystemFairness == \A t \in Thread : SF_allVars(Proceed(t))

SystemSpec == SystemInit /\ [][SystemNext]_allVars
FairSystemSpec == SystemSpec /\ SystemFairness

-----------------------------------------------------------------------------
\* t cannot go on before u has released something.
WaitsFor(t, u) ==
    \/ \E mu \in Mutex :
        \/ t \in waiting[mu] /\ writer[mu] = u
        \/ writer[mu] = t /\ u \in readers[mu]
    \/ /\ Due(t, "Lock")
       /\ writer[Head(todo[t]).mu] = u
    \/ /\ pc[t] = "requested"
       /\ Inside(u) /\ entry[u] = entry[t]

\* No goroutines wait for each other in a circle, be it directly or because a
\* writer that waits keeps readers out: what the comments on lockSessionFile
\* and currentWorkerForSession promise ("this order cannot deadlock").
NoCircularWait ==
    \A S \in (SUBSET Thread) \ {{}} :
        \E t \in S : \A u \in S : ~WaitsFor(t, u)

\* Every function returns: nobody starves, and no path leaves a lock behind.
EveryCallReturns ==
    \A t \in Thread : todo[t] # <<>> ~> todo[t] = <<>>
=============================================================================
