---------------------------- MODULE TurnRecovery ----------------------------
(***************************************************************************)
(* Codex turns of one session: the daemon's turn gate and restart fence,   *)
(* the turn gate of the worker, and the messages between them while turns  *)
(* are cancelled, time out, fail to be sent, and workers are replaced.     *)
(*                                                                         *)
(* The session stays the registered one (SessionLifecycle is about reused  *)
(* IDs).  No message of the program carries a turn: the turn in a message  *)
(* of this module says what the message is about, and no action decides by *)
(* it.  Output, session files and the retry budget are left out, and the   *)
(* messages of one handle are dealt with one after another even if they    *)
(* came over two of its connections.                                       *)
(***************************************************************************)
EXTENDS Naturals, Sequences

CONSTANTS
    Handle,     \* *WorkerHandle pointers, one worker process each
    Sender,     \* goroutines in SendInput or forwardClientMessage
    Nil,
    MaxTurns,   \* bound on turns begun
    MaxTries,   \* maxCurrentWorkerSendTries
    MaxFaults   \* bound on broken connections, crashes, missed heartbeats and
                \* failed starts

ASSUME HandleAssumption == Nil \notin Handle /\ "daemon" \notin Handle
ASSUME BoundAssumption ==
    MaxTurns \in Nat /\ MaxTries \in Nat \ {0} /\ MaxFaults \in Nat

Turn == 1 .. MaxTurns

Message == [kind : {"ready", "mark", "terminal", "input", "cancel", "restart"},
            turn : 0 .. MaxTurns]

Msg(kind, t) == [kind |-> kind, turn |-> t]

Terminal == [ends : 0 .. MaxTurns, about : 0 .. MaxTurns,
             by : Handle \union {"daemon"}]

VARIABLES
    closed, status,  \* meta.Closed, meta.Status
    worker,          \* d.workers[id]
    pending,         \* d.pendingRestart[meta]
    active, cancelling, token,  \* meta.turnActive, turnCancelling, turnToken
    terminals,       \* terminals published: the turn each ended, the turn it
                     \* is about, and who made it (a handle or "daemon")
    proc,            \* worker process: "unused", "running", "stopping", "exited"
    link,            \* handle.Conn: "none", "open", or "broken" (set, but dead)
    ready,           \* handle.isReady
    down, up,        \* messages under way to the worker, and from it
    got,             \* the message routeMessage has let pass, if any
    inflight,        \* worker: turnInFlight
    turnID,          \* worker: turnID
    asked,           \* worker: turnCancelRequested
    fence,           \* worker: turnInterruptPending
    ipc, iturn,      \* worker: the goroutine in interruptTurn, and its turn
    spc, shandle, sturn,     \* per sender: place, handle, its turn
    checked,         \* CancelTurnMeta has seen a ready worker
    cpc, chandle, ctries,    \* per turn: sendCancelToCurrentWorker
    wpc, whandle, wtries,    \* per turn: watchCancelledTurn
    condemned,       \* handles with a timer that kills their process
    faults           \* number of faults so far

sessionVars == <<closed, status, worker, pending>>
turnVars    == <<active, cancelling, token, terminals>>
linkVars    == <<link, ready, down, up, got>>
gateVars    == <<inflight, turnID, asked, fence, ipc, iturn>>
sendVars    == <<spc, shandle, sturn>>
cancelVars  == <<checked, cpc, chandle, ctries>>
watchVars   == <<wpc, whandle, wtries, condemned>>
vars == <<sessionVars, turnVars, proc, linkVars, gateVars, sendVars, cancelVars,
          watchVars, faults>>

\* One session that is registered and has no worker yet.
Init ==
    /\ closed = FALSE /\ status = "CREATED"
    /\ worker = Nil /\ pending = Nil
    /\ active = FALSE /\ cancelling = FALSE /\ token = 0
    /\ terminals = <<>>
    /\ proc = [h \in Handle |-> "unused"]
    /\ link = [h \in Handle |-> "none"]
    /\ ready = [h \in Handle |-> FALSE]
    /\ down = [h \in Handle |-> <<>>]
    /\ up = [h \in Handle |-> <<>>]
    /\ got = [h \in Handle |-> <<>>]
    /\ inflight = [h \in Handle |-> FALSE]
    /\ turnID = [h \in Handle |-> 0]
    /\ asked = [h \in Handle |-> FALSE]
    /\ fence = [h \in Handle |-> FALSE]
    /\ ipc = [h \in Handle |-> "none"]
    /\ iturn = [h \in Handle |-> 0]
    /\ spc = [s \in Sender |-> "idle"]
    /\ shandle = [s \in Sender |-> Nil]
    /\ sturn = [s \in Sender |-> 0]
    /\ checked = FALSE
    /\ cpc = [t \in Turn |-> "none"]
    /\ chandle = [t \in Turn |-> Nil]
    /\ ctries = [t \in Turn |-> 0]
    /\ wpc = [t \in Turn |-> "none"]
    /\ whandle = [t \in Turn |-> Nil]
    /\ wtries = [t \in Turn |-> 0]
    /\ condemned = {}
    /\ faults = 0

-----------------------------------------------------------------------------
(* The turn gate of the session: SessionMeta's methods, each under m.mu.   *)

\* Mutant: a terminal is published whether or not a turn is active.
CompleteAlways(about, by) ==
    /\ active' = FALSE /\ cancelling' = FALSE
    /\ terminals' = Append(terminals, [ends |-> token, about |-> about, by |-> by])
    /\ UNCHANGED token

\* CompleteTurn: the active turn, whichever it is, ends with this terminal.
CompleteTurn(about, by) ==
    IF active
    THEN /\ active' = FALSE /\ cancelling' = FALSE
         /\ terminals' = Append(terminals, [ends |-> token, about |-> about, by |-> by])
         /\ UNCHANGED token
    ELSE UNCHANGED turnVars

\* Mutant: the token is not compared.
CancellingAny(t) == active /\ cancelling

\* The turn of this token is still the one being cancelled.
Cancelling(t) == active /\ cancelling /\ token = t

FailCancellingTurn(t) ==
    IF Cancelling(t) THEN CompleteTurn(t, "daemon") ELSE UNCHANGED turnVars

\* FinishTurn: the gate is opened, no terminal.
FinishTurn ==
    /\ active' = FALSE /\ cancelling' = FALSE
    /\ UNCHANGED <<token, terminals>>

-----------------------------------------------------------------------------
(* Worker generations: the monitor, the exit watcher, the ready timeout.   *)

\* WorkerHandle.IsAlive; after 30 s without a heartbeat any handle is dead.
Alive(h, fresh) == link[h] # "none" /\ fresh

NeedsSpawn(fresh) ==
    worker # Nil => ~Alive(worker, fresh) /\ status # "SPAWNING"

\* A fault happens; there are at most MaxFaults.
Fault == faults < MaxFaults /\ faults' = faults + 1

\* installWorkerLocked, and the process starts or it does not.
Start ==
    \E h \in Handle :
        /\ proc[h] = "unused"
        /\ proc' = [proc EXCEPT ![h] = "running"]
        /\ worker' = h /\ status' = "SPAWNING"

StartFails == worker' = Nil /\ status' = "RECOVERING" /\ UNCHANGED proc

\* Mutant: the fence of the displaced worker is kept.
SpawnKeepingFence(fresh) ==
    /\ ~closed /\ NeedsSpawn(fresh)
    /\ \/ Start /\ (IF fresh THEN UNCHANGED faults ELSE Fault)
       \/ fresh /\ StartFails /\ Fault
    /\ UNCHANGED <<pending, closed, turnVars, linkVars, gateVars, sendVars,
                   cancelVars, watchVars>>

\* reconcileSessions and spawnWorkerForSession: the fence goes and the new
\* worker comes, unless its process cannot be started.  The turn gate stays.
Spawn(fresh) ==
    /\ ~closed /\ NeedsSpawn(fresh)
    /\ pending' = Nil
    /\ \/ Start /\ (IF fresh THEN UNCHANGED faults ELSE Fault)
       \/ fresh /\ StartFails /\ Fault
    /\ UNCHANGED <<closed, turnVars, linkVars, gateVars, sendVars, cancelVars,
                   watchVars>>

\* The process of h is gone, and its turn gate with it.
Dies(h) ==
    /\ proc' = [proc EXCEPT ![h] = "exited"]
    /\ down' = [down EXCEPT ![h] = <<>>]
    /\ inflight' = [inflight EXCEPT ![h] = FALSE]
    /\ turnID' = [turnID EXCEPT ![h] = 0]
    /\ asked' = [asked EXCEPT ![h] = FALSE]
    /\ fence' = [fence EXCEPT ![h] = FALSE]
    /\ ipc' = [ipc EXCEPT ![h] = "none"]
    /\ iturn' = [iturn EXCEPT ![h] = 0]

\* What it has sent may still be read; the daemon's end stays set.
Hangup(h) == link' = [link EXCEPT ![h] = IF @ = "open" THEN "broken" ELSE @]

\* stopWorkerHandle of a displaced handle, or the end of waitWorkerExit.
Discard(h) ==
    /\ h # worker
    /\ proc[h] \in {"running", "stopping"} \/ link[h] # "none"
    /\ Dies(h)
    /\ link' = [link EXCEPT ![h] = "none"]
    /\ up' = [up EXCEPT ![h] = <<>>]
    /\ UNCHANGED <<sessionVars, turnVars, ready, got, sendVars, cancelVars,
                   watchVars, faults>>

\* The worker dials, or dials again, and sends READY.  handleConn attaches
\* the connection of the expected worker.  Any other worker is rejected and
\* exits, if Discard or Close has not killed it already.
Connect(h) ==
    /\ proc[h] = "running" /\ link[h] # "open"
    /\ worker = h /\ ~closed
    /\ link' = [link EXCEPT ![h] = "open"]
    /\ up' = [up EXCEPT ![h] = <<Msg("ready", 0)>>]
    /\ down' = [down EXCEPT ![h] = <<>>]
    /\ UNCHANGED <<sessionVars, turnVars, proc, ready, got, gateVars, sendVars,
                   cancelVars, watchVars, faults>>

\* The connection breaks: what is under way is lost, and the daemon's handle
\* keeps the dead connection.
Break(h) ==
    /\ link[h] = "open"
    /\ Fault
    /\ link' = [link EXCEPT ![h] = "broken"]
    /\ down' = [down EXCEPT ![h] = <<>>]
    /\ up' = [up EXCEPT ![h] = <<>>]
    /\ UNCHANGED <<sessionVars, turnVars, proc, ready, got, gateVars, sendVars,
                   cancelVars, watchVars>>

\* The process ends: it was told to, or it crashes.
Exit(h) ==
    /\ proc[h] \in {"running", "stopping"}
    /\ IF proc[h] = "running" THEN Fault ELSE UNCHANGED faults
    /\ Dies(h) /\ Hangup(h)
    /\ UNCHANGED <<sessionVars, turnVars, ready, up, got, sendVars, cancelVars,
                   watchVars>>

\* waitWorkerExit, up to the CloseConn that Discard does.
WatchExit(h) ==
    /\ proc[h] = "exited" /\ worker = h
    /\ worker' = Nil
    /\ status' = IF closed THEN status ELSE "RECOVERING"
    /\ UNCHANGED <<closed, pending, turnVars, proc, linkVars, gateVars,
                   sendVars, cancelVars, watchVars, faults>>

\* monitorReady: the current worker has not become ready in 10 s.
StartTimeout ==
    /\ worker # Nil /\ ~ready[worker]
    /\ ~closed /\ status # "READY"
    /\ status' = "RECOVERING"
    /\ UNCHANGED <<closed, worker, pending, turnVars, proc, linkVars, gateVars,
                   sendVars, cancelVars, watchVars, faults>>

-----------------------------------------------------------------------------
(* handleConn and routeMessage.                                            *)

\* The next message of a current worker passes; that of another is dropped.
Route(h) ==
    /\ got[h] = <<>> /\ up[h] # <<>>
    /\ up' = [up EXCEPT ![h] = Tail(@)]
    /\ got' = [got EXCEPT ![h] = IF worker = h THEN <<Head(up[h])>> ELSE <<>>]
    /\ UNCHANGED <<sessionVars, turnVars, proc, link, ready, down, gateVars,
                   sendVars, cancelVars, watchVars, faults>>

\* Mutant: the fence is not looked at.
FencedNever(h) == FALSE

Fenced(h) == pending = h

\* The status part of READY, unless a restart is pending for this worker.
RouteReady(h) ==
    /\ got[h] # <<>> /\ Head(got[h]).kind = "ready"
    /\ IF Fenced(h)
       THEN got' = [got EXCEPT ![h] = <<>>] /\ UNCHANGED status
       ELSE /\ got' = [got EXCEPT ![h] = <<Msg("mark", 0)>>]
            /\ status' = IF closed THEN status ELSE "READY"
    /\ UNCHANGED <<closed, worker, pending, turnVars, proc, link, ready, down,
                   up, gateVars, sendVars, cancelVars, watchVars, faults>>

\* The rest of READY: markReady, after the session's lock is released.
MarkReady(h) ==
    /\ got[h] # <<>> /\ Head(got[h]).kind = "mark"
    /\ ready' = [ready EXCEPT ![h] = TRUE]
    /\ got' = [got EXCEPT ![h] = <<>>]
    /\ UNCHANGED <<sessionVars, turnVars, proc, link, down, up, gateVars,
                   sendVars, cancelVars, watchVars, faults>>

RouteTerminal(h) ==
    /\ got[h] # <<>> /\ Head(got[h]).kind = "terminal"
    /\ CompleteTurn(Head(got[h]).turn, h)
    /\ got' = [got EXCEPT ![h] = <<>>]
    /\ UNCHANGED <<sessionVars, proc, link, ready, down, up, gateVars, sendVars,
                   cancelVars, watchVars, faults>>

-----------------------------------------------------------------------------
(* handle.Send: refused without a connection; on a dead one, it may fail   *)
(* or the message may be lost.                                             *)

CanFail(h) == link[h] # "open"

CanSend(h) == link[h] # "none"

Sent(h, kind, t) ==
    down' = IF link[h] = "open" THEN [down EXCEPT ![h] = Append(@, Msg(kind, t))]
            ELSE down

\* closeSessionMeta: the worker is told to close, which it does like a
\* restart, and its process is killed 2 s later.
Close ==
    /\ ~closed
    /\ closed' = TRUE /\ status' = "CLOSED"
    /\ IF worker = Nil
       THEN UNCHANGED <<down, condemned>>
       ELSE /\ condemned' = condemned \union {worker}
            /\ \/ CanSend(worker) /\ Sent(worker, "restart", 0)
               \/ CanFail(worker) /\ UNCHANGED down
    /\ UNCHANGED <<worker, pending, turnVars, proc, link, ready, up, got, gateVars,
                   sendVars, cancelVars, wpc, whandle, wtries, faults>>

-----------------------------------------------------------------------------
(* SendInput, and forwardClientMessage for an input.                       *)

SendStart(s) ==
    /\ spc[s] = "idle"
    /\ ~closed /\ worker # Nil
    /\ spc' = [spc EXCEPT ![s] = "wait"]
    /\ shandle' = [shandle EXCEPT ![s] = worker]
    /\ UNCHANGED <<sessionVars, turnVars, proc, linkVars, gateVars, sturn,
                   cancelVars, watchVars, faults>>

\* The sender is done, or its client gets an error.
SendReturn(s) ==
    /\ spc' = [spc EXCEPT ![s] = "idle"]
    /\ shandle' = [shandle EXCEPT ![s] = Nil]
    /\ sturn' = [sturn EXCEPT ![s] = 0]

\* 15 s have passed.
SendGiveUp(s) ==
    /\ spc[s] = "wait" /\ ~ready[shandle[s]]
    /\ SendReturn(s)
    /\ UNCHANGED <<sessionVars, turnVars, proc, linkVars, gateVars, cancelVars,
                   watchVars, faults>>

\* handle.Ready is closed: beginCodexTurnIfReady.
SendBegin(s) ==
    /\ spc[s] = "wait" /\ ready[shandle[s]]
    /\ IF ~closed /\ status = "READY" /\ ~active
       THEN /\ token < MaxTurns
            /\ token' = token + 1 /\ active' = TRUE /\ cancelling' = FALSE
            /\ spc' = [spc EXCEPT ![s] = "write"]
            /\ sturn' = [sturn EXCEPT ![s] = token + 1]
            /\ UNCHANGED <<shandle, terminals>>
       ELSE SendReturn(s) /\ UNCHANGED turnVars
    /\ UNCHANGED <<sessionVars, proc, linkVars, gateVars, cancelVars, watchVars,
                   faults>>

\* The input goes to the handle read at the start.
SendWrite(s) ==
    /\ spc[s] = "write"
    /\ \/ /\ CanSend(shandle[s])
          /\ Sent(shandle[s], "input", sturn[s])
          /\ SendReturn(s)
       \/ /\ CanFail(shandle[s])
          /\ spc' = [spc EXCEPT ![s] = "fail"]
          /\ UNCHANGED <<down, shandle, sturn>>
    /\ UNCHANGED <<sessionVars, turnVars, proc, link, ready, up, got, gateVars,
                   cancelVars, watchVars, faults>>

SendFail(s) ==
    /\ spc[s] = "fail"
    /\ FinishTurn
    /\ SendReturn(s)
    /\ UNCHANGED <<sessionVars, proc, linkVars, gateVars, cancelVars, watchVars,
                   faults>>

-----------------------------------------------------------------------------
(* CancelTurnMeta, and the goroutine that sends the cancel.                *)

CancelCheck ==
    /\ ~checked /\ ~closed
    /\ worker # Nil /\ ready[worker]
    /\ checked' = TRUE
    /\ UNCHANGED <<sessionVars, turnVars, proc, linkVars, gateVars, sendVars,
                   cpc, chandle, ctries, watchVars, faults>>

\* BeginTurnCancel; the watchdog and the sending goroutine start.
CancelBegin ==
    /\ checked /\ checked' = FALSE
    /\ IF ~closed /\ active /\ ~cancelling
       THEN /\ cancelling' = TRUE
            /\ cpc' = [cpc EXCEPT ![token] = "look"]
            /\ wpc' = [wpc EXCEPT ![token] = "armed"]
       ELSE UNCHANGED <<cancelling, cpc, wpc>>
    /\ UNCHANGED <<sessionVars, active, token, terminals, proc, linkVars,
                   gateVars, sendVars, chandle, ctries, whandle, wtries,
                   condemned, faults>>

\* The turn's goroutine is done.
CancelReturn(t) ==
    /\ cpc' = [cpc EXCEPT ![t] = "done"]
    /\ chandle' = [chandle EXCEPT ![t] = Nil]
    /\ ctries' = [ctries EXCEPT ![t] = 0]

\* The worker has changed: again, at most MaxTries times in all.
CancelAgain(t) ==
    /\ ctries' = [ctries EXCEPT ![t] = @ + 1]
    /\ cpc' = [cpc EXCEPT ![t] = IF ctries[t] + 1 < MaxTries THEN "look" ELSE "giveup"]
    /\ chandle' = [chandle EXCEPT ![t] = Nil]

\* The turn, then the current worker.  With the turn over, what follows
\* (finishCancelWithFailure) has no effect.
CancelLook(t) ==
    /\ cpc[t] = "look"
    /\ IF Cancelling(t)
       THEN /\ chandle' = [chandle EXCEPT ![t] = worker]
            /\ cpc' = [cpc EXCEPT ![t] =
                        IF worker = Nil \/ ~ready[worker] THEN "failed" ELSE "write"]
            /\ UNCHANGED ctries
       ELSE CancelReturn(t)
    /\ UNCHANGED <<sessionVars, turnVars, proc, linkVars, gateVars, sendVars,
                   checked, watchVars, faults>>

CancelWrite(t) ==
    /\ cpc[t] = "write"
    /\ \/ /\ CanSend(chandle[t])
          /\ Sent(chandle[t], "cancel", t)
          /\ cpc' = [cpc EXCEPT ![t] = "recheck"]
       \/ /\ CanFail(chandle[t])
          /\ cpc' = [cpc EXCEPT ![t] = "failed"]
          /\ UNCHANGED down
    /\ UNCHANGED <<sessionVars, turnVars, proc, link, ready, up, got, gateVars,
                   sendVars, checked, chandle, ctries, watchVars, faults>>

\* commitCancelSendFailureIfCurrent: unless the worker has changed, the turn
\* fails.
CancelFailed(t) ==
    /\ cpc[t] = "failed"
    /\ IF worker # chandle[t]
       THEN CancelAgain(t) /\ UNCHANGED turnVars
       ELSE CancelReturn(t) /\ FailCancellingTurn(t)
    /\ UNCHANGED <<sessionVars, proc, linkVars, gateVars, sendVars, checked,
                   watchVars, faults>>

\* The cancel is written; was it to the current worker?
CancelRecheck(t) ==
    /\ cpc[t] = "recheck"
    /\ IF worker # chandle[t] THEN CancelAgain(t) ELSE CancelReturn(t)
    /\ UNCHANGED <<sessionVars, turnVars, proc, linkVars, gateVars, sendVars,
                   checked, watchVars, faults>>

\* finishCancelWithFailure after the last try.
CancelGiveUp(t) ==
    /\ cpc[t] = "giveup"
    /\ CancelReturn(t)
    /\ FailCancellingTurn(t)
    /\ UNCHANGED <<sessionVars, proc, linkVars, gateVars, sendVars, checked,
                   watchVars, faults>>

-----------------------------------------------------------------------------
(* The watchdog of a cancelled turn, and the restart it begins.            *)

\* Mutant: no recovery without a worker to restart.
WatchFireWithWorker(t) ==
    /\ wpc[t] = "armed"
    /\ IF ~closed /\ Cancelling(t) /\ worker # Nil
       THEN /\ FailCancellingTurn(t)
            /\ status' = "RECOVERING" /\ pending' = worker
            /\ wpc' = [wpc EXCEPT ![t] = "mark"]
       ELSE /\ wpc' = [wpc EXCEPT ![t] = "done"]
            /\ UNCHANGED <<turnVars, status, pending>>
    /\ UNCHANGED <<closed, worker, proc, linkVars, gateVars, sendVars,
                   cancelVars, whandle, wtries, condemned, faults>>

\* watchCancelledTurn, 10 s later: failure, RECOVERING and fence in one step.
WatchFire(t) ==
    /\ wpc[t] = "armed"
    /\ IF ~closed /\ Cancelling(t)
       THEN /\ FailCancellingTurn(t)
            /\ status' = "RECOVERING"
            /\ pending' = IF worker = Nil THEN pending ELSE worker
            /\ wpc' = [wpc EXCEPT ![t] = "mark"]
       ELSE /\ wpc' = [wpc EXCEPT ![t] = "done"]
            /\ UNCHANGED <<turnVars, status, pending>>
    /\ UNCHANGED <<closed, worker, proc, linkVars, gateVars, sendVars,
                   cancelVars, whandle, wtries, condemned, faults>>

\* restartWorkerForSession: markCurrentWorkerRestartPending, and the timer
\* of restartWorkerAfterGrace.
RestartMark(t) ==
    /\ wpc[t] = "mark"
    /\ IF closed
       THEN /\ wpc' = [wpc EXCEPT ![t] = "done"]
            /\ UNCHANGED <<status, pending, whandle, condemned>>
       ELSE /\ status' = "RECOVERING"
            /\ pending' = IF worker = Nil THEN pending ELSE worker
            /\ IF worker = Nil \/ ~ready[worker]
               THEN /\ wpc' = [wpc EXCEPT ![t] = "done"]
                    /\ UNCHANGED <<whandle, condemned>>
               ELSE /\ wpc' = [wpc EXCEPT ![t] = "write"]
                    /\ whandle' = [whandle EXCEPT ![t] = worker]
                    /\ condemned' = condemned \union {worker}
    /\ UNCHANGED <<closed, worker, turnVars, proc, linkVars, gateVars, sendVars,
                   cancelVars, wtries, faults>>

RestartWrite(t) ==
    /\ wpc[t] = "write"
    /\ \/ CanSend(whandle[t]) /\ Sent(whandle[t], "restart", t)
       \/ CanFail(whandle[t]) /\ UNCHANGED down
    /\ wpc' = [wpc EXCEPT ![t] = "check"]
    /\ UNCHANGED <<sessionVars, turnVars, proc, link, ready, up, got, gateVars,
                   sendVars, cancelVars, whandle, wtries, condemned, faults>>

\* If the worker has changed meanwhile, the next one is restarted instead.
RestartCheck(t) ==
    /\ wpc[t] = "check"
    /\ IF worker # whandle[t] /\ wtries[t] + 1 < MaxTries
       THEN /\ wpc' = [wpc EXCEPT ![t] = "mark"]
            /\ wtries' = [wtries EXCEPT ![t] = @ + 1]
       ELSE /\ wpc' = [wpc EXCEPT ![t] = "done"]
            /\ wtries' = [wtries EXCEPT ![t] = 0]
    /\ whandle' = [whandle EXCEPT ![t] = Nil]
    /\ UNCHANGED <<sessionVars, turnVars, proc, linkVars, gateVars, sendVars,
                   cancelVars, condemned, faults>>

\* Mutant: the timer only looks.
KillAfterGraceNot(h) ==
    /\ h \in condemned
    /\ condemned' = condemned \ {h}
    /\ UNCHANGED <<sessionVars, turnVars, proc, linkVars, gateVars, sendVars,
                   cancelVars, wpc, whandle, wtries, faults>>

\* restartWorkerAfterGrace: a worker that is still the current one is killed.
\* That of a closed session is, unless it has exited.
KillAfterGrace(h) ==
    /\ h \in condemned
    /\ condemned' = condemned \ {h}
    /\ IF worker = h THEN Dies(h) /\ Hangup(h)
                     ELSE UNCHANGED <<proc, link, down, gateVars>>
    /\ UNCHANGED <<sessionVars, turnVars, ready, up, got, sendVars, cancelVars,
                   wpc, whandle, wtries, faults>>

-----------------------------------------------------------------------------
(* The worker.  Each of its turns belongs to an input of the daemon, whose *)
(* turn stands for the worker's own number of it.                          *)

\* readDaemonMessages takes the next message.
Takes(h, kind) ==
    /\ proc[h] = "running" /\ link[h] = "open"
    /\ down[h] # <<>> /\ Head(down[h]).kind = kind

Took(h) == down' = [down EXCEPT ![h] = Tail(@)]

\* Mutant: beginTurnWithID does not look at turnInterruptPending.
AcceptsAlways(h) == ~inflight[h]

\* beginTurnWithID: refused while a turn is in flight or an interrupt runs.
Accepts(h) == ~inflight[h] /\ ~fence[h]

\* A refused input is answered by an error message that the daemon logs.
WorkerInput(h) ==
    /\ Takes(h, "input") /\ Took(h)
    /\ IF Accepts(h)
       THEN /\ inflight' = [inflight EXCEPT ![h] = TRUE]
            /\ turnID' = [turnID EXCEPT ![h] = Head(down[h]).turn]
            /\ asked' = [asked EXCEPT ![h] = FALSE]
       ELSE UNCHANGED <<inflight, turnID, asked>>
    /\ UNCHANGED <<sessionVars, turnVars, proc, link, ready, up, got, fence, ipc,
                   iturn, sendVars, cancelVars, watchVars, faults>>

\* requestTurnInterrupt: whatever turn is in flight is interrupted.
WorkerCancel(h) ==
    /\ Takes(h, "cancel") /\ Took(h)
    /\ IF inflight[h] /\ ~asked[h]
       THEN /\ asked' = [asked EXCEPT ![h] = TRUE]
            /\ fence' = [fence EXCEPT ![h] = TRUE]
            /\ ipc' = [ipc EXCEPT ![h] = "check"]
            /\ iturn' = [iturn EXCEPT ![h] = turnID[h]]
       ELSE UNCHANGED <<asked, fence, ipc, iturn>>
    /\ UNCHANGED <<sessionVars, turnVars, proc, link, ready, up, got, inflight,
                   turnID, sendVars, cancelVars, watchVars, faults>>

\* The worker stops: cleanup closes the connection, and the CLI, which may
\* take long.
WorkerRestart(h) ==
    /\ Takes(h, "restart")
    /\ proc' = [proc EXCEPT ![h] = "stopping"]
    /\ down' = [down EXCEPT ![h] = <<>>]
    /\ Hangup(h)
    /\ UNCHANGED <<sessionVars, turnVars, ready, up, got, gateVars, sendVars,
                   cancelVars, watchVars, faults>>

\* completeTurn: the turn in flight ends and its terminal is sent, once; on a
\* dead connection it is lost.
WorkerCompletes(h) ==
    /\ inflight' = [inflight EXCEPT ![h] = FALSE]
    /\ asked' = [asked EXCEPT ![h] = FALSE]
    /\ up' = IF link[h] = "open"
             THEN [up EXCEPT ![h] = Append(@, Msg("terminal", turnID[h]))]
             ELSE up

\* The CLI reports the end of the turn, aborted or not, or the input cannot be
\* submitted.
WorkerTurnEnds(h) ==
    /\ proc[h] = "running" /\ inflight[h]
    /\ WorkerCompletes(h)
    /\ UNCHANGED <<sessionVars, turnVars, proc, link, ready, down, got, turnID,
                   fence, ipc, iturn, sendVars, cancelVars, watchVars, faults>>

\* shouldInterruptTurn.
InterruptCheck(h) ==
    /\ proc[h] = "running" /\ ipc[h] = "check"
    /\ ipc' = [ipc EXCEPT ![h] =
                IF inflight[h] /\ turnID[h] = iturn[h] /\ asked[h] /\ fence[h]
                THEN "esc" ELSE "finish"]
    /\ UNCHANGED <<sessionVars, turnVars, proc, linkVars, inflight, turnID,
                   asked, fence, iturn, sendVars, cancelVars, watchVars, faults>>

\* Interrupt: Esc is written to the CLI, or cannot be and the turn fails.
InterruptEsc(h) ==
    /\ proc[h] = "running" /\ ipc[h] = "esc"
    /\ ipc' = [ipc EXCEPT ![h] = "finish"]
    /\ \/ UNCHANGED <<inflight, asked, up>>
       \/ /\ inflight[h] /\ turnID[h] = iturn[h]
          /\ WorkerCompletes(h)
    /\ UNCHANGED <<sessionVars, turnVars, proc, link, ready, down, got, turnID,
                   fence, iturn, sendVars, cancelVars, watchVars, faults>>

\* finishTurnInterrupt.
InterruptFinish(h) ==
    /\ proc[h] = "running" /\ ipc[h] = "finish"
    /\ ipc' = [ipc EXCEPT ![h] = "none"]
    /\ fence' = [fence EXCEPT ![h] = IF turnID[h] = iturn[h] THEN FALSE ELSE @]
    /\ iturn' = [iturn EXCEPT ![h] = 0]
    /\ UNCHANGED <<sessionVars, turnVars, proc, linkVars, inflight, turnID,
                   asked, sendVars, cancelVars, watchVars, faults>>

-----------------------------------------------------------------------------
WorkerReads(h) == WorkerInput(h) \/ WorkerCancel(h) \/ WorkerRestart(h)

Interrupts(h) == InterruptCheck(h) \/ InterruptEsc(h) \/ InterruptFinish(h)

Routes(h) == Route(h) \/ RouteReady(h) \/ MarkReady(h) \/ RouteTerminal(h)

Sends(s) == SendGiveUp(s) \/ SendBegin(s) \/ SendWrite(s) \/ SendFail(s)

Cancels(t) ==
    \/ CancelLook(t) \/ CancelWrite(t) \/ CancelFailed(t)
    \/ CancelRecheck(t) \/ CancelGiveUp(t)

Watches(t) ==
    WatchFire(t) \/ RestartMark(t) \/ RestartWrite(t) \/ RestartCheck(t)

HandleStep(h) ==
    \/ Discard(h) \/ Connect(h) \/ Break(h) \/ Exit(h) \/ WatchExit(h)
    \/ KillAfterGrace(h) \/ Routes(h)
    \/ WorkerReads(h) \/ WorkerTurnEnds(h) \/ Interrupts(h)

Next ==
    \/ \E fresh \in BOOLEAN : Spawn(fresh)
    \/ \E h \in Handle : HandleStep(h)
    \/ StartTimeout \/ Close
    \/ \E s \in Sender : SendStart(s) \/ Sends(s)
    \/ CancelCheck \/ CancelBegin
    \/ \E t \in Turn : Cancels(t) \/ Watches(t)

Spec == Init /\ [][Next]_vars

\* What the program does without the help of a client, the CLI or the network:
\* its goroutines go on, timers fire, the monitor looks again and again at a
\* session without a worker or with a dead one, and workers connect and read.
\* A worker told to stop need not manage to.
Fairness ==
    /\ WF_vars(Spawn(TRUE))
    /\ \A h \in Handle :
        /\ WF_vars(Discard(h)) /\ WF_vars(Connect(h)) /\ WF_vars(Routes(h))
        /\ WF_vars(WatchExit(h))
        /\ WF_vars(KillAfterGrace(h))
        /\ WF_vars(WorkerReads(h)) /\ WF_vars(Interrupts(h))
    /\ \A s \in Sender : WF_vars(Sends(s))
    /\ \A t \in Turn : WF_vars(Cancels(t)) /\ WF_vars(Watches(t))

FairSpec == Spec /\ Fairness

-----------------------------------------------------------------------------
(* Properties.                                                             *)

\* Every variable has its type, and no send is tried more than MaxTries times.
TypeOK ==
    /\ closed \in BOOLEAN
    /\ status \in {"CREATED", "SPAWNING", "READY", "RECOVERING", "CLOSED"}
    /\ worker \in Handle \union {Nil}
    /\ pending \in Handle \union {Nil}
    /\ active \in BOOLEAN /\ cancelling \in BOOLEAN
    /\ token \in 0 .. MaxTurns
    /\ terminals \in Seq(Terminal)
    /\ proc \in [Handle -> {"unused", "running", "stopping", "exited"}]
    /\ link \in [Handle -> {"none", "open", "broken"}]
    /\ ready \in [Handle -> BOOLEAN]
    /\ down \in [Handle -> Seq(Message)]
    /\ up \in [Handle -> Seq(Message)]
    /\ got \in [Handle -> Seq(Message)]
    /\ inflight \in [Handle -> BOOLEAN]
    /\ turnID \in [Handle -> 0 .. MaxTurns]
    /\ asked \in [Handle -> BOOLEAN]
    /\ fence \in [Handle -> BOOLEAN]
    /\ ipc \in [Handle -> {"none", "check", "esc", "finish"}]
    /\ iturn \in [Handle -> 0 .. MaxTurns]
    /\ spc \in [Sender -> {"idle", "wait", "write", "fail"}]
    /\ shandle \in [Sender -> Handle \union {Nil}]
    /\ sturn \in [Sender -> 0 .. MaxTurns]
    /\ checked \in BOOLEAN
    /\ cpc \in [Turn -> {"none", "look", "write", "failed", "recheck", "giveup", "done"}]
    /\ chandle \in [Turn -> Handle \union {Nil}]
    /\ ctries \in [Turn -> 0 .. MaxTries]
    /\ \A t \in Turn : ctries[t] = MaxTries => cpc[t] = "giveup"
    /\ wpc \in [Turn -> {"none", "armed", "mark", "write", "check", "done"}]
    /\ whandle \in [Turn -> Handle \union {Nil}]
    /\ wtries \in [Turn -> 0 .. MaxTries]
    /\ condemned \subseteq Handle
    /\ faults \in 0 .. MaxFaults

\* A turn gets at most one terminal, and terminals come in the order of the
\* turns, however the terminal of the worker, the failed cancel and the
\* watchdog race.
OneTerminalPerTurn ==
    \A i, j \in 1 .. Len(terminals) : i < j => terminals[i].ends < terminals[j].ends

\* A cancel that fails or times out ends the turn it was accepted for and no
\* later one.
FailureOfOwnTurn ==
    \A i \in 1 .. Len(terminals) :
        terminals[i].by = "daemon" => terminals[i].ends = terminals[i].about

\* The worker a restart is pending for never makes the recovering session
\* READY again, although its READY may be late and may have passed the check
\* of routeMessage before the watchdog fired.
FencedNeverReopens ==
    [][ \A h \in Handle : pending = h /\ status = "RECOVERING" /\ status' = "READY"
            => UNCHANGED got[h] ]_vars

\* A pending restart is one of the current worker, never of one that was
\* replaced: the replacement can become READY.
FenceOfCurrentWorker == pending # Nil /\ worker # Nil => pending = worker

\* Esc is written while the turn it is for is the last one begun: no later
\* input has been given to the CLI.
EscBeforeNextTurn == \A h \in Handle : ipc[h] = "esc" => turnID[h] = iturn[h]

\* An accepted cancel comes to an end: the turn ends, whatever worker,
\* connection and CLI do, or the session is closed.
CancelAnswered == cancelling ~> (~cancelling \/ closed)

\* A worker that was told to restart because a cancel timed out is gone
\* sooner or later, also if the message is lost.
CondemnedWorkerGoes ==
    \A h \in Handle : h \in condemned /\ worker = h ~> worker # h \/ closed

-----------------------------------------------------------------------------
(* What the documents say and the code does not do.                        *)

\* The terminal of a turn of a worker that is no longer the current one does
\* not end the turn that runs now.
LateTerminalsIgnored ==
    [][ \A h \in Handle :
          /\ h # worker
          /\ got[h] # <<>> /\ got'[h] = <<>>
          /\ Head(got[h]).kind = "terminal" /\ Head(got[h]).turn # token
          => UNCHANGED turnVars ]_vars

\* A turn whose input the worker has accepted is active until a terminal of it
\* or of a restart is there: the gate opens with a terminal.
GateUntilTerminal ==
    [][ active /\ ~active' /\ (\E h \in Handle : inflight[h] /\ turnID[h] = token)
            => terminals' # terminals ]_vars

\* The exit of the worker of a turn ends the turn.
ExitEndsTurn ==
    active /\ worker # Nil /\ proc[worker] = "exited" ~> ~active \/ closed

\* A worker whose restart is pending is replaced.
FencedWorkerGoes ==
    \A h \in Handle : pending = h /\ worker = h ~> worker # h \/ closed

\* A cancel interrupts the turn it was accepted for.
CancelHitsOwnTurn ==
    [][ \A h \in Handle : ipc[h] = "none" /\ ipc'[h] = "check"
            => turnID[h] = Head(down[h]).turn ]_vars
=============================================================================
