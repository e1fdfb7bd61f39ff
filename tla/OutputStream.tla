------------------------------ MODULE OutputStream ------------------------------
(***************************************************************************)
(* The output and the turn terminals of one session on their way from its  *)
(* worker to the clients that wait for them.  SessionMeta keeps both in     *)
(* bounded rings with sequence numbers; whoever adds something closes the   *)
(* current notification channel and makes a new one, all under meta.mu.     *)
(* forwardClientMessage subscribes a client to both rings, begins the turn, *)
(* sends the input, and leaves a goroutine behind that selects between the  *)
(* two channels, the close of the session's worker, and its own end.        *)
(*                                                                         *)
(* A channel is the number of channels made before it, so it is closed when *)
(* a later one is the current one.  The n-th output of the session is the   *)
(* number n, so that the content of the ring shows what a reader was given. *)
(***************************************************************************)
EXTENDS Integers, Sequences

CONSTANTS
    Client,         \* TCP connections that send one input and wait
    Poster,         \* HTTP requests that send one input
    MaxLines,       \* maxMemoryOutputLines (2000)
    MaxRestored,    \* maxPersistedOutputLines (5000)
    MaxTerminals,   \* maxMemoryTerminals (16)
    MaxOutput,      \* bound: outputs of the session
    MaxTurns,       \* bound: turns begun
    MaxExits        \* bound: ends of a worker

Actor == Client \union Poster

ASSUME ActorAssumption == Client \intersect Poster = {}
ASSUME BoundAssumption ==
    /\ MaxLines \in Nat \ {0} /\ MaxRestored \in Nat /\ MaxTerminals \in Nat \ {0}
    /\ MaxOutput \in Nat /\ MaxTurns \in Nat /\ MaxExits \in Nat

VARIABLES
    codex,          \* meta.CliType is Codex: inputs are turns
    lines,          \* meta.LastOutput
    outputSeq,      \* meta.outputSeq
    outputCh,       \* meta.outputNotifyCh
    terminals,      \* meta.terminals, each as the turn it is about
    terminalSeq,    \* meta.terminalSeq
    terminalCh,     \* meta.terminalNotifyCh
    active,         \* meta.turnActive
    cancelling,     \* meta.turnCancelling
    token,          \* meta.turnToken
    onClose,        \* meta.onClose: the forwarders registered to be stopped
    stopped,        \* forwarders whose stop channel is closed
    up,             \* the session has a ready worker
    working,        \* the turn the worker is at, 0 for none
    exits,          \* worker processes that have ended
    pc,             \* actor -> where it is
    held,           \* actor -> the handle it captured is that of a live worker
    mine,           \* actor -> the turn it began, 0 for none
    cursor, ch,     \* client -> its output cursor and channel
    tcursor, tch,   \* client -> its terminal cursor and channel
    start,          \* client -> outputSeq when it subscribed
    got,            \* client -> the outputs written to its connection
    verdict,        \* client -> the turn of the terminal written to it, 0 for none
    missed,         \* client -> outputs trimmed before it could read them
    about           \* output -> the turn it is of, 0 for none

meta == <<lines, outputSeq, outputCh, terminals, terminalSeq, terminalCh>>
gate == <<active, cancelling, token>>
env  == <<up, working, exits>>
subs == <<cursor, ch, tcursor, tch, start>>
seen == <<got, verdict, missed>>
vars == <<codex, meta, gate, onClose, stopped, env, pc, held, mine, subs, seen, about>>

PC == {"idle", "subscribed", "begin", "line", "send", "register", "select",
       "done", "refused", "gone"}

\* The places of a client that has subscribed and may still read.
Reading == {"subscribed", "begin", "send", "register", "select"}

-----------------------------------------------------------------------------
(* The rings.                                                              *)

\* s = s[len(s)-n:] when it is longer than n.
Latest(s, n) == IF Len(s) > n THEN SubSeq(s, Len(s) - n + 1, Len(s)) ELSE s

\* Mutant of Since: the cursor taken for an index of the ring.
SinceIndex(s, seq, cur) == SubSeq(s, (IF cur > Len(s) THEN Len(s) ELSE cur) + 1, Len(s))

\* What a ring of the latest Len(s) of seq entries has after cursor cur.
Since(s, seq, cur) ==
    LET base == seq - Len(s)
        from == IF cur < base THEN base ELSE IF cur > seq THEN seq ELSE cur
    IN  SubSeq(s, from - base + 1, Len(s))

\* SnapshotTerminalsSince.
TerminalsSince(c) == Since(terminals, terminalSeq, tcursor[c])

\* Mutant of Advance: by what was read, though the ring may have lost more.
AdvanceByRead(seq, cur, outs) == cur + Len(outs)

\* The cursor after a snapshot.
Advance(seq, cur, outs) == seq

\* Mutant of Fresh: nobody is told of a line that pushes another one out.
FreshIfRoom(current, ring, max) == IF Len(ring) < max THEN current + 1 ELSE current

\* The channel after an addition: the current one is closed, a new one made.
Fresh(current, ring, max) == current + 1

\* The outputs that the next one pushes out of the ring.
Trimmed == {lines[i] : i \in 1 .. Len(lines) + 1 - MaxLines}

\* AddOutput: the next output, of turn t.
AddOutput(t) ==
    /\ outputSeq < MaxOutput
    /\ outputSeq' = outputSeq + 1
    /\ lines' = Latest(Append(lines, outputSeq + 1), MaxLines)
    /\ outputCh' = Fresh(outputCh, lines, MaxLines)
    /\ about' = Append(about, t)
    /\ missed' = [c \in Client |->
            IF pc[c] \in Reading
            THEN missed[c] \union {n \in Trimmed : n > cursor[c]} ELSE missed[c]]
    /\ UNCHANGED <<terminals, terminalSeq, terminalCh>>

\* Mutant of PublishTerminal: the channel is replaced only when there is room.
PublishTerminalIfRoom(t) ==
    /\ terminals' = Latest(Append(terminals, t), MaxTerminals)
    /\ terminalSeq' = terminalSeq + 1
    /\ terminalCh' = FreshIfRoom(terminalCh, terminals, MaxTerminals)
    /\ UNCHANGED <<lines, outputSeq, outputCh, about, missed>>

\* publishTerminalLocked: a terminal about turn t.
PublishTerminal(t) ==
    /\ terminals' = Latest(Append(terminals, t), MaxTerminals)
    /\ terminalSeq' = terminalSeq + 1
    /\ terminalCh' = Fresh(terminalCh, terminals, MaxTerminals)
    /\ UNCHANGED <<lines, outputSeq, outputCh, about, missed>>

\* finishTurnLocked.
FinishTurn(t) ==
    /\ active' = FALSE
    /\ cancelling' = FALSE
    /\ UNCHANGED token
    /\ PublishTerminal(t)

-----------------------------------------------------------------------------
\* A session that was just created, or one restored with the output of its file,
\* which may be more than the ring holds from the next output on.
Init ==
    /\ codex \in BOOLEAN
    /\ \E k \in 0 .. MaxRestored :
        /\ k <= MaxOutput
        /\ lines = [i \in 1 .. k |-> i]
        /\ outputSeq = k
        /\ about = [i \in 1 .. k |-> 0]
    /\ outputCh = 0
    /\ terminals = <<>> /\ terminalSeq = 0 /\ terminalCh = 0
    /\ active = FALSE /\ cancelling = FALSE /\ token = 0
    /\ onClose = {} /\ stopped = {}
    /\ up = TRUE /\ working = 0 /\ exits = 0
    /\ pc = [a \in Actor |-> "idle"]
    /\ held = [a \in Actor |-> FALSE]
    /\ mine = [a \in Actor |-> 0]
    /\ cursor = [c \in Client |-> 0] /\ ch = [c \in Client |-> 0]
    /\ tcursor = [c \in Client |-> 0] /\ tch = [c \in Client |-> 0]
    /\ start = [c \in Client |-> 0]
    /\ got = [c \in Client |-> <<>>]
    /\ verdict = [c \in Client |-> 0]
    /\ missed = [c \in Client |-> {}]

Goto(a, l) == pc' = [pc EXCEPT ![a] = l]

-----------------------------------------------------------------------------
(* forwardClientMessage and SendInput.                                     *)

\* The session is open and its worker ready; the handle is captured.  Then
\* OutputSubscription: cursor and channel under one lock.
Subscribe(c) ==
    /\ pc[c] = "idle" /\ up
    /\ held' = [held EXCEPT ![c] = TRUE]
    /\ cursor' = [cursor EXCEPT ![c] = outputSeq]
    /\ start' = [start EXCEPT ![c] = outputSeq]
    /\ ch' = [ch EXCEPT ![c] = outputCh]
    /\ missed' = [missed EXCEPT ![c] = {}]
    /\ Goto(c, "subscribed")
    /\ UNCHANGED <<codex, meta, gate, onClose, stopped, env, mine, tcursor, tch,
                   got, verdict, about>>

\* TerminalSubscription.
SubscribeTerminals(c) ==
    /\ pc[c] = "subscribed"
    /\ tcursor' = [tcursor EXCEPT ![c] = terminalSeq]
    /\ tch' = [tch EXCEPT ![c] = terminalCh]
    /\ Goto(c, "begin")
    /\ UNCHANGED <<codex, meta, gate, onClose, stopped, env, held, mine, cursor, ch,
                   start, seen, about>>

\* SendInput, up to the worker's readiness.
Post(p) ==
    /\ pc[p] = "idle" /\ up
    /\ held' = [held EXCEPT ![p] = TRUE]
    /\ Goto(p, "begin")
    /\ UNCHANGED <<codex, meta, gate, onClose, stopped, env, mine, subs, seen, about>>

AfterBegin(a) == IF a \in Poster THEN "line" ELSE "send"

\* beginCodexTurnIfReady: refused while a turn is active or the session is not
\* READY.  Other sessions have no turns.
BeginTurn(a) ==
    /\ pc[a] = "begin"
    /\ \/ /\ codex /\ up /\ ~active /\ token < MaxTurns
          /\ token' = token + 1
          /\ active' = TRUE
          /\ cancelling' = FALSE
          /\ mine' = [mine EXCEPT ![a] = token + 1]
          /\ Goto(a, AfterBegin(a))
       \/ /\ codex /\ (~up \/ active)
          /\ Goto(a, "refused")
          /\ UNCHANGED <<gate, mine>>
       \/ /\ ~codex
          /\ Goto(a, AfterBegin(a))
          /\ UNCHANGED <<gate, mine>>
    /\ UNCHANGED <<codex, meta, onClose, stopped, env, held, subs, seen, about>>

\* SendInput adds the user's line to the output before it sends it.
UserLine(p) ==
    /\ pc[p] = "line"
    /\ AddOutput(mine[p])
    /\ Goto(p, "send")
    /\ UNCHANGED <<codex, gate, onClose, stopped, env, held, mine, subs, got, verdict>>

\* The input is written to the worker, which refuses it while it is at an earlier
\* turn: its error message is only logged.
SendInput(a) ==
    /\ pc[a] = "send" /\ held[a]
    /\ working' = IF working = 0 THEN mine[a] ELSE working
    /\ Goto(a, IF a \in Poster THEN "done" ELSE "register")
    /\ UNCHANGED <<codex, meta, gate, onClose, stopped, up, exits, held, mine, subs,
                   seen, about>>

\* The write fails, on a connection that broke or of a worker that is gone:
\* FinishTurn opens the gate.
SendFails(a) ==
    /\ pc[a] = "send"
    /\ active' = FALSE
    /\ cancelling' = FALSE
    /\ Goto(a, "refused")
    /\ UNCHANGED <<codex, meta, token, onClose, stopped, env, held, mine, subs, seen, about>>

\* AddOnClose, and the start of the forwarding goroutine.
Register(c) ==
    /\ pc[c] = "register"
    /\ onClose' = onClose \union {c}
    /\ Goto(c, "select")
    /\ UNCHANGED <<codex, meta, gate, stopped, env, held, mine, subs, seen, about>>

-----------------------------------------------------------------------------
(* The forwarding goroutine: one select, which picks at random among the    *)
(* cases that are ready.                                                    *)

\* case <-outputCh.  A write that fails ends the goroutine.
ForwardOutput(c) ==
    /\ pc[c] = "select"
    /\ ch[c] < outputCh
    /\ ch' = [ch EXCEPT ![c] = outputCh]
    /\ LET outs == Since(lines, outputSeq, cursor[c]) IN
        /\ cursor' = [cursor EXCEPT ![c] = Advance(outputSeq, @, outs)]
        /\ \/ /\ got' = [got EXCEPT ![c] = @ \o outs]
              /\ UNCHANGED pc
           \/ \E k \in 0 .. Len(outs) :
                /\ k < Len(outs)
                /\ got' = [got EXCEPT ![c] = @ \o SubSeq(outs, 1, k)]
                /\ Goto(c, "gone")
    /\ UNCHANGED <<codex, meta, gate, onClose, stopped, env, held, mine, tcursor, tch,
                   start, verdict, missed, about>>

\* case <-terminalCh.  The first terminal ends the goroutine, written or not.
ForwardTerminal(c) ==
    /\ pc[c] = "select"
    /\ tch[c] < terminalCh
    /\ tch' = [tch EXCEPT ![c] = terminalCh]
    /\ tcursor' = [tcursor EXCEPT ![c] = terminalSeq]
    /\ LET news == TerminalsSince(c) IN
        /\ news # <<>>
        /\ \/ /\ verdict' = [verdict EXCEPT ![c] = Head(news)]
              /\ Goto(c, "done")
           \/ /\ UNCHANGED verdict
              /\ Goto(c, "gone")
    /\ UNCHANGED <<codex, meta, gate, onClose, stopped, env, held, mine, cursor, ch,
                   start, got, missed, about>>

\* case <-stop.
ForwardStopped(c) ==
    /\ pc[c] = "select"
    /\ c \in stopped
    /\ Goto(c, "gone")
    /\ UNCHANGED <<codex, meta, gate, onClose, stopped, env, held, mine, subs, seen, about>>

\* case <-ctx.Done(): 130 s are over, or the client sent something or hung up,
\* which the goroutine that reads one byte reports.
ForwardEnds(c) ==
    /\ pc[c] = "select"
    /\ Goto(c, "gone")
    /\ UNCHANGED <<codex, meta, gate, onClose, stopped, env, held, mine, subs, seen, about>>

-----------------------------------------------------------------------------
(* What routeMessage makes of the worker's messages, and the watchdog.      *)

\* MsgOutput: of the turn the worker is at; the CLI of another session may print
\* at any time.
WorkerOutput ==
    /\ up /\ (working # 0 \/ ~codex)
    /\ AddOutput(working)
    /\ UNCHANGED <<codex, gate, onClose, stopped, env, pc, held, mine, subs, got, verdict>>

\* MsgTurnCompleted: CompleteTurn ends whatever turn is active.
WorkerTerminal ==
    /\ up /\ working # 0
    /\ working' = 0
    /\ IF active THEN FinishTurn(working)
       ELSE UNCHANGED <<meta, gate, about, missed>>
    /\ UNCHANGED <<codex, onClose, stopped, up, exits, pc, held, mine, subs, got, verdict>>

\* BeginTurnCancel.
BeginTurnCancel ==
    /\ active /\ ~cancelling
    /\ cancelling' = TRUE
    /\ UNCHANGED <<codex, meta, active, token, onClose, stopped, env, pc, held, mine,
                   subs, seen, about>>

\* FailCancellingTurn: the cancel could not be sent, or was not answered in time.
FailCancellingTurn ==
    /\ active /\ cancelling
    /\ FinishTurn(token)
    /\ UNCHANGED <<codex, onClose, stopped, env, pc, held, mine, subs, got, verdict>>

\* waitWorkerExit: the worker is gone, and the forwarders registered are stopped.
WorkerExit ==
    /\ up /\ exits < MaxExits
    /\ up' = FALSE
    /\ working' = 0
    /\ exits' = exits + 1
    /\ held' = [a \in Actor |-> FALSE]
    /\ stopped' = stopped \union onClose
    /\ onClose' = {}
    /\ UNCHANGED <<codex, meta, gate, pc, mine, subs, seen, about>>

\* The monitor has started another worker, which is READY.
WorkerReady ==
    /\ ~up
    /\ up' = TRUE
    /\ UNCHANGED <<codex, meta, gate, onClose, stopped, working, exits, pc, held, mine,
                   subs, seen, about>>

-----------------------------------------------------------------------------
Forward(c) ==
    ForwardOutput(c) \/ ForwardTerminal(c) \/ ForwardStopped(c)

Next ==
    \/ \E c \in Client :
        Subscribe(c) \/ SubscribeTerminals(c) \/ Register(c) \/ Forward(c) \/ ForwardEnds(c)
    \/ \E p \in Poster : Post(p) \/ UserLine(p)
    \/ \E a \in Actor : BeginTurn(a) \/ SendInput(a) \/ SendFails(a)
    \/ WorkerOutput \/ WorkerTerminal \/ BeginTurnCancel \/ FailCancellingTurn
    \/ WorkerExit \/ WorkerReady

Spec == Init /\ [][Next]_vars

\* The forwarding goroutines run, and a select does not pass over a case that
\* stays ready for ever.
Fairness ==
    \A c \in Client :
        /\ WF_vars(ForwardOutput(c))
        /\ WF_vars(ForwardTerminal(c))
        /\ WF_vars(ForwardStopped(c))

FairSpec == Spec /\ Fairness

-----------------------------------------------------------------------------
(* Properties.                                                             *)

\* Types, and the rings within their bounds, but for what was restored before
\* the first output.
TypeOK ==
    /\ codex \in BOOLEAN
    /\ lines \in Seq(Nat) /\ outputSeq \in Nat
    /\ Len(lines) <= MaxLines \/ (Len(lines) = outputSeq /\ outputSeq <= MaxRestored)
    /\ outputCh \in Nat
    /\ terminals \in Seq(Nat) /\ Len(terminals) <= MaxTerminals /\ terminalSeq \in Nat
    /\ terminalCh \in Nat
    /\ active \in BOOLEAN /\ cancelling \in BOOLEAN /\ token \in Nat
    /\ onClose \subseteq Client /\ stopped \subseteq Client
    /\ up \in BOOLEAN /\ working \in Nat /\ exits \in Nat
    /\ pc \in [Actor -> PC]
    /\ held \in [Actor -> BOOLEAN]
    /\ mine \in [Actor -> Nat]
    /\ cursor \in [Client -> Nat] /\ ch \in [Client -> Nat]
    /\ tcursor \in [Client -> Nat] /\ tch \in [Client -> Nat]
    /\ start \in [Client -> Nat]
    /\ got \in [Client -> Seq(Nat)]
    /\ verdict \in [Client -> Nat]
    /\ missed \in [Client -> SUBSET Nat]
    /\ about \in Seq(Nat)

\* A client that waits with something unread is woken: its channel is closed.
\* The cursor and the channel of a subscription or a snapshot must belong to
\* the same moment, and every addition must close the channel of that moment.
NoLostWakeup ==
    \A c \in Client :
        /\ pc[c] \in Reading /\ cursor[c] < outputSeq => ch[c] < outputCh
        /\ pc[c] \in Reading \ {"subscribed"} /\ tcursor[c] < terminalSeq => tch[c] < terminalCh

\* What a waiting client was given and what was trimmed before it could read it
\* are together all the outputs since it subscribed, up to its cursor, and are
\* given once: nothing from before the subscription, nothing twice, no gap
\* that the ring does not explain.
ReadsEverythingOnce ==
    \A c \in Client : pc[c] \in Reading =>
        /\ \A i, j \in 1 .. Len(got[c]) : i < j => got[c][i] < got[c][j]
        /\ \A i \in 1 .. Len(got[c]) : got[c][i] > start[c]
        /\ \A n \in start[c] + 1 .. cursor[c] :
            n \in missed[c] \/ \E i \in 1 .. Len(got[c]) : got[c][i] = n

\* The readers of a session see one log, within the window of the ring.
Log == INSTANCE OutputLog WITH
    Readers <- Client, Window <- MaxLines,
    written <- outputSeq, position <- cursor, given <- got,
    reading <- {c \in Client : pc[c] \in Reading}

ImplementsOutputLog == Log!LogSpec

\* A client whose turn has a terminal does not wait for ever, nor does one with
\* output to read: it is served, or it is gone.
WaitingClientServed ==
    \A c \in Client :
        (pc[c] = "select" /\ (cursor[c] < outputSeq \/ tcursor[c] < terminalSeq))
            ~> (pc[c] # "select" \/ (cursor[c] = outputSeq /\ tcursor[c] = terminalSeq))

\* docs/versions/v5-architecture.md:23: the client keeps printing all the output
\* of its turn.  When the turn's terminal reaches the client, so has its output.
WholeTurnDelivered ==
    \A c \in Client : pc[c] = "done" /\ verdict[c] = mine[c] /\ codex =>
        \A n \in start[c] + 1 .. outputSeq : about[n] = mine[c] =>
            n \in missed[c] \/ \E i \in 1 .. Len(got[c]) : got[c][i] = n

\* The terminal that ends a client's wait is that of the turn it began.
OwnVerdict == \A c \in Client : pc[c] = "done" => verdict[c] = mine[c]
=============================================================================
