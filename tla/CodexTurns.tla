------------------------------- MODULE CodexTurns -------------------------------
(***************************************************************************)
(* A worker that runs Codex.  An input is a turn of the worker: Send pastes *)
(* it into Codex's composer, presses Enter, and looks for it in the history *)
(* file that all Codex processes of the user share; when it is there, a     *)
(* watcher reads the rollout of the Codex session, arms at the user record  *)
(* with the text of the input, and takes the next completion for the        *)
(* answer.  A cancel ends Send and sends Esc.                               *)
(*                                                                         *)
(* Codex itself is external: a composer, tasks that run one after another,  *)
(* and two files it appends to.  The worker lives: its end is in            *)
(* TurnRecovery.                                                            *)
(***************************************************************************)
EXTENDS Integers, Sequences, FiniteSets

CONSTANTS
    Text,           \* inputs that are not blank
    Blank,          \* an input of white space
    NoText,         \* what two inputs pasted one after the other make
    MaxTurns,       \* bound: inputs
    MaxAttempts,    \* presses of Enter (3)
    MaxFaults       \* bound: failed writes to the PTY and failed reads

ASSUME TextAssumption ==
    Text # {} /\ Blank \notin Text /\ NoText \notin Text /\ Blank # NoText
ASSUME BoundAssumption ==
    MaxTurns \in Nat /\ MaxAttempts \in Nat \ {0} /\ MaxFaults \in Nat

Turn == 1 .. MaxTurns

VARIABLES
    resumed,        \* a.resumeID is set: Codex was started with "resume"
    turnID,         \* worker: the latest turn
    text,           \* turn -> its input
    asked,          \* turns in flight a cancel was accepted for (turnCancelRequested)
    ended,          \* turns that are no longer in flight
    fence,          \* worker: turnInterruptPending
    ipc,            \* turn -> the goroutine in interruptTurn
    spc,            \* turn -> the goroutine in handleInput and Send
    sender,         \* the turn that holds sendTurnMu, 0 for none
    offset,         \* turn -> rolloutOffset
    tries,          \* turn -> Enters pressed
    wpc,            \* turn -> its goroutine in watchTranscript
    pos, armed,     \* turn -> the watcher's codexTranscriptCursor
    events,         \* a.events, which has room: a watcher publishes at most two
    taken,          \* the event that readAdapterEvents is about to send, if any
    sent,           \* outputs and terminals sent to the daemon
    composer,       \* Codex: turns whose text is in the composer
    tasks,          \* Codex: what was submitted: text, and the turns it is of
    begun, running, \* Codex: tasks begun, and the one that runs or 0
    escaped,        \* Codex: has seen Esc during the running task
    logged,         \* Codex: tasks with an entry in the history
    history,        \* history.jsonl: what was appended since the baseline of the
                    \* Send that runs
    rollout,        \* the session's rollout file
    faults

gateVars  == <<turnID, text, asked, ended, fence, ipc>>
sendVars  == <<spc, sender, offset, tries>>
watchVars == <<wpc, pos, armed>>
outVars   == <<events, taken, sent>>
cliVars   == <<composer, tasks, begun, running, escaped, logged, history, rollout>>
vars == <<resumed, gateVars, sendVars, watchVars, outVars, cliVars, faults>>

Task == [text : Text \union {NoText}, turns : SUBSET Turn]
Event == [turn : Turn, kind : {"output", "terminal"}, task : Nat]

\* A fresh session, or one resumed whose last turn, of some input, may have been cut
\* off.
Init ==
    /\ resumed \in BOOLEAN
    /\ turnID = 0 /\ text = [t \in Turn |-> Blank]
    /\ asked = {} /\ ended = {} /\ fence = FALSE
    /\ ipc = [t \in Turn |-> "none"]
    /\ spc = [t \in Turn |-> "none"]
    /\ sender = 0
    /\ offset = [t \in Turn |-> 0]
    /\ tries = [t \in Turn |-> 0]
    /\ wpc = [t \in Turn |-> "none"]
    /\ pos = [t \in Turn |-> 0] /\ armed = [t \in Turn |-> FALSE]
    /\ events = <<>> /\ taken = <<>> /\ sent = <<>>
    /\ composer = {} /\ running = 0 /\ escaped = FALSE
    /\ IF resumed
       THEN /\ tasks = <<[text |-> CHOOSE x \in Text : TRUE, turns |-> {}]>>
            /\ begun = 1 /\ logged = 1
            /\ \E cut \in BOOLEAN :
                rollout = <<[kind |-> "user", task |-> 1]>>
                            \o IF cut THEN <<>> ELSE <<[kind |-> "done", task |-> 1]>>
       ELSE tasks = <<>> /\ begun = 0 /\ logged = 0 /\ rollout = <<>>
    /\ history = {}
    /\ faults = 0

-----------------------------------------------------------------------------
(* The turn gate of the worker.                                            *)

InFlight(t) == t = turnID /\ t # 0 /\ t \notin ended

\* The context of the turn is cancelled.
Cancelled(t) == t \in asked \/ t \in ended

\* Mutant: whichever turn is in flight ends.
EndAny(t) ==
    IF InFlight(turnID)
    THEN ended' = ended \union {turnID} /\ asked' = asked \ {turnID}
    ELSE UNCHANGED <<ended, asked>>

\* finishTurnWithID: the turn ends if it is in flight.  If it was, the caller,
\* completeTurn, sends its terminal next, when turnMu is released.
EndTurn(t) ==
    IF InFlight(t)
    THEN ended' = ended \union {t} /\ asked' = asked \ {t}
    ELSE UNCHANGED <<ended, asked>>

\* The rest of completeTurn, for a turn that failed.
SendTerminal(t) == sent' = Append(sent, [kind |-> "terminal", turn |-> t, task |-> 0])

\* MsgUserInput: beginTurnWithID, and the goroutine of handleInput.
Input ==
    /\ turnID < MaxTurns
    /\ ~InFlight(turnID) /\ ~fence
    /\ turnID' = turnID + 1
    /\ \E x \in Text \union {Blank} : text' = [text EXCEPT ![turnID + 1] = x]
    /\ spc' = [spc EXCEPT ![turnID + 1] = "begin"]
    /\ UNCHANGED <<resumed, asked, ended, fence, ipc, sender, offset, tries,
                   watchVars, outVars, cliVars, faults>>

\* MsgCancelTurn: requestTurnInterrupt, and the goroutine of interruptTurn.
Cancel ==
    /\ InFlight(turnID) /\ turnID \notin asked
    /\ asked' = asked \union {turnID}
    /\ fence' = TRUE
    /\ ipc' = [ipc EXCEPT ![turnID] = "check"]
    /\ UNCHANGED <<resumed, turnID, text, ended, sendVars, watchVars, outVars, cliVars,
                   faults>>

\* finishTurnInterrupt, when the goroutine ends.
InterruptFinish(t) ==
    /\ ipc' = [ipc EXCEPT ![t] = "none"]
    /\ fence' = (fence /\ turnID # t)

\* shouldInterruptTurn.
InterruptCheck(t) ==
    /\ ipc[t] = "check"
    /\ IF InFlight(t) /\ fence
       THEN ipc' = [ipc EXCEPT ![t] = "esc"] /\ UNCHANGED fence
       ELSE InterruptFinish(t)
    /\ UNCHANGED <<resumed, turnID, text, asked, ended, sendVars, watchVars, outVars,
                   cliVars, faults>>

\* Interrupt: Esc, between two writes of Send.  The context of the active Send,
\* which it then cancels, is the turn's and was cancelled with it.
InterruptEsc(t) ==
    /\ ipc[t] = "esc"
    /\ escaped' = (running # 0)
    /\ InterruptFinish(t)
    /\ UNCHANGED <<resumed, turnID, text, asked, ended, sendVars, watchVars, outVars,
                   composer, tasks, begun, running, logged, history, rollout, faults>>

\* The write fails: failCurrentTurn.
InterruptFails(t) ==
    /\ ipc[t] = "esc" /\ faults < MaxFaults
    /\ faults' = faults + 1
    /\ EndTurn(t)
    /\ IF InFlight(t)
       THEN ipc' = [ipc EXCEPT ![t] = "report"] /\ UNCHANGED fence
       ELSE InterruptFinish(t)
    /\ UNCHANGED <<resumed, turnID, text, sendVars, watchVars, outVars, cliVars>>

InterruptReport(t) ==
    /\ ipc[t] = "report"
    /\ SendTerminal(t)
    /\ InterruptFinish(t)
    /\ UNCHANGED <<resumed, turnID, text, asked, ended, sendVars, watchVars, events,
                   taken, cliVars, faults>>

-----------------------------------------------------------------------------
(* handleInput and Send.                                                   *)

Step(t, from, to) == spc[t] = from /\ spc' = [spc EXCEPT ![t] = to]

\* The size of the rollout, if the adapter was told its session ID at the start.
\* The ID that Send finds in the history is not kept.
RolloutOffset == IF resumed THEN Len(rollout) ELSE 0

\* The turn is in flight, and sendTurnMu is taken.  A blank input is no error, and
\* nothing more happens.
SendBegin(t) ==
    /\ sender = 0
    /\ IF ~InFlight(t) \/ text[t] = Blank
       THEN /\ Step(t, "begin", "done")
            /\ UNCHANGED <<sender, offset>>
       ELSE /\ Step(t, "begin", "base")
            /\ sender' = t
            /\ offset' = [offset EXCEPT ![t] = RolloutOffset]
    /\ UNCHANGED <<resumed, gateVars, tries, watchVars, outVars, cliVars, faults>>

\* The size of the history: only what is appended from now on is looked at.
SendBase(t) ==
    /\ Step(t, "base", "paste")
    /\ history' = {}
    /\ UNCHANGED <<resumed, gateVars, sender, offset, tries, watchVars, outVars, composer,
                   tasks, begun, running, escaped, logged, rollout, faults>>

\* The input is written, unless the turn is cancelled.
SendPaste(t) ==
    /\ IF Cancelled(t)
       THEN Step(t, "paste", "failed") /\ UNCHANGED composer
       ELSE Step(t, "paste", "enter") /\ composer' = composer \union {t}
    /\ UNCHANGED <<resumed, gateVars, sender, offset, tries, watchVars, outVars,
                   tasks, begun, running, escaped, logged, history, rollout, faults>>

\* What Codex makes of Enter: it submits what is in the composer, or takes the key
\* for something else.
Enter ==
    \/ /\ composer # {}
       /\ composer' = {}
       /\ tasks' = Append(tasks,
            [text |-> IF Cardinality(composer) = 1
                      THEN text[CHOOSE u \in composer : TRUE] ELSE NoText,
             turns |-> composer])
    \/ UNCHANGED <<composer, tasks>>

\* Enter, after 200 ms or after an attempt that was not confirmed.
SendEnter(t) ==
    /\ IF Cancelled(t)
       THEN Step(t, "enter", "failed") /\ UNCHANGED <<composer, tasks, tries>>
       ELSE /\ Step(t, "enter", "wait")
            /\ tries' = [tries EXCEPT ![t] = @ + 1]
            /\ Enter
    /\ UNCHANGED <<resumed, gateVars, sender, offset, watchVars, outVars, begun,
                   running, escaped, logged, history, rollout, faults>>

\* A write of Send fails.
WriteFails(t) ==
    /\ faults < MaxFaults
    /\ faults' = faults + 1
    /\ \/ Step(t, "paste", "failed")
       \/ Step(t, "enter", "failed")
    /\ UNCHANGED <<resumed, gateVars, sender, offset, tries, watchVars, outVars,
                   cliVars>>

\* Mutant: an entry of whichever Codex process counts.
MatchesForeign(t) == \E e \in history : e.text = text[t]

\* matchCodexHistoryDelta: an entry after the baseline with the text of the input
\* and of a session whose rollout this Codex process has open.
Matches(t) == \E e \in history : e.text = text[t] /\ e.own

\* sendTurnMu is released, and the locals of Send are gone.
Return(t) ==
    /\ sender' = 0
    /\ tries' = [tries EXCEPT ![t] = 0]
    /\ history' = {}

\* Confirmed: Send starts the watcher and returns.  MsgCliSessionBound, which
\* follows, is left out.
SendConfirm(t) ==
    /\ Matches(t)
    /\ Step(t, "wait", "done")
    /\ Return(t)
    /\ wpc' = [wpc EXCEPT ![t] = "watch"]
    /\ pos' = [pos EXCEPT ![t] = offset[t]]
    /\ UNCHANGED <<resumed, gateVars, offset, armed, outVars, composer, tasks,
                   begun, running, escaped, logged, rollout, faults>>

\* Mutant: the text is pasted again.
RetryPastes(t) == IF tries[t] < MaxAttempts THEN "paste" ELSE "failed"

\* Enter once more, never the text again.
Retry(t) == IF tries[t] < MaxAttempts THEN "enter" ELSE "failed"

\* 3 s are over.  The entry may be there, and its owner not be known yet.
SendTimeout(t) ==
    /\ Step(t, "wait", Retry(t))
    /\ UNCHANGED <<resumed, gateVars, sender, offset, tries, watchVars, outVars,
                   cliVars, faults>>

\* The select of waitForCodexHistory sees the cancellation.
SendInterrupted(t) ==
    /\ Cancelled(t)
    /\ Step(t, "wait", "failed")
    /\ UNCHANGED <<resumed, gateVars, sender, offset, tries, watchVars, outVars,
                   cliVars, faults>>

\* Send returns an error: nothing is done about it when the turn is cancelled.
SendReturns(t) ==
    /\ Step(t, "failed", IF Cancelled(t) THEN "done" ELSE "fail")
    /\ Return(t)
    /\ UNCHANGED <<resumed, gateVars, offset, watchVars, outVars, composer, tasks, begun,
                   running, escaped, logged, rollout, faults>>

\* Mutant: the failure is only logged.
SendFailsLogged(t) ==
    /\ Step(t, "fail", "done")
    /\ UNCHANGED <<resumed, gateVars, sender, offset, tries, watchVars, outVars, cliVars,
                   faults>>

\* failCurrentTurn.
SendFails(t) ==
    /\ Step(t, "fail", IF InFlight(t) THEN "report" ELSE "done")
    /\ EndTurn(t)
    /\ UNCHANGED <<resumed, turnID, text, fence, ipc, sender, offset, tries,
                   watchVars, outVars, cliVars, faults>>

SendReport(t) ==
    /\ Step(t, "report", "done")
    /\ SendTerminal(t)
    /\ UNCHANGED <<resumed, gateVars, sender, offset, tries, watchVars, events, taken,
                   cliVars, faults>>

-----------------------------------------------------------------------------
(* watchTranscript and readAdapterEvents.                                  *)

New(t) == pos[t] + 1 .. Len(rollout)

\* parseLine arms at a user record with the text of the input.
Arms(t) ==
    {i \in New(t) : rollout[i].kind = "user" /\ tasks[rollout[i].task].text = text[t]}

\* Mutant: an aborted turn is no end.
EndsCompleted(t) ==
    {i \in New(t) : rollout[i].kind = "done" /\ (armed[t] \/ \E j \in Arms(t) : j < i)}

\* Mutant: a completion counts although the input has not been seen.
EndsUnarmed(t) == {i \in New(t) : rollout[i].kind # "user"}

\* The records that end the turn: after the arming one.
Ends(t) ==
    {i \in New(t) : rollout[i].kind # "user" /\ (armed[t] \/ \E j \in Arms(t) : j < i)}

\* publishAdapterEvent, for each of a turn's last events; the watcher and its cursor
\* are gone.
Publish(t, es) ==
    /\ events' = events \o es
    /\ wpc' = [wpc EXCEPT ![t] = "done"]
    /\ pos' = [pos EXCEPT ![t] = 0] /\ armed' = [armed EXCEPT ![t] = FALSE]

\* The events of a completion, with the answer, and of an abort.
EventsOf(t, r) ==
    LET end == [turn |-> t, kind |-> "terminal", task |-> r.task]
    IN  IF r.kind = "done" THEN <<[end EXCEPT !.kind = "output"], end>> ELSE <<end>>

\* ReadNew: all the records that were appended; the first end found is the turn's.
ReadNew(t) ==
    /\ wpc[t] = "watch" /\ New(t) # {}
    /\ IF Ends(t) = {}
       THEN /\ armed' = [armed EXCEPT ![t] = @ \/ Arms(t) # {}]
            /\ pos' = [pos EXCEPT ![t] = Len(rollout)]
            /\ UNCHANGED <<wpc, events>>
       ELSE \E i \in Ends(t) :
            /\ \A j \in Ends(t) : i <= j
            /\ Publish(t, EventsOf(t, rollout[i]))
    /\ UNCHANGED <<resumed, gateVars, sendVars, taken, sent, cliVars, faults>>

\* The rollout is missing for 10 s, or cannot be read.
WatchFails(t) ==
    /\ wpc[t] = "watch" /\ faults < MaxFaults
    /\ faults' = faults + 1
    /\ Publish(t, <<[turn |-> t, kind |-> "terminal", task |-> 0]>>)
    /\ UNCHANGED <<resumed, gateVars, sendVars, taken, sent, cliVars>>

\* An event is dropped unless its turn is in flight; a terminal ends it.
TakeEvent ==
    /\ taken = <<>> /\ events # <<>>
    /\ events' = Tail(events)
    /\ LET e == Head(events) IN
        /\ taken' = IF InFlight(e.turn) THEN <<e>> ELSE <<>>
        /\ IF e.kind = "terminal" THEN EndTurn(e.turn) ELSE UNCHANGED <<ended, asked>>
    /\ UNCHANGED <<resumed, turnID, text, fence, ipc, sendVars, watchVars, sent,
                   cliVars, faults>>

\* MsgOutput or MsgTurnCompleted.  By now the turn may be over and the next one begun.
SendTaken ==
    /\ taken # <<>>
    /\ taken' = <<>>
    /\ sent' = Append(sent, taken[1])
    /\ UNCHANGED <<resumed, gateVars, sendVars, watchVars, events, cliVars, faults>>

-----------------------------------------------------------------------------
(* Codex, and the other Codex processes.                                   *)

LogTask ==
    /\ logged < Len(tasks)
    /\ logged' = logged + 1
    /\ history' = IF sender = 0 THEN {}
                  ELSE history \union {[text |-> tasks[logged + 1].text, own |-> TRUE]}
    /\ UNCHANGED <<resumed, gateVars, sendVars, watchVars, outVars, composer, tasks, begun,
                   running, escaped, rollout, faults>>

\* Another Codex process is given the input that is being looked for.
Foreign ==
    /\ sender # 0
    /\ history' = history \union {[text |-> text[sender], own |-> FALSE]}
    /\ UNCHANGED <<resumed, gateVars, sendVars, watchVars, outVars, composer, tasks, begun,
                   running, escaped, logged, rollout, faults>>

BeginTask ==
    /\ running = 0 /\ begun < Len(tasks)
    /\ begun' = begun + 1
    /\ running' = begun + 1
    /\ rollout' = Append(rollout, [kind |-> "user", task |-> begun + 1])
    /\ UNCHANGED <<resumed, gateVars, sendVars, watchVars, outVars, composer, tasks,
                   escaped, logged, history, faults>>

EndTask(kind) ==
    /\ running # 0
    /\ rollout' = Append(rollout, [kind |-> kind, task |-> running])
    /\ running' = 0
    /\ escaped' = FALSE
    /\ UNCHANGED <<resumed, gateVars, sendVars, watchVars, outVars, composer, tasks, begun,
                   logged, history, faults>>

CompleteTask == EndTask("done")
AbortTask == escaped /\ EndTask("aborted")

-----------------------------------------------------------------------------
Sends(t) ==
    \/ SendBegin(t) \/ SendBase(t) \/ SendPaste(t) \/ SendEnter(t) \/ SendConfirm(t)
    \/ SendInterrupted(t) \/ SendReturns(t) \/ SendFails(t) \/ SendReport(t)

Interrupts(t) == InterruptCheck(t) \/ InterruptEsc(t) \/ InterruptReport(t)

Codex == LogTask \/ BeginTask \/ CompleteTask \/ AbortTask

Next ==
    \/ Input \/ Cancel
    \/ \E t \in Turn :
        \/ Sends(t) \/ SendTimeout(t) \/ WriteFails(t)
        \/ Interrupts(t) \/ InterruptFails(t)
        \/ ReadNew(t) \/ WatchFails(t)
    \/ TakeEvent \/ SendTaken
    \/ Codex \/ Foreign

Spec == Init /\ [][Next]_vars

\* The worker's goroutines go on, and Codex works: it logs and runs what was
\* submitted, and comes to the end of a task.
Fairness ==
    /\ \A t \in Turn :
        /\ WF_vars(Sends(t) \/ SendTimeout(t)) /\ WF_vars(Interrupts(t))
        /\ WF_vars(ReadNew(t))
    /\ WF_vars(TakeEvent \/ SendTaken)
    /\ WF_vars(LogTask) /\ WF_vars(BeginTask) /\ WF_vars(CompleteTask \/ AbortTask)

FairSpec == Spec /\ Fairness

-----------------------------------------------------------------------------
(* Properties.                                                             *)

\* Types; and Enter is pressed at most MaxAttempts times.
TypeOK ==
    /\ resumed \in BOOLEAN
    /\ turnID \in 0 .. MaxTurns
    /\ text \in [Turn -> Text \union {Blank}]
    /\ asked \subseteq Turn /\ ended \subseteq Turn /\ fence \in BOOLEAN
    /\ ipc \in [Turn -> {"none", "check", "esc", "report"}]
    /\ spc \in [Turn -> {"none", "begin", "base", "paste", "enter", "wait",
                         "failed", "fail", "report", "done"}]
    /\ sender \in 0 .. MaxTurns
    /\ offset \in [Turn -> Nat]
    /\ tries \in [Turn -> 0 .. MaxAttempts]
    /\ wpc \in [Turn -> {"none", "watch", "done"}]
    /\ pos \in [Turn -> Nat] /\ armed \in [Turn -> BOOLEAN]
    /\ events \in Seq(Event) /\ taken \in Seq(Event) /\ sent \in Seq(Event)
    /\ composer \subseteq Turn
    /\ tasks \in Seq(Task) /\ begun \in Nat /\ running \in Nat /\ escaped \in BOOLEAN
    /\ logged \in Nat
    /\ history \subseteq [text : Text \union {NoText}, own : BOOLEAN]
    /\ rollout \in Seq([kind : {"user", "done", "aborted"}, task : Nat])
    /\ faults \in 0 .. MaxFaults

\* A retry does not submit an input twice: it is in one task, or still in the
\* composer, or nowhere.
SubmittedOnce ==
    \A t \in Turn :
        /\ Cardinality({k \in 1 .. Len(tasks) : t \in tasks[k].turns}) <= 1
        /\ t \in composer => \A k \in 1 .. Len(tasks) : t \notin tasks[k].turns

\* A turn is confirmed only if this Codex got its text from this worker, whatever
\* the other processes that write to the same history were given.
ConfirmedHere ==
    \A t \in Turn : wpc[t] # "none" =>
        \E k \in 1 .. Len(tasks) : tasks[k].text = text[t] /\ tasks[k].turns # {}

\* An earlier turn has the same input, and the watcher may meet its records: Codex
\* had not begun it when this one was sent, or the rollout is read from its start.
Repeats(t) ==
    \E u \in 1 .. t - 1 :
        text[u] = text[t] /\ \A i \in 1 .. offset[t] : u \notin tasks[rollout[i].task].turns

\* The answer sent for a turn is one to its input, and the one to this very turn
\* unless it repeats an earlier one.
AnswersOwnInput ==
    \A i \in 1 .. Len(sent) : LET e == sent[i] IN
        e.kind = "output" =>
            /\ tasks[e.task].text = text[e.turn]
            /\ e.turn \in tasks[e.task].turns \/ Repeats(e.turn)

IsTerminal(e, t) == e.kind = "terminal" /\ e.turn = t

Terminals(t) == {i \in 1 .. Len(sent) : IsTerminal(sent[i], t)}

\* The goroutines that have ended the turn and have not sent its terminal yet.
Reporters(t) ==
    {g \in {"sender", "interrupt", "reader"} :
        \/ g = "sender" /\ spc[t] = "report"
        \/ g = "interrupt" /\ ipc[t] = "report"
        \/ g = "reader" /\ taken # <<>> /\ IsTerminal(taken[1], t)}

\* Watcher, failed submission and failed interrupt race for the end of a turn, and
\* inputs that follow come in between: a turn that has ended has one terminal, sent
\* or about to be, and one that has not has none.
EachEndReportedOnce ==
    \A t \in Turn :
        Cardinality(Terminals(t)) + Cardinality(Reporters(t)) = IF t \in ended THEN 1 ELSE 0

\* In a resumed session the input is not that of a turn that was never confirmed: it
\* may be confirmed by the late entry of that one, while its own text is still in the
\* composer.
Sound(t) == resumed => \A u \in 1 .. t - 1 : text[u] = text[t] => wpc[u] # "none"

\* The turn that Send works at comes to an end, or a cancel is asked for.
TurnEnds ==
    (turnID # 0 /\ InFlight(turnID) /\ sender = turnID /\ Sound(turnID))
        ~> (~InFlight(turnID) \/ turnID \in asked)

\* Once its watcher runs the turn in flight comes to an end, cancelled or not.
WatchedTurnEnds ==
    (turnID # 0 /\ InFlight(turnID) /\ wpc[turnID] # "none" /\ Sound(turnID))
        ~> ~InFlight(turnID)

-----------------------------------------------------------------------------
(* What the documents say, or a reader may expect, and the code does not do. *)

\* native-codex-adapter-design.md:242-245: the rollout is read from the offset before
\* the submission, so that historical records cannot close the new turn.  No answer is
\* given to two turns.
AnsweredOnce ==
    \A i, j \in 1 .. Len(sent) :
        i < j /\ sent[i].kind = "output" /\ sent[j].kind = "output"
            => sent[i].task # sent[j].task

\* dashboard-composer-turn-cancel-design.md:70-72: when Codex records that the turn
\* was aborted, the turn ends.
AbortEndsTurn ==
    \A t \in Turn :
        (\E i \in 1 .. Len(rollout) :
            rollout[i].kind = "aborted" /\ tasks[rollout[i].task].turns = {t})
        ~> t \in ended

\* Terminals come in the order of turns: one is sent after the lock of its end is
\* released, when the next turn can begin, fail and have its own sent first.
TerminalsInOrder ==
    \A i, j \in 1 .. Len(sent) :
        i < j /\ sent[i].kind = "terminal" /\ sent[j].kind = "terminal"
            => sent[i].turn < sent[j].turn

\* Nothing is sent for a turn after its terminal: the check of readAdapterEvents
\* is over when a failed interrupt ends the turn.
NothingAfterTerminal ==
    \A i, j \in 1 .. Len(sent) :
        i < j /\ sent[i].kind = "terminal" => sent[i].turn # sent[j].turn

\* Every accepted input comes to a terminal, or a cancel is asked for, blank ones too.
EveryTurnEnds == \A t \in Turn : turnID = t ~> t \in ended \/ t \in asked
=============================================================================
