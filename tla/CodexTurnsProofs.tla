--------------------------- MODULE CodexTurnsProofs ---------------------------
(***************************************************************************)
(* Proofs about a worker that runs Codex, for any number of turns, of      *)
(* presses of Enter and of faults, and any inputs: an input is submitted   *)
(* once, confirmed by an entry of its own Codex only, answered with an     *)
(* answer to it, and a turn that ends has one terminal.                    *)
(***************************************************************************)
EXTENDS CodexTurns, FiniteSetTheorems, SequenceTheorems, TLAPS

-----------------------------------------------------------------------------
(* The inductive invariant.                                                *)

\* Turns begin one after another; only turns that have begun are sent, watched
\* or ended, and only those with a text are sent and watched.
Begun ==
    /\ ended \subseteq 1 .. turnID
    /\ \A t \in Turn : spc[t] # "none" => t <= turnID
    /\ \A t \in Turn : spc[t] \notin {"none", "begin", "done"} => text[t] # Blank
    /\ \A t \in Turn : wpc[t] # "none" => spc[t] = "done" /\ text[t] # Blank
    /\ sender # 0 => spc[sender] \in {"base", "paste", "enter", "wait", "failed"}

\* Nothing of the turn has been written to Codex.
Early(t) == spc[t] \in {"none", "begin", "base", "paste"}

\* Who is about to press Enter has done so less than MaxAttempts times.
Pressed ==
    \A t \in Turn :
        /\ Early(t) => tries[t] = 0
        /\ spc[t] = "enter" => tries[t] < MaxAttempts

\* Where a text is: an input is in the composer, or in one task, or nowhere.
Placed ==
    /\ \A t \in Turn : Early(t) => t \notin composer
    /\ \A t \in composer : text[t] # Blank
    /\ \A k \in 1 .. Len(tasks) : \A t \in tasks[k].turns : ~Early(t) /\ t \notin composer
    /\ \A j, k \in 1 .. Len(tasks) : tasks[j].turns \cap tasks[k].turns # {} => j = k

\* A task has no turn only if it is the one of the session that was resumed; its
\* text is the one of its turn, or that of no input.
Submitted ==
    \A k \in 1 .. Len(tasks) :
        /\ tasks[k].turns = {} => k = 1 /\ resumed
        /\ tasks[k].text # NoText /\ tasks[k].turns # {} =>
            \E u \in Turn : tasks[k].turns = {u} /\ tasks[k].text = text[u]

\* A resumed session has a task that was run and logged before.
Resumed == resumed => tasks # <<>> /\ logged >= 1 /\ rollout # <<>>

\* An entry of this Codex is one of a task that came from this worker.
OwnEntries ==
    \A e \in history : e.own =>
        \E k \in 1 .. Len(tasks) : tasks[k].turns # {} /\ tasks[k].text = e.text

IsUser(i) == rollout[i].kind = "user"

\* The rollout is made of pairs: the user record of a task and its end, in the order
\* of the tasks.  The end is missing while the task runs, or when the session was cut
\* off before it was resumed.
Paired ==
    /\ begun <= Len(tasks) /\ running \in {0, begun}
    /\ \A i \in 1 .. Len(rollout) : rollout[i].task \in 1 .. begun
    /\ \A i \in 1 .. Len(rollout) :
        ~IsUser(i) => i > 1 /\ IsUser(i - 1) /\ rollout[i - 1].task = rollout[i].task
    /\ \A i \in 2 .. Len(rollout) : IsUser(i) /\ IsUser(i - 1) => i = 2 /\ resumed
    /\ \A i, j \in 1 .. Len(rollout) : i < j /\ IsUser(j) => rollout[i].task < rollout[j].task

\* The last record is the user record of the task that runs, and otherwise an end.
Last ==
    /\ running # 0 => /\ rollout # <<>>
                      /\ rollout[Len(rollout)] = [kind |-> "user", task |-> running]
    /\ running = 0 /\ rollout # <<>> /\ IsUser(Len(rollout)) => Len(rollout) = 1 /\ resumed

\* A turn looks at the records after its offset, where the old ones of a resumed
\* session are not.  A watcher that is armed has just read the user record with its
\* text.
Watching ==
    \A t \in Turn :
        /\ spc[t] \notin {"none", "begin", "done"} \/ wpc[t] # "none" =>
            offset[t] <= Len(rollout) /\ (resumed => offset[t] >= 1)
        /\ wpc[t] = "watch" => offset[t] <= pos[t] /\ pos[t] <= Len(rollout)
        /\ armed[t] => /\ wpc[t] = "watch" /\ offset[t] < pos[t]
                       /\ IsUser(pos[t])
                       /\ tasks[rollout[pos[t]].task].text = text[t]

\* Task k, of turn u, is an answer to turn t: it has the text of t, and when it is of
\* another turn then its record is none of those that the watcher of t leaves out.
Answer(t, k, u) ==
    /\ tasks[k].turns = {u}
    /\ tasks[k].text = text[t] /\ text[u] = text[t]
    /\ u = t \/ \A i \in 1 .. offset[t] : u \notin tasks[rollout[i].task].turns

\* An output gives an answer.
Answers(e) ==
    /\ wpc[e.turn] = "done"
    /\ e.task \in 1 .. Len(tasks)
    /\ \E u \in Turn : Answer(e.turn, e.task, u)

\* The answer is not that of a later turn.
InTime(e) == \A u \in tasks[e.task].turns : u <= e.turn

Published == \A e \in Range(events) : e.kind = "output" => Answers(e)

Passed == \A e \in Range(taken) : e.kind = "output" => Answers(e) /\ InTime(e)

Answered == \A e \in Range(sent) : e.kind = "output" => Answers(e) /\ InTime(e)

\* A turn that has ended has one terminal, sent or not yet; one that has not has none.
OneReport(t) ==
    /\ t \notin ended => Terminals(t) = {} /\ Reporters(t) = {}
    /\ t \in ended =>
        \/ Terminals(t) = {} /\ \E g : Reporters(t) = {g}
        \/ Reporters(t) = {} /\ \E i : Terminals(t) = {i}

EndsReported == \A t \in Turn : OneReport(t)

IInv ==
    /\ TypeOK /\ Begun /\ Pressed
    /\ Placed /\ Submitted /\ Resumed /\ OwnEntries /\ ConfirmedHere
    /\ Paired /\ Last /\ Watching
    /\ Published /\ Passed /\ Answered
    /\ EndsReported

-----------------------------------------------------------------------------
(* The parts of TypeOK.                                                    *)

Pc == {"none", "begin", "base", "paste", "enter", "wait", "failed", "fail", "report",
       "done"}
Record == [kind : {"user", "done", "aborted"}, task : Nat]
Entry == [text : Text \union {NoText}, own : BOOLEAN]

GateTypes ==
    /\ turnID \in 0 .. MaxTurns /\ text \in [Turn -> Text \union {Blank}]
    /\ asked \subseteq Turn /\ ended \subseteq Turn /\ fence \in BOOLEAN
    /\ ipc \in [Turn -> {"none", "check", "esc", "report"}]
SendTypes ==
    /\ spc \in [Turn -> Pc] /\ sender \in 0 .. MaxTurns
    /\ offset \in [Turn -> Nat] /\ tries \in [Turn -> 0 .. MaxAttempts]
WatchTypes ==
    /\ wpc \in [Turn -> {"none", "watch", "done"}]
    /\ pos \in [Turn -> Nat] /\ armed \in [Turn -> BOOLEAN]
OutTypes == events \in Seq(Event) /\ taken \in Seq(Event) /\ sent \in Seq(Event)
TaskTypes ==
    /\ composer \subseteq Turn /\ tasks \in Seq(Task)
    /\ logged \in Nat /\ history \subseteq Entry
RolloutTypes ==
    /\ begun \in Nat /\ running \in Nat /\ escaped \in BOOLEAN
    /\ rollout \in Seq(Record)

\* They make it up.
LEMMA TypeParts ==
    TypeOK <=> /\ resumed \in BOOLEAN /\ faults \in 0 .. MaxFaults
               /\ GateTypes /\ SendTypes /\ WatchTypes
               /\ OutTypes /\ TaskTypes /\ RolloutTypes
  BY DEF TypeOK, GateTypes, SendTypes, WatchTypes, OutTypes, TaskTypes, RolloutTypes,
         Pc, Record, Entry

-----------------------------------------------------------------------------
(* What the actions change.                                                *)

\* The steps that end a turn.
EndSteps == TakeEvent \/ \E t \in Turn : InterruptFails(t) \/ SendFails(t)

\* Which actions change what.
Moves ==
    /\ resumed' = resumed
    /\ UNCHANGED <<turnID, text>> \/ Input
    /\ UNCHANGED asked \/ Cancel \/ EndSteps
    /\ UNCHANGED <<fence, ipc>> \/ Cancel
        \/ \E t \in Turn : Interrupts(t) \/ InterruptFails(t)
    /\ UNCHANGED sendVars \/ Input
        \/ \E t \in Turn : Sends(t) \/ SendTimeout(t) \/ WriteFails(t)
    /\ UNCHANGED watchVars \/ \E t \in Turn : SendConfirm(t) \/ ReadNew(t) \/ WatchFails(t)
    /\ UNCHANGED events \/ TakeEvent \/ \E t \in Turn : ReadNew(t) \/ WatchFails(t)
    /\ UNCHANGED taken \/ TakeEvent \/ SendTaken
    /\ UNCHANGED ended \/ EndSteps
    /\ UNCHANGED sent \/ SendTaken \/ \E t \in Turn : InterruptReport(t) \/ SendReport(t)
    /\ UNCHANGED <<composer, tasks>> \/ \E t \in Turn : SendPaste(t) \/ SendEnter(t)
    /\ UNCHANGED <<begun, running, rollout>> \/ BeginTask \/ CompleteTask \/ AbortTask
    /\ UNCHANGED logged \/ LogTask
    /\ UNCHANGED history \/ LogTask \/ Foreign
        \/ \E t \in Turn : SendBase(t) \/ SendConfirm(t) \/ SendReturns(t)
    /\ UNCHANGED escaped \/ CompleteTask \/ AbortTask \/ \E t \in Turn : InterruptEsc(t)
    /\ UNCHANGED faults
        \/ \E t \in Turn : InterruptFails(t) \/ WriteFails(t) \/ WatchFails(t)

\* The actions between them are all there are.
LEMMA OtherMoves == [Next]_vars => Moves
<1> SUFFICES ASSUME [Next]_vars PROVE Moves
  OBVIOUS
<1> USE DEF gateVars, sendVars, watchVars, outVars, cliVars, EndSteps
<1>1. CASE UNCHANGED vars
  BY <1>1 DEF Moves, vars
<1>2. CASE Input
  BY <1>2 DEF Moves, Input
<1>3. CASE Cancel
  BY <1>3 DEF Moves, Cancel
<1>4. ASSUME NEW t \in Turn, SendBegin(t) PROVE Moves
  <2>1. Sends(t)
    BY <1>4 DEF Sends
  <2> QED
    BY <1>4, <2>1 DEF Moves, SendBegin
<1>5. ASSUME NEW t \in Turn, SendBase(t) PROVE Moves
  <2>1. Sends(t)
    BY <1>5 DEF Sends
  <2> QED
    BY <1>5, <2>1 DEF Moves, SendBase
<1>6. ASSUME NEW t \in Turn, SendPaste(t) PROVE Moves
  <2>1. Sends(t)
    BY <1>6 DEF Sends
  <2> QED
    BY <1>6, <2>1 DEF Moves, SendPaste
<1>7. ASSUME NEW t \in Turn, SendEnter(t) PROVE Moves
  <2>1. Sends(t)
    BY <1>7 DEF Sends
  <2> QED
    BY <1>7, <2>1 DEF Moves, SendEnter
<1>8. ASSUME NEW t \in Turn, SendConfirm(t) PROVE Moves
  <2>1. Sends(t)
    BY <1>8 DEF Sends
  <2> QED
    BY <1>8, <2>1 DEF Moves, SendConfirm
<1>9. ASSUME NEW t \in Turn, SendInterrupted(t) PROVE Moves
  <2>1. Sends(t)
    BY <1>9 DEF Sends
  <2> QED
    BY <1>9, <2>1 DEF Moves, SendInterrupted
<1>10. ASSUME NEW t \in Turn, SendReturns(t) PROVE Moves
  <2>1. Sends(t)
    BY <1>10 DEF Sends
  <2> QED
    BY <1>10, <2>1 DEF Moves, SendReturns
<1>11. ASSUME NEW t \in Turn, SendFails(t) PROVE Moves
  <2>1. Sends(t)
    BY <1>11 DEF Sends
  <2> QED
    BY <1>11, <2>1 DEF Moves, SendFails
<1>12. ASSUME NEW t \in Turn, SendTimeout(t) PROVE Moves
  BY <1>12 DEF Moves, SendTimeout
<1>13. ASSUME NEW t \in Turn, WriteFails(t) PROVE Moves
  BY <1>13 DEF Moves, WriteFails
<1>14. ASSUME NEW t \in Turn, InterruptCheck(t) PROVE Moves
  <2>1. Interrupts(t)
    BY <1>14 DEF Interrupts
  <2> QED
    BY <1>14, <2>1 DEF Moves, InterruptCheck
<1>15. ASSUME NEW t \in Turn, InterruptEsc(t) PROVE Moves
  <2>1. Interrupts(t)
    BY <1>15 DEF Interrupts
  <2> QED
    BY <1>15, <2>1 DEF Moves, InterruptEsc
<1>16. ASSUME NEW t \in Turn, InterruptFails(t) PROVE Moves
  BY <1>16 DEF Moves, InterruptFails
<1>17. ASSUME NEW t \in Turn, ReadNew(t) PROVE Moves
  BY <1>17 DEF Moves, ReadNew
<1>18. ASSUME NEW t \in Turn, WatchFails(t) PROVE Moves
  BY <1>18 DEF Moves, WatchFails
<1>19. CASE TakeEvent
  BY <1>19 DEF Moves, TakeEvent
<1>20. CASE SendTaken
  BY <1>20 DEF Moves, SendTaken
<1>21. CASE LogTask
  BY <1>21 DEF Moves, LogTask
<1>22. CASE BeginTask
  BY <1>22 DEF Moves, BeginTask
<1>23. CASE CompleteTask
  BY <1>23 DEF Moves, CompleteTask, EndTask
<1>24. CASE AbortTask
  BY <1>24 DEF Moves, AbortTask, EndTask
<1>25. CASE Foreign
  BY <1>25 DEF Moves, Foreign
<1>26. ASSUME NEW t \in Turn, SendReport(t) PROVE Moves
  <2>1. Sends(t)
    BY <1>26 DEF Sends
  <2> QED
    BY <1>26, <2>1 DEF Moves, SendReport
<1>27. ASSUME NEW t \in Turn, InterruptReport(t) PROVE Moves
  <2>1. Interrupts(t)
    BY <1>27 DEF Interrupts
  <2> QED
    BY <1>27, <2>1 DEF Moves, InterruptReport
<1> QED
  BY <1>1, <1>2, <1>3, <1>4, <1>5, <1>6, <1>7, <1>8, <1>9, <1>10, <1>11, <1>12, <1>13,
     <1>14, <1>15, <1>16, <1>17, <1>18, <1>19, <1>20, <1>21, <1>22, <1>23, <1>24, <1>25,
     <1>26, <1>27
  DEF Next, Sends, Interrupts, Codex

\* The event that is taken is one, and so is the one that is sent.
LEMMA TakenTypes ==
    ASSUME TypeOK
    PROVE  /\ TakeEvent => /\ Head(events) \in Event /\ Head(events).turn \in Turn
                           /\ events \in Seq(Event) /\ events # <<>>
           /\ SendTaken => taken[1] \in Event /\ taken \in Seq(Event) /\ taken # <<>>
<1>1. events \in Seq(Event) /\ taken \in Seq(Event)
  BY TypeParts DEF OutTypes
<1>2. ASSUME NEW q \in Seq(Event), q # <<>> PROVE Head(q) \in Event /\ q[1] \in Event
  BY <1>2
<1>3. \A e \in Event : e.turn \in Turn
  BY DEF Event
<1> QED
  BY <1>1, <1>2, <1>3 DEF TakeEvent, SendTaken

\* Only the turn in flight ends.
LEMMA EndsInFlight ==
    TypeOK /\ [Next]_vars =>
        ended' = ended \/ \E t \in Turn : InFlight(t) /\ ended' = ended \union {t}
<1> SUFFICES ASSUME TypeOK, [Next]_vars
             PROVE  ended' = ended \/ \E t \in Turn : InFlight(t) /\ ended' = ended \union {t}
  OBVIOUS
<1>1. ASSUME NEW t \in Turn, EndTurn(t)
      PROVE  ended' = ended \/ \E u \in Turn : InFlight(u) /\ ended' = ended \union {u}
  BY <1>1 DEF EndTurn
<1>2. CASE \E t \in Turn : InterruptFails(t) \/ SendFails(t)
  BY <1>1, <1>2 DEF InterruptFails, SendFails
<1>3. CASE TakeEvent
  BY <1>1, <1>3, TakenTypes DEF TakeEvent
<1> QED
  BY <1>2, <1>3, OtherMoves DEF Moves, EndSteps

\* Sent are the event that was taken and the terminals of failed turns.
LEMMA SentSteps ==
    [Next]_vars => UNCHANGED sent \/ SendTaken \/ \E t \in Turn : SendTerminal(t)
  BY OtherMoves DEF Moves, InterruptReport, SendReport

\* What the steps of Send do to the program counter of a turn: it does not come back
\* to where nothing is written, nor before its offset is taken, and goes to work only
\* with a text.  It is about to send a terminal from its failure to the report.
SendGoesOn(t) ==
    /\ Early(t)' => Early(t)
    /\ spc'[t] # "none" => spc[t] # "none" \/ t = turnID'
    /\ spc[t] \notin {"none", "begin"} => spc'[t] \notin {"none", "begin"} /\ offset'[t] = offset[t]
    /\ spc[t] = "done" => spc'[t] = "done"
    /\ spc[t] # "report" /\ spc'[t] = "report" => SendFails(t) /\ InFlight(t)
    /\ spc[t] = "report" /\ spc'[t] # "report" => SendReport(t)
    /\ spc[t] \in {"none", "begin"} /\ spc'[t] \notin {"none", "begin", "done"} =>
        t = turnID /\ text[t] # Blank /\ offset'[t] = RolloutOffset

\* Every action does so.
LEMMA SendsGoOn ==
    ASSUME TypeOK, Begun, [Next]_vars, NEW t \in Turn PROVE SendGoesOn(t)
<1> USE DEF SendGoesOn, Early
<1>1. /\ spc \in [Turn -> {"none", "begin", "base", "paste", "enter", "wait",
                           "failed", "fail", "report", "done"}]
      /\ offset \in [Turn -> Nat] /\ turnID \in 0 .. MaxTurns
      /\ \A u \in Turn : spc[u] # "none" => u <= turnID
  BY DEF TypeOK, Begun
<1>2. UNCHANGED sendVars \/ Input
        \/ \E u \in Turn : Sends(u) \/ SendTimeout(u) \/ WriteFails(u)
  BY OtherMoves DEF Moves
<1>3. CASE UNCHANGED sendVars
  BY <1>1, <1>3 DEF sendVars
<1>4. CASE Input
  <2>1. turnID + 1 \in Turn
    BY <1>1, <1>4, BoundAssumption DEF Input, Turn
  <2>2. spc[turnID + 1] = "none"
    BY <1>1, <2>1
  <2> QED
    BY <1>1, <1>4, <2>1, <2>2 DEF Input
<1>5. ASSUME NEW u \in Turn, Sends(u) PROVE SendGoesOn(t)
  <2>1. CASE SendBegin(u)
    BY <1>1, <2>1 DEF SendBegin, Step, InFlight
  <2>2. CASE SendBase(u) \/ SendPaste(u) \/ SendEnter(u)
    BY <1>1, <2>2 DEF SendBase, SendPaste, SendEnter, Step
  <2>3. CASE SendConfirm(u) \/ SendInterrupted(u) \/ SendReturns(u)
    BY <1>1, <2>3 DEF SendConfirm, SendInterrupted, SendReturns, Step
  <2>4. CASE SendFails(u)
    <3>1. CASE u = t
      BY <1>1, <2>4, <3>1 DEF SendFails, Step
    <3>2. CASE u # t
      BY <1>1, <2>4, <3>2 DEF SendFails, Step
    <3> QED
      BY <3>1, <3>2
  <2>5. CASE SendReport(u)
    <3>1. CASE u = t
      BY <1>1, <2>5, <3>1 DEF SendReport, Step
    <3>2. CASE u # t
      BY <1>1, <2>5, <3>2 DEF SendReport, Step
    <3> QED
      BY <3>1, <3>2
  <2> QED
    BY <1>5, <2>1, <2>2, <2>3, <2>4, <2>5 DEF Sends
<1>6. ASSUME NEW u \in Turn, SendTimeout(u) \/ WriteFails(u) PROVE SendGoesOn(t)
  BY <1>1, <1>6 DEF SendTimeout, WriteFails, Step, Retry
<1> QED
  BY <1>2, <1>3, <1>4, <1>5, <1>6

-----------------------------------------------------------------------------
(* Types.                                                                  *)

\* What a watcher publishes are events.
LEMMA EventsOfTypes ==
    ASSUME NEW t \in Turn, NEW r \in Record PROVE EventsOf(t, r) \in Seq(Event)
<1>1. r.task \in Nat
  BY DEF Record
<1> DEFINE end == [turn |-> t, kind |-> "terminal", task |-> r.task]
<1>2. end \in Event /\ [end EXCEPT !.kind = "output"] \in Event
  BY <1>1 DEF Event
<1> HIDE DEF end
<1>3. <<end>> \in Seq(Event) /\ <<[end EXCEPT !.kind = "output"], end>> \in Seq(Event)
  BY <1>2
<1> QED
  BY <1>3 DEF EventsOf, end

\* The first state has the types.
LEMMA InitTypes == Init => TypeOK
<1> SUFFICES ASSUME Init PROVE TypeOK
  OBVIOUS
<1>1. resumed \in BOOLEAN /\ faults \in 0 .. MaxFaults
  BY BoundAssumption DEF Init
<1>2. GateTypes /\ SendTypes
  <2>1. /\ turnID = 0 /\ text = [t \in Turn |-> Blank]
        /\ asked = {} /\ ended = {} /\ fence = FALSE
        /\ ipc = [t \in Turn |-> "none"] /\ spc = [t \in Turn |-> "none"]
        /\ sender = 0 /\ offset = [t \in Turn |-> 0] /\ tries = [t \in Turn |-> 0]
    BY DEF Init
  <2>2. 0 \in 0 .. MaxTurns /\ 0 \in 0 .. MaxAttempts
    BY BoundAssumption
  <2>3. GateTypes
    BY <2>1, <2>2 DEF GateTypes
  <2>4. SendTypes
    BY <2>1, <2>2 DEF SendTypes, Pc
  <2> QED
    BY <2>3, <2>4
<1>3. WatchTypes /\ OutTypes
  BY DEF Init, WatchTypes, OutTypes
<1>4. TaskTypes
  <2>1. CASE resumed
    <3>1. [text |-> CHOOSE x \in Text : TRUE, turns |-> {}] \in Task
      BY TextAssumption DEF Task
    <3>2. <<[text |-> CHOOSE x \in Text : TRUE, turns |-> {}]>> \in Seq(Task)
      BY <3>1
    <3>3. /\ composer = {} /\ history = {} /\ logged = 1
          /\ tasks = <<[text |-> CHOOSE x \in Text : TRUE, turns |-> {}]>>
      BY <2>1 DEF Init
    <3> QED
      BY <3>2, <3>3 DEF TaskTypes
  <2>2. CASE ~resumed
    <3>1. composer = {} /\ history = {} /\ logged = 0 /\ tasks = <<>>
      BY <2>2 DEF Init
    <3> QED
      BY <3>1 DEF TaskTypes
  <2> QED
    BY <2>1, <2>2
<1>5. RolloutTypes
  <2>1. begun \in Nat /\ running \in Nat
    <3>1. begun \in {0, 1} /\ running = 0
      BY DEF Init
    <3> QED
      BY <3>1
  <2>3. escaped \in BOOLEAN
    <3>1. escaped = FALSE
      BY DEF Init
    <3> QED
      BY <3>1
  <2>2. rollout \in Seq(Record)
    <3> DEFINE user == <<[kind |-> "user", task |-> 1]>>
               done == <<[kind |-> "done", task |-> 1]>>
    <3>1. user \in Seq(Record) /\ done \in Seq(Record) /\ <<>> \in Seq(Record)
      BY DEF Record
    <3>3. rollout = <<>> \/ \E cut \in BOOLEAN : rollout = user \o IF cut THEN <<>> ELSE done
      BY DEF Init
    <3> HIDE DEF user, done
    <3>4. ASSUME NEW cut \in BOOLEAN, rollout = user \o IF cut THEN <<>> ELSE done
          PROVE  rollout \in Seq(Record)
      <4>1. (IF cut THEN <<>> ELSE done) \in Seq(Record)
        BY <3>1
      <4> HIDE DEF Record
      <4> QED
        BY <3>1, <3>4, <4>1, ConcatProperties, Zenon
    <3> QED
      BY <3>1, <3>3, <3>4
  <2> QED
    BY <2>1, <2>2, <2>3 DEF RolloutTypes
<1> QED
  BY <1>1, <1>2, <1>3, <1>4, <1>5, TypeParts

\* Every step keeps them.
LEMMA NextTypes ==
    TypeOK /\ Begun /\ Pressed /\ Placed /\ [Next]_vars => TypeOK' /\ Pressed'
<1> SUFFICES ASSUME TypeOK, Begun, Pressed, Placed, [Next]_vars PROVE TypeOK' /\ Pressed'
  OBVIOUS
<1>0. /\ Moves
      /\ resumed \in BOOLEAN /\ faults \in 0 .. MaxFaults
      /\ GateTypes /\ SendTypes /\ WatchTypes /\ OutTypes /\ TaskTypes /\ RolloutTypes
  BY OtherMoves, TypeParts
<1>1. GateTypes'
  <2>1. (turnID \in 0 .. MaxTurns /\ text \in [Turn -> Text \union {Blank}])'
    <3>1. UNCHANGED <<turnID, text>> \/ Input
      BY <1>0 DEF Moves
    <3> QED
      BY <1>0, <3>1, BoundAssumption DEF Input, GateTypes, Turn
  <2>2. (fence \in BOOLEAN /\ ipc \in [Turn -> {"none", "check", "esc", "report"}])'
    <3>1. \/ UNCHANGED <<fence, ipc>> \/ Cancel
          \/ \E t \in Turn : Interrupts(t) \/ InterruptFails(t)
      BY <1>0 DEF Moves
    <3>2. CASE Cancel
      BY <1>0, <3>2 DEF Cancel, GateTypes
    <3>3. ASSUME NEW t \in Turn, Interrupts(t) \/ InterruptFails(t)
          PROVE  (fence \in BOOLEAN /\ ipc \in [Turn -> {"none", "check", "esc", "report"}])'
      BY <1>0, <3>3 DEF Interrupts, InterruptCheck, InterruptEsc, InterruptReport,
                        InterruptFails, InterruptFinish, GateTypes
    <3> QED
      BY <1>0, <3>1, <3>2, <3>3 DEF GateTypes
  <2>3. (ended \subseteq Turn)'
    BY <1>0, EndsInFlight DEF GateTypes
  <2>4. (asked \subseteq Turn)'
    <3>1. CASE Cancel
      <4>1. turnID \in Turn
        BY <1>0, <3>1, BoundAssumption DEF Cancel, InFlight, GateTypes, Turn
      <4> QED
        BY <1>0, <3>1, <4>1 DEF Cancel, GateTypes
    <3>2. CASE EndSteps
      BY <1>0, <3>2 DEF EndSteps, TakeEvent, InterruptFails, SendFails, EndTurn, GateTypes
    <3> QED
      BY <1>0, <3>1, <3>2 DEF Moves, GateTypes
  <2> QED
    BY <2>1, <2>2, <2>3, <2>4 DEF GateTypes
<1>2. SendTypes' /\ Pressed'
  <2>1. /\ SendTypes /\ Pressed
        /\ Len(rollout) \in Nat
        /\ MaxAttempts \in Nat \ {0} /\ MaxTurns \in Nat
    BY <1>0, BoundAssumption DEF RolloutTypes
  <2>2. CASE UNCHANGED sendVars
    BY <2>1, <2>2 DEF sendVars, Pressed, Early, SendTypes
  <2>3. CASE Input
    <3>1. turnID + 1 \in Turn /\ spc[turnID + 1] = "none"
      BY <1>0, <2>3, BoundAssumption DEF Input, GateTypes, Begun, Turn
    <3> QED
      BY <2>1, <2>3, <3>1 DEF Input, Pressed, Early, SendTypes, Pc
  <2>4. ASSUME NEW t \in Turn, Sends(t) PROVE SendTypes' /\ Pressed'
    <3> USE DEF SendTypes, Pc, Pressed, Early
    <3>1. CASE SendBegin(t)
      <4>1. t \in 0 .. MaxTurns /\ RolloutOffset \in Nat
        BY <2>1 DEF Turn, RolloutOffset
      <4>2. CASE ~InFlight(t) \/ text[t] = Blank
        BY <2>1, <3>1, <4>2 DEF SendBegin, Step
      <4>3. CASE ~(~InFlight(t) \/ text[t] = Blank)
        <5>1. /\ spc[t] = "begin" /\ spc' = [spc EXCEPT ![t] = "base"] /\ sender' = t
              /\ offset' = [offset EXCEPT ![t] = RolloutOffset] /\ tries' = tries
          BY <3>1, <4>3 DEF SendBegin, Step
        <5> QED
          BY <2>1, <4>1, <5>1
      <4> QED
        BY <4>2, <4>3
    <3>2. CASE SendBase(t)
      BY <2>1, <3>2 DEF SendBase, Step
    <3>3. CASE SendPaste(t)
      <4>1. /\ spc[t] = "paste" /\ UNCHANGED <<sender, offset, tries>>
            /\ \E to \in {"failed", "enter"} : spc' = [spc EXCEPT ![t] = to]
        BY <3>3 DEF SendPaste, Step
      <4>2. tries[t] = 0
        BY <2>1, <4>1
      <4> QED
        BY <2>1, <4>1, <4>2
    <3>4. CASE SendEnter(t)
      <4>1. CASE Cancelled(t)
        BY <2>1, <3>4, <4>1 DEF SendEnter, Step
      <4>2. CASE ~Cancelled(t)
        <5>1. /\ spc[t] = "enter" /\ spc' = [spc EXCEPT ![t] = "wait"]
              /\ tries' = [tries EXCEPT ![t] = tries[t] + 1] /\ UNCHANGED <<sender, offset>>
          BY <3>4, <4>2 DEF SendEnter, Step
        <5>2. tries[t] + 1 \in 0 .. MaxAttempts
          BY <2>1, <5>1
        <5> QED
          BY <2>1, <5>1, <5>2
      <4> QED
        BY <4>1, <4>2
    <3>5. CASE SendConfirm(t)
      BY <2>1, <3>5 DEF SendConfirm, Return, Step
    <3>6. CASE SendInterrupted(t)
      BY <2>1, <3>6 DEF SendInterrupted, Step
    <3>7. CASE SendReturns(t)
      BY <2>1, <3>7 DEF SendReturns, Return, Step
    <3>8. CASE SendFails(t)
      BY <2>1, <3>8 DEF SendFails, Step
    <3>9. CASE SendReport(t)
      BY <2>1, <3>9 DEF SendReport, Step
    <3> QED
      BY <2>4, <3>1, <3>2, <3>3, <3>4, <3>5, <3>6, <3>7, <3>8, <3>9 DEF Sends
  <2>5. ASSUME NEW t \in Turn, SendTimeout(t) PROVE SendTypes' /\ Pressed'
    BY <2>1, <2>5 DEF SendTimeout, Retry, Step, SendTypes, Pc, Pressed, Early
  <2>6. ASSUME NEW t \in Turn, WriteFails(t) PROVE SendTypes' /\ Pressed'
    BY <2>1, <2>6 DEF WriteFails, Step, SendTypes, Pc, Pressed, Early
  <2>7. UNCHANGED sendVars \/ Input
          \/ \E t \in Turn : Sends(t) \/ SendTimeout(t) \/ WriteFails(t)
    BY <1>0 DEF Moves
  <2> QED
    BY <2>2, <2>3, <2>4, <2>5, <2>6, <2>7
<1>3. WatchTypes'
  <2>1. CASE UNCHANGED watchVars
    BY <1>0, <2>1 DEF watchVars, WatchTypes
  <2>2. ASSUME NEW t \in Turn, SendConfirm(t) PROVE WatchTypes'
    BY <1>0, <2>2 DEF SendConfirm, WatchTypes, SendTypes
  <2>3. ASSUME NEW t \in Turn, ReadNew(t) PROVE WatchTypes'
    <3>1. Len(rollout) \in Nat
      BY <1>0 DEF RolloutTypes
    <3>2. CASE Ends(t) = {}
      <4>1. /\ wpc' = wpc /\ pos' = [pos EXCEPT ![t] = Len(rollout)]
            /\ armed' = [armed EXCEPT ![t] = armed[t] \/ Arms(t) # {}]
        BY <2>3, <3>2 DEF ReadNew
      <4>2. (armed[t] \/ Arms(t) # {}) \in BOOLEAN
        BY <1>0 DEF WatchTypes
      <4> QED
        BY <1>0, <3>1, <4>1, <4>2 DEF WatchTypes
    <3>3. CASE Ends(t) # {}
      <4>1. /\ wpc' = [wpc EXCEPT ![t] = "done"] /\ pos' = [pos EXCEPT ![t] = 0]
            /\ armed' = [armed EXCEPT ![t] = FALSE]
        BY <2>3, <3>3 DEF ReadNew, Publish
      <4> QED
        BY <1>0, <4>1 DEF WatchTypes
    <3> QED
      BY <3>2, <3>3
  <2>4. ASSUME NEW t \in Turn, WatchFails(t) PROVE WatchTypes'
    BY <1>0, <2>4 DEF WatchFails, Publish, WatchTypes
  <2>5. UNCHANGED watchVars \/ \E t \in Turn : SendConfirm(t) \/ ReadNew(t) \/ WatchFails(t)
    BY <1>0 DEF Moves
  <2> QED
    BY <2>1, <2>2, <2>3, <2>4, <2>5
<1>4. OutTypes'
  <2>1. (events \in Seq(Event))'
    <3>1. ASSUME NEW t \in Turn, ReadNew(t) PROVE events' \in Seq(Event)
      <4>1. ASSUME NEW i \in Ends(t) PROVE EventsOf(t, rollout[i]) \in Seq(Event)
        <5>1. pos[t] \in Nat /\ rollout \in Seq(Record)
          BY <1>0 DEF WatchTypes, RolloutTypes
        <5>2. i \in 1 .. Len(rollout)
          BY <5>1 DEF Ends, New
        <5>3. rollout[i] \in Record
          BY <5>1, <5>2
        <5> QED
          BY <5>3, EventsOfTypes
      <4>2. events' = events \/ \E i \in Ends(t) : events' = events \o EventsOf(t, rollout[i])
        BY <3>1 DEF ReadNew, Publish
      <4>3. events \in Seq(Event)
        BY <1>0 DEF OutTypes
      <4>4. CASE events' = events
        BY <4>3, <4>4
      <4>5. ASSUME NEW i \in Ends(t), events' = events \o EventsOf(t, rollout[i])
            PROVE  events' \in Seq(Event)
        <5>1. EventsOf(t, rollout[i]) \in Seq(Event)
          BY <4>1
        <5> QED
          BY <4>3, <4>5, <5>1, ConcatProperties, Zenon
      <4> QED
        BY <4>2, <4>4, <4>5
    <3>2. ASSUME NEW t \in Turn, WatchFails(t) PROVE events' \in Seq(Event)
      <4>1. <<[turn |-> t, kind |-> "terminal", task |-> 0]>> \in Seq(Event)
        BY DEF Event
      <4> QED
        BY <1>0, <3>2, <4>1 DEF WatchFails, Publish, OutTypes
    <3>3. CASE TakeEvent
      BY <1>0, <3>3 DEF TakeEvent, OutTypes
    <3>4. UNCHANGED events \/ TakeEvent \/ \E t \in Turn : ReadNew(t) \/ WatchFails(t)
      BY <1>0 DEF Moves
    <3> QED
      BY <1>0, <3>1, <3>2, <3>3, <3>4 DEF OutTypes
  <2>2. (taken \in Seq(Event))'
    <3>1. UNCHANGED taken \/ TakeEvent \/ SendTaken
      BY <1>0 DEF Moves
    <3>2. CASE TakeEvent
      <4>1. Head(events) \in Event /\ taken = <<>>
        BY <1>0, <3>2 DEF TakeEvent, OutTypes
      <4>2. <<Head(events)>> \in Seq(Event) /\ <<>> \in Seq(Event)
        BY <4>1
      <4>3. taken' = <<Head(events)>> \/ taken' = <<>>
        BY <3>2, <4>1 DEF TakeEvent
      <4> QED
        BY <4>2, <4>3
    <3>3. CASE SendTaken
      BY <3>3 DEF SendTaken
    <3> QED
      BY <1>0, <3>1, <3>2, <3>3 DEF OutTypes
  <2>3. (sent \in Seq(Event))'
    <3>1. CASE SendTaken
      BY <1>0, <3>1, TakenTypes DEF SendTaken, OutTypes
    <3>2. ASSUME NEW t \in Turn, SendTerminal(t) PROVE (sent \in Seq(Event))'
      <4>1. [kind |-> "terminal", turn |-> t, task |-> 0] \in Event
        BY DEF Event
      <4> QED
        BY <1>0, <3>2, <4>1 DEF SendTerminal, OutTypes
    <3> QED
      BY <1>0, SentSteps, <3>1, <3>2 DEF OutTypes
  <2> QED
    BY <2>1, <2>2, <2>3 DEF OutTypes
<1>5. TaskTypes'
  <2>1. (composer \subseteq Turn /\ tasks \in Seq(Task))'
    <3>1. ASSUME NEW t \in Turn, SendEnter(t)
          PROVE  (composer \subseteq Turn /\ tasks \in Seq(Task))'
      <4>1. ASSUME Cardinality(composer) = 1
            PROVE  text[CHOOSE u \in composer : TRUE] \in Text
        <5>1. composer # {}
          BY <4>1, FS_EmptySet
        <5>2. (CHOOSE u \in composer : TRUE) \in composer
          BY <5>1
        <5> QED
          BY <1>0, <5>2 DEF GateTypes, TaskTypes, Placed
      <4>2. [text |-> IF Cardinality(composer) = 1
                      THEN text[CHOOSE u \in composer : TRUE] ELSE NoText,
             turns |-> composer] \in Task
        BY <1>0, <4>1 DEF Task, TaskTypes
      <4>3. Append(tasks, [text |-> IF Cardinality(composer) = 1
                                    THEN text[CHOOSE u \in composer : TRUE] ELSE NoText,
                           turns |-> composer]) \in Seq(Task)
        BY <1>0, <4>2 DEF TaskTypes
      <4> QED
        BY <1>0, <3>1, <4>3 DEF SendEnter, Enter, TaskTypes
    <3>2. UNCHANGED <<composer, tasks>> \/ \E t \in Turn : SendPaste(t) \/ SendEnter(t)
      BY <1>0 DEF Moves
    <3> QED
      BY <1>0, <3>1, <3>2 DEF SendPaste, TaskTypes
  <2>2. (logged \in Nat)'
    <3>1. UNCHANGED logged \/ LogTask
      BY <1>0 DEF Moves
    <3> QED
      BY <1>0, <3>1 DEF LogTask, TaskTypes
  <2>3. (history \subseteq Entry)'
    <3>1. CASE LogTask
      <4>1. tasks[logged + 1] \in Task
        BY <1>0, <3>1 DEF LogTask, TaskTypes
      <4>2. [text |-> tasks[logged + 1].text, own |-> TRUE] \in Entry
        BY <4>1 DEF Task, Entry
      <4> QED
        BY <1>0, <3>1, <4>2 DEF LogTask, TaskTypes
    <3>2. CASE Foreign
      <4>1. sender \in Turn /\ sender # 0
        BY <1>0, <3>2, BoundAssumption DEF Foreign, SendTypes, Turn
      <4>2. text[sender] \in Text
        BY <1>0, <4>1 DEF GateTypes, Begun
      <4>3. [text |-> text[sender], own |-> FALSE] \in Entry
        BY <4>2 DEF Entry
      <4> QED
        BY <1>0, <3>2, <4>3 DEF Foreign, TaskTypes
    <3>3. \/ UNCHANGED history \/ LogTask \/ Foreign
          \/ \E t \in Turn : SendBase(t) \/ SendConfirm(t) \/ SendReturns(t)
      BY <1>0 DEF Moves
    <3> QED
      BY <1>0, <3>1, <3>2, <3>3 DEF SendBase, SendConfirm, SendReturns, Return, TaskTypes
  <2> QED
    BY <2>1, <2>2, <2>3 DEF TaskTypes
<1>6. RolloutTypes'
  <2>1. UNCHANGED <<begun, running, rollout>> \/ BeginTask \/ CompleteTask \/ AbortTask
    BY <1>0 DEF Moves
  <2>2. \/ UNCHANGED escaped \/ CompleteTask \/ AbortTask
        \/ \E t \in Turn : InterruptEsc(t)
    BY <1>0 DEF Moves
  <2>3. (escaped \in BOOLEAN)'
    BY <1>0, <2>2 DEF CompleteTask, AbortTask, EndTask, InterruptEsc, RolloutTypes
  <2>4. (begun \in Nat /\ running \in Nat /\ rollout \in Seq(Record))'
    <3>1. ASSUME NEW k \in Nat, NEW kind \in {"user", "done", "aborted"}
          PROVE  Append(rollout, [kind |-> kind, task |-> k]) \in Seq(Record)
      BY <1>0 DEF RolloutTypes, Record
    <3>2. CASE BeginTask
      <4>1. begun + 1 \in Nat
        BY <1>0 DEF RolloutTypes
      <4> QED
        BY <3>1, <3>2, <4>1 DEF BeginTask
    <3>3. ASSUME NEW kind \in {"done", "aborted"}, EndTask(kind)
          PROVE  (begun \in Nat /\ running \in Nat /\ rollout \in Seq(Record))'
      <4>1. running \in Nat /\ begun \in Nat
        BY <1>0 DEF RolloutTypes
      <4> QED
        BY <3>1, <3>3, <4>1 DEF EndTask
    <3>4. CASE CompleteTask \/ AbortTask
      BY <3>3, <3>4 DEF CompleteTask, AbortTask
    <3> QED
      BY <1>0, <2>1, <3>2, <3>4 DEF RolloutTypes
  <2> QED
    BY <2>3, <2>4 DEF RolloutTypes
<1>7. (resumed \in BOOLEAN /\ faults \in 0 .. MaxFaults)'
  <2>1. /\ resumed' = resumed
        /\ \/ UNCHANGED faults
           \/ \E t \in Turn : InterruptFails(t) \/ WriteFails(t) \/ WatchFails(t)
    BY <1>0 DEF Moves
  <2>2. faults' = faults \/ (faults < MaxFaults /\ faults' = faults + 1)
    BY <2>1 DEF InterruptFails, WriteFails, WatchFails
  <2> QED
    BY <1>0, <2>1, <2>2, BoundAssumption
<1>8. TypeOK' <=> (/\ resumed \in BOOLEAN /\ faults \in 0 .. MaxFaults
                   /\ GateTypes /\ SendTypes /\ WatchTypes
                   /\ OutTypes /\ TaskTypes /\ RolloutTypes)'
  BY TypeParts, PTL
<1> QED
  BY <1>1, <1>2, <1>3, <1>4, <1>5, <1>6, <1>7, <1>8

-----------------------------------------------------------------------------
(* What stays.                                                             *)

\* Codex's tasks and its rollout are appended to, turns keep their text, and a
\* watcher does not begin again.
Grows ==
    /\ resumed' = resumed /\ turnID <= turnID'
    /\ \A t \in Turn : t <= turnID => text'[t] = text[t]
    /\ Len(tasks) <= Len(tasks')
    /\ \A k \in 1 .. Len(tasks) : tasks'[k] = tasks[k]
    /\ Len(rollout) <= Len(rollout')
    /\ \A i \in 1 .. Len(rollout) : rollout'[i] = rollout[i]
    /\ \A t \in Turn : /\ wpc[t] = "done" => wpc'[t] = "done"
                       /\ wpc[t] # "none" => wpc'[t] # "none"

\* What Codex submits.
Submission ==
    [text |-> IF Cardinality(composer) = 1
              THEN text[CHOOSE u \in composer : TRUE] ELSE NoText,
     turns |-> composer]
Submits == composer # {} /\ composer' = {} /\ tasks' = Append(tasks, Submission)
\* Turn t is pasted.
Pasted(t) ==
    /\ Early(t) /\ ~Early(t)' /\ t <= turnID /\ text[t] # Blank
    /\ composer' = composer \union {t} /\ tasks' = tasks

\* What a step does to the composer and the tasks.
LEMMA TaskSteps ==
    TypeOK /\ Begun /\ [Next]_vars =>
        UNCHANGED <<composer, tasks>> \/ Submits \/ \E t \in Turn : Pasted(t)
<1> SUFFICES ASSUME TypeOK, Begun, [Next]_vars
             PROVE  UNCHANGED <<composer, tasks>> \/ Submits \/ \E t \in Turn : Pasted(t)
  OBVIOUS
<1>1. UNCHANGED <<composer, tasks>> \/ \E t \in Turn : SendPaste(t) \/ SendEnter(t)
  BY OtherMoves DEF Moves
<1>2. ASSUME NEW t \in Turn, SendPaste(t) PROVE UNCHANGED <<composer, tasks>> \/ Pasted(t)
  <2>1. spc[t] = "paste" /\ t <= turnID /\ text[t] # Blank /\ spc \in [Turn -> Pc]
    BY <1>2, TypeParts DEF SendPaste, Step, Begun, SendTypes
  <2> QED
    BY <1>2, <2>1 DEF SendPaste, Step, Pasted, Early
<1>3. ASSUME NEW t \in Turn, SendEnter(t) PROVE UNCHANGED <<composer, tasks>> \/ Submits
  BY <1>3 DEF SendEnter, Enter, Submits, Submission
<1> QED
  BY <1>1, <1>2, <1>3

\* A submission is a task.
LEMMA SubmissionType == TypeOK /\ Placed => Submission \in Task
<1> SUFFICES ASSUME TypeOK, Placed PROVE Submission \in Task
  OBVIOUS
<1>1. ASSUME Cardinality(composer) = 1 PROVE text[CHOOSE u \in composer : TRUE] \in Text
  <2>1. composer # {}
    BY <1>1, FS_EmptySet
  <2>2. (CHOOSE u \in composer : TRUE) \in composer
    BY <2>1
  <2> QED
    BY <2>2, TypeParts DEF GateTypes, TaskTypes, Placed
<1> QED
  BY <1>1, TypeParts DEF Submission, Task, TaskTypes

\* What a step does to the rollout.
LEMMA RolloutSteps ==
    TypeOK /\ [Next]_vars =>
        \/ UNCHANGED <<begun, running, rollout>>
        \/ BeginTask
        \/ \E kind \in {"done", "aborted"} : EndTask(kind)
  BY OtherMoves DEF Moves, CompleteTask, AbortTask

\* Every step only adds.
LEMMA EverythingGrows == TypeOK /\ Begun /\ Placed /\ [Next]_vars => Grows
<1> SUFFICES ASSUME TypeOK, Begun, Placed, [Next]_vars PROVE Grows
  OBVIOUS
<1>0. Moves /\ GateTypes /\ WatchTypes /\ TaskTypes /\ RolloutTypes
  BY OtherMoves, TypeParts
<1>1. /\ resumed' = resumed /\ turnID <= turnID'
      /\ \A t \in Turn : t <= turnID => text'[t] = text[t]
  <2>1. resumed' = resumed /\ (UNCHANGED <<turnID, text>> \/ Input)
    BY <1>0 DEF Moves
  <2>2. CASE Input
    BY <1>0, <2>1, <2>2 DEF Input, GateTypes, Turn
  <2> QED
    BY <1>0, <2>1, <2>2 DEF GateTypes
<1>2. Len(tasks) <= Len(tasks') /\ \A k \in 1 .. Len(tasks) : tasks'[k] = tasks[k]
  <2>1. tasks \in Seq(Task)
    BY <1>0 DEF TaskTypes
  <2>2. CASE Submits
    BY <2>1, <2>2, SubmissionType, AppendProperties DEF Submits
  <2> QED
    BY <2>1, <2>2, TaskSteps DEF Pasted
<1>3. Len(rollout) <= Len(rollout') /\ \A i \in 1 .. Len(rollout) : rollout'[i] = rollout[i]
  <2>1. rollout \in Seq(Record) /\ begun + 1 \in Nat /\ running \in Nat
    BY <1>0 DEF RolloutTypes
  <2>2. ASSUME NEW kind \in {"user", "done", "aborted"}, NEW k \in Nat,
               rollout' = Append(rollout, [kind |-> kind, task |-> k])
        PROVE  Len(rollout) <= Len(rollout') /\ \A i \in 1 .. Len(rollout) : rollout'[i] = rollout[i]
    <3>1. [kind |-> kind, task |-> k] \in Record
      BY DEF Record
    <3> QED
      BY <2>1, <2>2, <3>1, AppendProperties
  <2> QED
    BY <2>1, <2>2, RolloutSteps DEF BeginTask, EndTask
<1>4. \A t \in Turn : /\ wpc[t] = "done" => wpc'[t] = "done"
                      /\ wpc[t] # "none" => wpc'[t] # "none"
  <2>1. UNCHANGED watchVars \/ \E t \in Turn : SendConfirm(t) \/ ReadNew(t) \/ WatchFails(t)
    BY <1>0 DEF Moves
  <2>2. ASSUME NEW t \in Turn, SendConfirm(t)
        PROVE  wpc[t] = "none" /\ wpc' = [wpc EXCEPT ![t] = "watch"]
    <3>1. spc[t] = "wait"
      BY <2>2 DEF SendConfirm, Step
    <3> QED
      BY <2>2, <3>1 DEF SendConfirm, Begun
  <2>3. ASSUME NEW t \in Turn, ReadNew(t) \/ WatchFails(t)
        PROVE  wpc' = wpc \/ wpc' = [wpc EXCEPT ![t] = "done"]
    BY <2>3 DEF ReadNew, WatchFails, Publish
  <2> QED
    BY <1>0, <2>1, <2>2, <2>3 DEF WatchTypes, watchVars
<1> QED
  BY <1>1, <1>2, <1>3, <1>4 DEF Grows

\* Only its confirmation starts the watcher of a turn.
LEMMA ConfirmStarts ==
    ASSUME TypeOK, [Next]_vars, NEW t \in Turn, wpc[t] = "none", wpc'[t] # "none"
    PROVE  SendConfirm(t)
<1>0. Moves /\ WatchTypes
  BY OtherMoves, TypeParts
<1>1. \E u \in Turn : SendConfirm(u) \/ ReadNew(u) \/ WatchFails(u)
  BY <1>0 DEF Moves, watchVars
<1>2. ASSUME NEW u \in Turn, ReadNew(u) \/ WatchFails(u) PROVE FALSE
  BY <1>0, <1>2 DEF ReadNew, WatchFails, Publish, WatchTypes
<1> QED
  BY <1>0, <1>1, <1>2 DEF SendConfirm, WatchTypes

-----------------------------------------------------------------------------
(* Turns begin and end in order.                                           *)

\* The part about the sender.
LEMMA SenderWorks ==
    TypeOK /\ Begun /\ [Next]_vars =>
        (sender # 0 => spc[sender] \in {"base", "paste", "enter", "wait", "failed"})'
<1> SUFFICES ASSUME TypeOK, Begun, [Next]_vars, sender' # 0
             PROVE  spc'[sender'] \in {"base", "paste", "enter", "wait", "failed"}
  OBVIOUS
<1>1. /\ spc \in [Turn -> Pc] /\ sender \in 0 .. MaxTurns /\ MaxTurns \in Nat
      /\ sender # 0 => spc[sender] \in {"base", "paste", "enter", "wait", "failed"}
      /\ \A t \in Turn : spc[t] # "none" => t <= turnID
      /\ turnID \in 0 .. MaxTurns
  BY TypeParts, BoundAssumption DEF SendTypes, GateTypes, Begun
<1>2. sender # 0 => sender \in Turn
  BY <1>1 DEF Turn
<1>3. CASE UNCHANGED sendVars
  BY <1>1, <1>3 DEF sendVars
<1>4. CASE Input
  BY <1>1, <1>2, <1>4 DEF Input
<1>5. ASSUME NEW t \in Turn, Sends(t)
      PROVE  spc'[sender'] \in {"base", "paste", "enter", "wait", "failed"}
  <2>1. CASE SendBegin(t)
    BY <1>1, <1>2, <2>1 DEF SendBegin, Step
  <2>2. CASE SendBase(t)
    BY <1>1, <1>2, <2>2 DEF SendBase, Step
  <2>3. CASE SendPaste(t)
    BY <1>1, <1>2, <2>3 DEF SendPaste, Step
  <2>4. CASE SendEnter(t)
    BY <1>1, <1>2, <2>4 DEF SendEnter, Step
  <2>5. CASE SendConfirm(t) \/ SendReturns(t)
    BY <2>5 DEF SendConfirm, SendReturns, Return
  <2>6. CASE SendInterrupted(t)
    BY <1>1, <1>2, <2>6 DEF SendInterrupted, Step
  <2>7. CASE SendFails(t)
    BY <1>1, <1>2, <2>7 DEF SendFails, Step
  <2>8. CASE SendReport(t)
    BY <1>1, <1>2, <2>8 DEF SendReport, Step
  <2> QED
    BY <1>5, <2>1, <2>2, <2>3, <2>4, <2>5, <2>6, <2>7, <2>8 DEF Sends
<1>6. ASSUME NEW t \in Turn, SendTimeout(t) \/ WriteFails(t)
      PROVE  spc'[sender'] \in {"base", "paste", "enter", "wait", "failed"}
  BY <1>1, <1>2, <1>6 DEF SendTimeout, Retry, WriteFails, Step
<1>7. UNCHANGED sendVars \/ Input
        \/ \E t \in Turn : Sends(t) \/ SendTimeout(t) \/ WriteFails(t)
  BY OtherMoves DEF Moves
<1> QED
  BY <1>3, <1>4, <1>5, <1>6, <1>7

\* Every step keeps Begun.
LEMMA NextBegun == TypeOK /\ Begun /\ Placed /\ [Next]_vars => Begun'
<1> SUFFICES ASSUME TypeOK, Begun, Placed, [Next]_vars PROVE Begun'
  OBVIOUS
<1>0. Moves /\ Grows /\ GateTypes /\ SendTypes /\ WatchTypes
  BY OtherMoves, EverythingGrows, TypeParts
<1>1. turnID \in Nat /\ turnID' \in Nat /\ turnID <= turnID'
  <2>1. UNCHANGED <<turnID, text>> \/ Input
    BY <1>0 DEF Moves
  <2> QED
    BY <1>0, <2>1, BoundAssumption DEF Input, GateTypes
<1>2. (ended \subseteq 1 .. turnID)'
  <2>1. CASE ended' = ended
    BY <1>1, <2>1 DEF Begun
  <2>2. CASE \E t \in Turn : InFlight(t) /\ ended' = ended \union {t}
    BY <1>1, <2>2 DEF InFlight, Begun
  <2> QED
    BY <2>1, <2>2, EndsInFlight
<1>3. ASSUME NEW t \in Turn, spc'[t] # "none" PROVE t <= turnID'
  <2>1. spc[t] # "none" \/ t = turnID'
    BY <1>3, SendsGoOn DEF SendGoesOn
  <2> QED
    BY <1>1, <2>1 DEF Begun, Turn
<1>4. ASSUME NEW t \in Turn, spc'[t] \notin {"none", "begin", "done"} PROVE text'[t] # Blank
  <2>1. t <= turnID /\ text[t] # Blank
    <3>1. CASE spc[t] \in {"none", "begin"}
      BY <1>1, <1>4, <3>1, SendsGoOn DEF SendGoesOn
    <3>2. CASE spc[t] \notin {"none", "begin"}
      BY <1>4, <3>2, SendsGoOn DEF SendGoesOn, Begun
    <3> QED
      BY <3>1, <3>2
  <2> QED
    BY <1>0, <2>1 DEF Grows
<1>5. ASSUME NEW t \in Turn, wpc'[t] # "none" PROVE spc'[t] = "done" /\ text'[t] # Blank
  <2>1. CASE wpc[t] # "none"
    <3>1. spc[t] = "done" /\ text[t] # Blank /\ t <= turnID
      BY <2>1 DEF Begun
    <3> QED
      BY <1>0, <3>1, SendsGoOn DEF SendGoesOn, Grows
  <2>2. CASE wpc[t] = "none"
    <3>3. SendConfirm(t)
      BY <1>5, <2>2, ConfirmStarts
    <3>4. spc[t] = "wait" /\ spc'[t] = "done"
      BY <1>0, <3>3 DEF SendConfirm, Step, SendTypes
    <3>5. text[t] # Blank /\ t <= turnID
      BY <3>4 DEF Begun
    <3> QED
      BY <1>0, <3>4, <3>5 DEF Grows
  <2> QED
    BY <2>1, <2>2
<1> QED
  BY <1>2, <1>3, <1>4, <1>5, SenderWorks DEF Begun

-----------------------------------------------------------------------------
(* An input is submitted once.                                             *)

\* At most one element.
LEMMA AtMostOne ==
    ASSUME NEW S, \A x, y \in S : x = y PROVE Cardinality(S) <= 1
<1>1. CASE S = {}
  BY <1>1, FS_EmptySet
<1>2. CASE S # {}
  <2>1. PICK x \in S : TRUE
    BY <1>2
  <2>2. S = {x}
    BY <2>1
  <2> QED
    BY <2>2, FS_Singleton
<1> QED
  BY <1>1, <1>2

\* What is placed is submitted once.
LEMMA PlacedOnce == TypeOK /\ Placed => SubmittedOnce
<1> SUFFICES ASSUME TypeOK, Placed, NEW t \in Turn
             PROVE  /\ Cardinality({k \in 1 .. Len(tasks) : t \in tasks[k].turns}) <= 1
                    /\ t \in composer => \A k \in 1 .. Len(tasks) : t \notin tasks[k].turns
  BY DEF SubmittedOnce
<1>1. \A j, k \in {k \in 1 .. Len(tasks) : t \in tasks[k].turns} : j = k
  BY DEF Placed
<1>2. Cardinality({k \in 1 .. Len(tasks) : t \in tasks[k].turns}) <= 1
  BY <1>1, AtMostOne
<1> QED
  BY <1>2 DEF Placed

\* The tasks after a submission.
LEMMA AfterSubmission ==
    ASSUME TypeOK, Placed, Submits
    PROVE  /\ Len(tasks') = Len(tasks) + 1 /\ Len(tasks) \in Nat
           /\ \A k \in 1 .. Len(tasks) : tasks'[k] = tasks[k]
           /\ tasks'[Len(tasks) + 1] = Submission
  BY SubmissionType, TypeParts, AppendProperties, LenProperties DEF Submits, TaskTypes

\* Every step keeps Placed.
LEMMA NextPlaced == TypeOK /\ Begun /\ Placed /\ [Next]_vars => Placed'
<1> SUFFICES ASSUME TypeOK, Begun, Placed, [Next]_vars PROVE Placed'
  OBVIOUS
<1>0. Grows /\ GateTypes /\ TaskTypes
  BY EverythingGrows, TypeParts
<1>9. composer \subseteq Turn /\ tasks \in Seq(Task) /\ Len(tasks) \in Nat
  BY TypeParts, LenProperties DEF TaskTypes
<1>10. ASSUME NEW t \in Turn, ~Early(t) PROVE ~Early(t)'
  BY <1>10, SendsGoOn DEF SendGoesOn
<1>1. ASSUME NEW k \in 1 .. Len(tasks) PROVE tasks[k].turns \subseteq Turn
  <2>1. tasks[k] \in Task
    BY <1>9
  <2> QED
    BY <2>1 DEF Task
<1>2. \A t \in Turn : ~Early(t) => t <= turnID
  BY DEF Begun, Early
<1>3. ASSUME NEW t \in composer PROVE text'[t] # Blank
  <2>1. t \in Turn /\ ~Early(t) /\ text[t] # Blank
    BY <1>0, <1>9, <1>10 DEF Placed
  <2> QED
    BY <1>0, <1>9, <1>10, <1>2, <2>1 DEF Grows
<1>4. CASE UNCHANGED <<composer, tasks>>
  BY <1>0, <1>9, <1>10, <1>1, <1>3, <1>4 DEF Placed
<1>5. ASSUME NEW t \in Turn, Pasted(t) PROVE Placed'
  <2>1. /\ Early(t) /\ ~Early(t)' /\ text[t] # Blank
        /\ composer' = composer \union {t} /\ tasks' = tasks
    BY <1>5 DEF Pasted
  <2>2. text'[t] # Blank
    BY <1>0, <1>9, <1>10, <1>5 DEF Pasted, Grows
  <2>3. \A u \in composer' : text'[u] # Blank
    BY <1>3, <2>1, <2>2
  <2>4. \A k \in 1 .. Len(tasks) : t \notin tasks[k].turns
    BY <2>1 DEF Placed
  <2> QED
    BY <1>0, <1>9, <1>10, <1>1, <2>1, <2>3, <2>4 DEF Placed
<1>6. CASE Submits
  <2>1. /\ composer' = {} /\ Len(tasks') = Len(tasks) + 1
        /\ \A k \in 1 .. Len(tasks) : tasks'[k] = tasks[k]
        /\ tasks'[Len(tasks) + 1].turns = composer
    BY <1>6, AfterSubmission DEF Submits, Submission
  <2>2. \A k \in 1 .. Len(tasks) : tasks[k].turns \cap composer = {}
    BY <1>1 DEF Placed
  <2>3. ASSUME NEW k \in 1 .. Len(tasks'), NEW t \in tasks'[k].turns
        PROVE  ~Early(t)' /\ t \notin composer'
    <3>1. CASE k = Len(tasks) + 1
      BY <1>0, <1>9, <1>10, <2>1, <3>1 DEF Placed
    <3>2. CASE k \in 1 .. Len(tasks)
      BY <1>0, <1>9, <1>10, <1>1, <2>1, <3>2 DEF Placed
    <3> QED
      BY <1>0, <1>9, <1>10, <2>1, <3>1, <3>2
  <2>4. ASSUME NEW j \in 1 .. Len(tasks'), NEW k \in 1 .. Len(tasks'),
               tasks'[j].turns \cap tasks'[k].turns # {}
        PROVE  j = k
    <3>1. CASE j \in 1 .. Len(tasks) /\ k \in 1 .. Len(tasks)
      BY <2>1, <2>4, <3>1 DEF Placed
    <3>2. CASE j = Len(tasks) + 1 /\ k \in 1 .. Len(tasks)
      BY <2>1, <2>2, <2>4, <3>2
    <3>3. CASE k = Len(tasks) + 1 /\ j \in 1 .. Len(tasks)
      BY <2>1, <2>2, <2>4, <3>3
    <3> QED
      BY <1>0, <1>9, <1>10, <2>1, <3>1, <3>2, <3>3
  <2> QED
    BY <2>1, <2>3, <2>4 DEF Placed
<1> QED
  BY <1>4, <1>5, <1>6, TaskSteps

-----------------------------------------------------------------------------
(* An input is confirmed by an entry of its own Codex only.                *)

\* A set of one turn.
LEMMA OneTurn ==
    ASSUME NEW S \in SUBSET Turn, Cardinality(S) = 1 PROVE \E u \in Turn : S = {u}
<1>1. IsFiniteSet(S)
  <2>1. MaxTurns \in Int /\ 1 \in Int
    BY BoundAssumption
  <2>2. IsFiniteSet(Turn)
    BY <2>1, FS_Interval DEF Turn
  <2> QED
    BY <2>2, FS_Subset
<1> QED
  BY <1>1, FS_Singleton

\* Every step keeps Submitted.
LEMMA NextSubmitted == TypeOK /\ Begun /\ Placed /\ Submitted /\ [Next]_vars => Submitted'
<1> SUFFICES ASSUME TypeOK, Begun, Placed, Submitted, [Next]_vars PROVE Submitted'
  OBVIOUS
<1>0. Grows /\ GateTypes /\ TaskTypes
  BY EverythingGrows, TypeParts
<1>1. ASSUME NEW k \in 1 .. Len(tasks), tasks'[k] = tasks[k]
      PROVE  /\ tasks'[k].turns = {} => k = 1 /\ resumed'
             /\ tasks'[k].text # NoText /\ tasks'[k].turns # {} =>
                    \E u \in Turn : tasks'[k].turns = {u} /\ tasks'[k].text = text'[u]
  <2>1. tasks[k].turns = {} => k = 1 /\ resumed'
    BY <1>0 DEF Grows, Submitted
  <2>2. ASSUME tasks[k].text # NoText, tasks[k].turns # {}
        PROVE  \E u \in Turn : tasks[k].turns = {u} /\ tasks[k].text = text'[u]
    <3>1. PICK u \in Turn : tasks[k].turns = {u} /\ tasks[k].text = text[u]
      BY <2>2 DEF Submitted
    <3>2. u <= turnID
      BY <3>1 DEF Placed, Begun, Early
    <3> QED
      BY <1>0, <3>1, <3>2 DEF Grows
  <2> QED
    BY <1>1, <2>1, <2>2
<1>2. CASE tasks' = tasks
  BY <1>1, <1>2 DEF Submitted
<1>3. CASE Submits
  <2>1. /\ Len(tasks') = Len(tasks) + 1 /\ Len(tasks) \in Nat
        /\ \A k \in 1 .. Len(tasks) : tasks'[k] = tasks[k]
        /\ tasks'[Len(tasks) + 1] = Submission
    BY <1>3, AfterSubmission
  <2>2. Submission.turns # {}
    BY <1>3 DEF Submits, Submission
  <2>3. ASSUME Submission.text # NoText
        PROVE  \E u \in Turn : Submission.turns = {u} /\ Submission.text = text'[u]
    <3>1. /\ Cardinality(composer) = 1 /\ composer \subseteq Turn
          /\ Submission.turns = composer /\ Submission.text = text[CHOOSE u \in composer : TRUE]
      BY <1>0, <2>3 DEF Submission, TaskTypes
    <3>2. PICK u \in Turn : composer = {u}
      BY <3>1, OneTurn
    <3>3. (CHOOSE w \in composer : TRUE) = u
      BY <3>2
    <3>4. u <= turnID
      BY <3>2 DEF Placed, Begun, Early
    <3> QED
      BY <1>0, <3>1, <3>2, <3>3, <3>4 DEF Grows
  <2>4. ASSUME NEW k \in 1 .. Len(tasks')
        PROVE  /\ tasks'[k].turns = {} => k = 1 /\ resumed'
               /\ tasks'[k].text # NoText /\ tasks'[k].turns # {} =>
                    \E u \in Turn : tasks'[k].turns = {u} /\ tasks'[k].text = text'[u]
    <3>1. CASE k = Len(tasks) + 1
      BY <2>1, <2>2, <2>3, <3>1
    <3>2. CASE k \in 1 .. Len(tasks)
      BY <1>1, <2>1, <3>2
    <3> QED
      BY <2>1, <3>1, <3>2
  <2> QED
    BY <2>4 DEF Submitted
<1> QED
  BY <1>2, <1>3, TaskSteps DEF Pasted

\* Every step keeps Resumed.
LEMMA NextResumed == TypeOK /\ Begun /\ Placed /\ Resumed /\ [Next]_vars => Resumed'
<1> SUFFICES ASSUME TypeOK, Begun, Placed, Resumed, [Next]_vars, resumed'
             PROVE  tasks' # <<>> /\ logged' >= 1 /\ rollout' # <<>>
  BY DEF Resumed
<1>0. Grows /\ Moves /\ TaskTypes /\ RolloutTypes
  BY EverythingGrows, OtherMoves, TypeParts
<1>1. tasks # <<>> /\ logged >= 1 /\ rollout # <<>>
  BY <1>0 DEF Grows, Resumed
<1>2. tasks' # <<>>
  <2>1. Len(tasks) >= 1
    BY <1>0, <1>1, EmptySeq DEF TaskTypes
  <2> QED
    BY <1>0, <2>1 DEF Grows
<1>3. rollout' # <<>>
  <2>1. Len(rollout) >= 1
    BY <1>0, <1>1, EmptySeq DEF RolloutTypes
  <2> QED
    BY <1>0, <2>1 DEF Grows
<1>4. logged' >= 1
  <2>1. UNCHANGED logged \/ LogTask
    BY <1>0 DEF Moves
  <2>2. logged \in Nat
    BY <1>0 DEF TaskTypes
  <2>3. logged' = logged \/ logged' = logged + 1
    BY <2>1 DEF LogTask
  <2> QED
    BY <1>1, <2>2, <2>3
<1> QED
  BY <1>2, <1>3, <1>4

\* A task that came from this worker stays one.
LEMMA TaskStays ==
    ASSUME Grows, TaskTypes, TaskTypes', NEW x,
           \E k \in 1 .. Len(tasks) : tasks[k].turns # {} /\ tasks[k].text = x
    PROVE  \E k \in 1 .. Len(tasks') : tasks'[k].turns # {} /\ tasks'[k].text = x
<1>1. PICK k \in 1 .. Len(tasks) : tasks[k].turns # {} /\ tasks[k].text = x
  OBVIOUS
<1>2. Len(tasks) \in Nat /\ Len(tasks') \in Nat
  BY LenProperties DEF TaskTypes
<1>3. k \in 1 .. Len(tasks') /\ tasks'[k] = tasks[k]
  BY <1>2 DEF Grows
<1> QED
  BY <1>1, <1>3

\* Every step keeps OwnEntries.
LEMMA NextOwnEntries ==
    /\ TypeOK /\ TypeOK' /\ Begun /\ Placed /\ Submitted /\ Resumed /\ OwnEntries
    /\ [Next]_vars
    => OwnEntries'
<1> SUFFICES ASSUME TypeOK, TypeOK', Begun, Placed, Submitted, Resumed, OwnEntries,
                    [Next]_vars,
                    NEW e \in history', e.own
             PROVE  \E k \in 1 .. Len(tasks') : tasks'[k].turns # {} /\ tasks'[k].text = e.text
  BY DEF OwnEntries
<1>0. Grows /\ Moves /\ TaskTypes
  BY EverythingGrows, OtherMoves, TypeParts
<1>1. TaskTypes'
  BY TypeParts, PTL
<1>2. CASE e \in history
  BY <1>0, <1>1, <1>2, TaskStays DEF OwnEntries
<1>3. CASE LogTask /\ e = [text |-> tasks[logged + 1].text, own |-> TRUE]
  <2>1. logged + 1 \in 1 .. Len(tasks)
    BY <1>0, <1>3 DEF LogTask, TaskTypes
  <2>2. tasks[logged + 1].turns # {}
    BY <1>0, <2>1 DEF Submitted, Resumed, TaskTypes
  <2>3. e.text = tasks[logged + 1].text
    BY <1>3
  <2> QED
    BY <1>0, <1>1, <2>1, <2>2, <2>3, TaskStays
<1>4. \/ e \in history
      \/ LogTask /\ e = [text |-> tasks[logged + 1].text, own |-> TRUE]
  <2>1. ~(e = [text |-> text[sender], own |-> FALSE])
    OBVIOUS
  <2>2. \/ UNCHANGED history \/ LogTask \/ Foreign
        \/ \E t \in Turn : SendBase(t) \/ SendConfirm(t) \/ SendReturns(t)
    BY <1>0 DEF Moves
  <2>3. CASE LogTask
    BY <2>3 DEF LogTask
  <2>4. CASE Foreign
    BY <2>1, <2>4 DEF Foreign
  <2> QED
    BY <2>2, <2>3, <2>4 DEF SendBase, SendConfirm, SendReturns, Return
<1> QED
  BY <1>2, <1>3, <1>4

\* Every step keeps ConfirmedHere.
LEMMA NextConfirmedHere ==
    /\ TypeOK /\ TypeOK' /\ Begun /\ Placed /\ OwnEntries /\ ConfirmedHere
    /\ [Next]_vars
    => ConfirmedHere'
<1> SUFFICES ASSUME TypeOK, TypeOK', Begun, Placed, OwnEntries, ConfirmedHere,
                    [Next]_vars,
                    NEW t \in Turn, wpc'[t] # "none"
             PROVE  \E k \in 1 .. Len(tasks') : tasks'[k].text = text'[t] /\ tasks'[k].turns # {}
  BY DEF ConfirmedHere
<1>0. Grows /\ Moves /\ TaskTypes /\ WatchTypes
  BY EverythingGrows, OtherMoves, TypeParts
<1>1. TaskTypes'
  BY TypeParts, PTL
<1>2. t <= turnID /\ \E k \in 1 .. Len(tasks) : tasks[k].turns # {} /\ tasks[k].text = text[t]
  <2>1. CASE wpc[t] # "none"
    BY <2>1 DEF ConfirmedHere, Begun
  <2>2. CASE wpc[t] = "none"
    <3>3. SendConfirm(t)
      BY <2>2, ConfirmStarts
    <3>4. spc[t] = "wait" /\ Matches(t)
      BY <3>3 DEF SendConfirm, Step
    <3> QED
      BY <3>4 DEF Begun, Matches, OwnEntries
  <2> QED
    BY <2>1, <2>2
<1>3. text'[t] = text[t]
  BY <1>0, <1>2 DEF Grows
<1> QED
  BY <1>0, <1>1, <1>2, <1>3, TaskStays

-----------------------------------------------------------------------------
(* The rollout is made of pairs.                                           *)

\* Appending a record.
LEMMA RecordAppended ==
    ASSUME RolloutTypes, NEW kind \in {"user", "done", "aborted"}, NEW k \in Nat,
           rollout' = Append(rollout, [kind |-> kind, task |-> k])
    PROVE  /\ Len(rollout') = Len(rollout) + 1 /\ Len(rollout) \in Nat
           /\ \A i \in 1 .. Len(rollout) :
                rollout'[i] = rollout[i] /\ (rollout'[i].kind = "user" <=> IsUser(i))
           /\ rollout'[Len(rollout) + 1] = [kind |-> kind, task |-> k]
           /\ rollout'[Len(rollout) + 1].kind = kind
<1>1. rollout \in Seq(Record) /\ [kind |-> kind, task |-> k] \in Record
  BY DEF RolloutTypes, Record
<1>2. /\ Len(rollout') = Len(rollout) + 1 /\ Len(rollout) \in Nat
      /\ \A i \in 1 .. Len(rollout) : rollout'[i] = rollout[i]
      /\ rollout'[Len(rollout) + 1] = [kind |-> kind, task |-> k]
  BY <1>1, AppendProperties, LenProperties
<1> QED
  BY <1>2 DEF IsUser

\* Every step keeps Paired and Last.
LEMMA NextPaired ==
    TypeOK /\ Begun /\ Placed /\ Paired /\ Last /\ [Next]_vars => Paired' /\ Last'
<1> SUFFICES ASSUME TypeOK, Begun, Placed, Paired, Last, [Next]_vars PROVE Paired' /\ Last'
  OBVIOUS
<1>0. /\ Len(tasks) \in Nat /\ Len(tasks') \in Nat /\ Len(tasks) <= Len(tasks')
      /\ resumed' = resumed /\ RolloutTypes
      /\ Len(rollout) \in Nat /\ begun \in Nat /\ running \in Nat
  <2>1. Grows /\ TaskTypes /\ RolloutTypes
    BY EverythingGrows, TypeParts
  <2>2. CASE Submits
    BY <2>1, <2>2, AfterSubmission DEF Grows, RolloutTypes
  <2>3. CASE tasks' = tasks
    BY <2>1, <2>3 DEF Grows, RolloutTypes, TaskTypes
  <2> QED
    BY <2>2, <2>3, TaskSteps DEF Pasted
<1>1. CASE UNCHANGED <<begun, running, rollout>>
  BY <1>0, <1>1 DEF Paired, Last, IsUser
<1>2. CASE BeginTask
  <2>1. /\ running = 0 /\ begun < Len(tasks) /\ begun' = begun + 1 /\ running' = begun + 1
        /\ rollout' = Append(rollout, [kind |-> "user", task |-> begun + 1])
        /\ tasks' = tasks
    BY <1>2 DEF BeginTask, cliVars
  <2>2. /\ Len(rollout') = Len(rollout) + 1
        /\ \A i \in 1 .. Len(rollout) :
                rollout'[i] = rollout[i] /\ (rollout'[i].kind = "user" <=> IsUser(i))
        /\ rollout'[Len(rollout) + 1] = [kind |-> "user", task |-> begun + 1]
        /\ rollout'[Len(rollout) + 1].kind = "user"
    BY <1>0, <2>1, RecordAppended
  <2>3. begun' <= Len(tasks') /\ running' \in {0, begun'}
    BY <1>0, <2>1
  <2>4. ASSUME NEW i \in 1 .. Len(rollout') PROVE rollout'[i].task \in 1 .. begun'
    BY <1>0, <2>1, <2>2 DEF Paired
  <2>5. ASSUME NEW i \in 1 .. Len(rollout'), rollout'[i].kind # "user"
        PROVE  i > 1 /\ rollout'[i - 1].kind = "user" /\ rollout'[i - 1].task = rollout'[i].task
    <3>1. i \in 1 .. Len(rollout) /\ ~IsUser(i)
      BY <1>0, <2>2, <2>5
    <3>2. i > 1 /\ IsUser(i - 1) /\ rollout[i - 1].task = rollout[i].task
      BY <3>1 DEF Paired
    <3> QED
      BY <1>0, <2>2, <3>1, <3>2
  <2>6. ASSUME NEW i \in 2 .. Len(rollout'), rollout'[i].kind = "user", rollout'[i - 1].kind = "user"
        PROVE  i = 2 /\ resumed'
    <3>1. i - 1 \in 1 .. Len(rollout) /\ IsUser(i - 1)
      BY <1>0, <2>2, <2>6
    <3>2. CASE i = Len(rollout) + 1
      <4>1. rollout # <<>>
        BY <1>0, <3>1
      <4>2. i - 1 = Len(rollout)
        BY <1>0, <3>2
      <4>3. Len(rollout) = 1 /\ resumed
        BY <2>1, <3>1, <4>1, <4>2 DEF Last
      <4> QED
        BY <1>0, <3>2, <4>3
    <3>3. CASE i \in 2 .. Len(rollout)
      BY <1>0, <2>2, <2>6, <3>1, <3>3 DEF Paired
    <3> QED
      BY <1>0, <2>2, <3>2, <3>3
  <2>7. ASSUME NEW i \in 1 .. Len(rollout'), NEW j \in 1 .. Len(rollout'), i < j, rollout'[j].kind = "user"
        PROVE  rollout'[i].task < rollout'[j].task
    <3>1. i \in 1 .. Len(rollout) /\ rollout'[i] = rollout[i]
      BY <1>0, <2>2, <2>7
    <3>2. CASE j = Len(rollout) + 1
      BY <1>0, <2>2, <3>1, <3>2 DEF Paired
    <3>3. CASE j \in 1 .. Len(rollout)
      BY <2>2, <2>7, <3>1, <3>3 DEF Paired
    <3> QED
      BY <1>0, <2>2, <3>2, <3>3
  <2>8. Paired'
    BY <2>3, <2>4, <2>5, <2>6, <2>7 DEF Paired, IsUser
  <2>9. rollout' # <<>> /\ running' # 0
        /\ rollout'[Len(rollout')] = [kind |-> "user", task |-> running']
    BY <1>0, <2>1, <2>2, EmptySeq
  <2> QED
    BY <2>8, <2>9 DEF Last, IsUser
<1>3. ASSUME NEW kind \in {"done", "aborted"}, EndTask(kind) PROVE Paired' /\ Last'
  <2>1. /\ running # 0 /\ begun' = begun /\ running' = 0
        /\ rollout' = Append(rollout, [kind |-> kind, task |-> running])
        /\ tasks' = tasks
    BY <1>3 DEF EndTask
  <2>2. /\ Len(rollout') = Len(rollout) + 1
        /\ \A i \in 1 .. Len(rollout) :
                rollout'[i] = rollout[i] /\ (rollout'[i].kind = "user" <=> IsUser(i))
        /\ rollout'[Len(rollout) + 1] = [kind |-> kind, task |-> running]
        /\ rollout'[Len(rollout) + 1].kind # "user"
    BY <1>0, <2>1, RecordAppended
  <2>3. begun' <= Len(tasks') /\ running' \in {0, begun'} /\ running = begun
    BY <1>0, <2>1 DEF Paired
  <2>4. /\ rollout # <<>> /\ Len(rollout) >= 1
        /\ rollout[Len(rollout)] = [kind |-> "user", task |-> running]
        /\ IsUser(Len(rollout)) /\ rollout[Len(rollout)].task = running
    BY <1>0, <2>1, EmptySeq DEF Last, IsUser, RolloutTypes
  <2>5. ASSUME NEW i \in 1 .. Len(rollout') PROVE rollout'[i].task \in 1 .. begun'
    BY <1>0, <2>1, <2>2, <2>3 DEF Paired
  <2>6. ASSUME NEW i \in 1 .. Len(rollout'), rollout'[i].kind # "user"
        PROVE  i > 1 /\ rollout'[i - 1].kind = "user" /\ rollout'[i - 1].task = rollout'[i].task
    <3>1. CASE i \in 1 .. Len(rollout)
      <4>1. i > 1 /\ IsUser(i - 1) /\ rollout[i - 1].task = rollout[i].task
        BY <2>2, <2>6, <3>1 DEF Paired
      <4> QED
        BY <1>0, <2>2, <3>1, <4>1
    <3>2. CASE i = Len(rollout) + 1
      BY <1>0, <2>2, <2>4, <3>2
    <3> QED
      BY <1>0, <2>2, <3>1, <3>2
  <2>7. ASSUME NEW i \in 2 .. Len(rollout'), rollout'[i].kind = "user", rollout'[i - 1].kind = "user"
        PROVE  i = 2 /\ resumed'
    <3>1. i \in 2 .. Len(rollout) /\ IsUser(i) /\ i - 1 \in 1 .. Len(rollout)
      BY <1>0, <2>2, <2>7
    <3> QED
      BY <1>0, <2>2, <2>7, <3>1 DEF Paired
  <2>8. ASSUME NEW i \in 1 .. Len(rollout'), NEW j \in 1 .. Len(rollout'), i < j, rollout'[j].kind = "user"
        PROVE  rollout'[i].task < rollout'[j].task
    <3>1. i \in 1 .. Len(rollout) /\ j \in 1 .. Len(rollout) /\ IsUser(j)
      BY <1>0, <2>2, <2>8
    <3> QED
      BY <2>2, <2>8, <3>1 DEF Paired, IsUser
  <2>9. Paired'
    BY <2>3, <2>5, <2>6, <2>7, <2>8 DEF Paired, IsUser
  <2>10. rollout'[Len(rollout')].kind # "user"
    BY <2>2
  <2> QED
    BY <2>1, <2>9, <2>10 DEF Last, IsUser
<1> QED
  BY <1>1, <1>2, <1>3, RolloutSteps

-----------------------------------------------------------------------------
(* What a watcher sees.                                                    *)

\* After a user record that a turn looks at there is no other one, but its end.
LEMMA EndFollows ==
    ASSUME TypeOK, Paired, Watching, NEW t \in Turn, wpc[t] # "none",
           NEW j \in Nat, offset[t] < j, j < Len(rollout), IsUser(j)
    PROVE  ~IsUser(j + 1)
<1>1. Len(rollout) \in Nat /\ offset[t] \in Nat
  BY TypeParts, LenProperties DEF RolloutTypes, SendTypes
<1>2. SUFFICES ASSUME IsUser(j + 1) PROVE FALSE
  OBVIOUS
<1>3. j + 1 \in 2 .. Len(rollout) /\ (j + 1) - 1 = j
  BY <1>1
<1>4. j + 1 = 2 /\ resumed
  BY <1>2, <1>3 DEF Paired
<1> QED
  BY <1>1, <1>4 DEF Watching

\* The first end that a watcher finds is that of a task with its text whose record is
\* after the turn's offset.
LEMMA FirstEnd ==
    ASSUME TypeOK, Paired, Watching, NEW t \in Turn, wpc[t] = "watch",
           NEW m \in Ends(t), \A i \in Ends(t) : m <= i
    PROVE  /\ m \in 2 .. Len(rollout) /\ m - 1 > offset[t] /\ IsUser(m - 1)
           /\ rollout[m - 1].task = rollout[m].task
           /\ tasks[rollout[m].task].text = text[t]
<1>1. /\ Len(rollout) \in Nat /\ offset[t] \in Nat /\ pos[t] \in Nat
      /\ offset[t] <= pos[t] /\ pos[t] <= Len(rollout)
  BY TypeParts, LenProperties DEF RolloutTypes, SendTypes, WatchTypes, Watching
<1>2. /\ m \in pos[t] + 1 .. Len(rollout) /\ ~IsUser(m)
      /\ armed[t] \/ \E j \in Arms(t) : j < m
  BY DEF Ends, New, IsUser
<1>3. m > 1 /\ IsUser(m - 1) /\ rollout[m - 1].task = rollout[m].task
  BY <1>1, <1>2 DEF Paired
<1>4. \E j \in Nat : /\ offset[t] < j /\ pos[t] <= j /\ j < m /\ IsUser(j)
                     /\ tasks[rollout[j].task].text = text[t]
                     /\ armed[t] \/ \E i \in Arms(t) : i <= j
  <2>1. CASE armed[t]
    <3>1. /\ offset[t] < pos[t] /\ IsUser(pos[t])
          /\ tasks[rollout[pos[t]].task].text = text[t]
      BY <2>1 DEF Watching
    <3> QED
      BY <1>1, <1>2, <2>1, <3>1
  <2>2. CASE \E j \in Arms(t) : j < m
    <3>1. PICK j \in Arms(t) : j < m
      BY <2>2
    <3>2. /\ j \in pos[t] + 1 .. Len(rollout) /\ IsUser(j)
          /\ tasks[rollout[j].task].text = text[t]
      BY <3>1 DEF Arms, New, IsUser
    <3>3. j \in Nat /\ offset[t] < j /\ pos[t] <= j /\ j <= j
      BY <1>1, <3>2
    <3> QED
      BY <3>1, <3>2, <3>3
  <2> QED
    BY <1>2, <2>1, <2>2
<1>5. PICK j \in Nat : /\ offset[t] < j /\ pos[t] <= j /\ j < m /\ IsUser(j)
                       /\ tasks[rollout[j].task].text = text[t]
                       /\ armed[t] \/ \E i \in Arms(t) : i <= j
  BY <1>4
<1>6. j + 1 \in Ends(t)
  <2>1. j < Len(rollout)
    BY <1>1, <1>2, <1>5
  <2>2. ~IsUser(j + 1)
    BY <1>5, <2>1, EndFollows
  <2>3. j + 1 \in pos[t] + 1 .. Len(rollout)
    BY <1>1, <1>5, <2>1
  <2>4. armed[t] \/ \E i \in Arms(t) : i < j + 1
    <3>1. Arms(t) \subseteq Int
      BY DEF Arms, New
    <3> QED
      BY <1>5, <3>1
  <2> QED
    BY <2>2, <2>3, <2>4 DEF Ends, New, IsUser
<1>7. j = m - 1
  BY <1>1, <1>2, <1>5, <1>6
<1> QED
  BY <1>1, <1>2, <1>3, <1>5, <1>7

\* Every step keeps Watching.
LEMMA NextWatching ==
    /\ TypeOK /\ TypeOK' /\ Begun /\ Placed /\ Resumed /\ Paired /\ Watching
    /\ [Next]_vars
    => Watching'
<1> SUFFICES ASSUME TypeOK, TypeOK', Begun, Placed, Resumed, Paired, Watching, [Next]_vars,
                    NEW t \in Turn
             PROVE  /\ spc'[t] \notin {"none", "begin", "done"} \/ wpc'[t] # "none" =>
                        offset'[t] <= Len(rollout') /\ (resumed' => offset'[t] >= 1)
                    /\ wpc'[t] = "watch" => offset'[t] <= pos'[t] /\ pos'[t] <= Len(rollout')
                    /\ armed'[t] =>
                        /\ wpc'[t] = "watch" /\ offset'[t] < pos'[t]
                        /\ rollout'[pos'[t]].kind = "user"
                        /\ tasks'[rollout'[pos'[t]].task].text = text'[t]
  BY DEF Watching, IsUser
<1>0. /\ Moves /\ Grows /\ WatchTypes /\ SendTypes /\ RolloutTypes
      /\ SendGoesOn(t)
  BY OtherMoves, EverythingGrows, TypeParts, SendsGoOn
<1>1. /\ Len(rollout) \in Nat /\ Len(rollout') \in Nat /\ Len(rollout) <= Len(rollout')
      /\ offset[t] \in Nat /\ pos[t] \in Nat
  <2>1. RolloutTypes'
    BY TypeParts, PTL
  <2> QED
    BY <1>0, <2>1, LenProperties DEF RolloutTypes, SendTypes, WatchTypes, Grows
<1>2. ASSUME wpc[t] # "none"
      PROVE  /\ t <= turnID /\ text'[t] = text[t] /\ offset'[t] = offset[t]
             /\ offset[t] <= Len(rollout) /\ (resumed => offset[t] >= 1)
             /\ wpc'[t] # "none"
  BY <1>0, <1>2 DEF Begun, Grows, SendGoesOn, Watching
<1>3. ASSUME spc'[t] \notin {"none", "begin", "done"} \/ wpc'[t] # "none"
      PROVE  offset'[t] <= Len(rollout') /\ (resumed' => offset'[t] >= 1)
  <2>1. CASE wpc[t] # "none"
    BY <1>0, <1>1, <1>2, <2>1 DEF Grows
  <2>2. CASE wpc[t] = "none" /\ spc[t] \notin {"none", "begin", "done"}
    BY <1>0, <1>1, <2>2 DEF Grows, SendGoesOn, Watching
  <2>3. CASE wpc[t] = "none" /\ spc[t] \in {"none", "begin", "done"}
    <3>1. wpc'[t] = "none"
      BY <2>3, ConfirmStarts DEF SendConfirm, Step
    <3>2. offset'[t] = RolloutOffset
      BY <1>0, <1>3, <2>3, <3>1 DEF SendGoesOn
    <3>3. resumed => Len(rollout) >= 1
      BY <1>0, EmptySeq DEF Resumed, RolloutTypes
    <3> QED
      BY <1>0, <1>1, <3>2, <3>3 DEF RolloutOffset, Grows
  <2> QED
    BY <2>1, <2>2, <2>3
<1>4. ASSUME armed[t], pos'[t] = pos[t]
      PROVE  /\ offset'[t] < pos'[t]
             /\ rollout'[pos'[t]].kind = "user"
             /\ tasks'[rollout'[pos'[t]].task].text = text'[t]
  <2>1. /\ wpc[t] = "watch" /\ offset[t] < pos[t] /\ IsUser(pos[t])
        /\ tasks[rollout[pos[t]].task].text = text[t] /\ pos[t] <= Len(rollout)
    BY <1>4 DEF Watching
  <2>2. pos[t] \in 1 .. Len(rollout)
    BY <1>1, <2>1
  <2>3. rollout'[pos[t]] = rollout[pos[t]]
    BY <1>0, <2>2 DEF Grows
  <2>4. rollout[pos[t]].task \in 1 .. Len(tasks)
    <3>1. rollout[pos[t]].task \in 1 .. begun /\ begun <= Len(tasks)
      BY <2>2 DEF Paired
    <3>2. begun \in Nat /\ Len(tasks) \in Nat
      BY TypeParts, LenProperties DEF TaskTypes, RolloutTypes
    <3> QED
      BY <3>1, <3>2
  <2>5. tasks'[rollout[pos[t]].task] = tasks[rollout[pos[t]].task]
    BY <1>0, <2>4 DEF Grows
  <2> QED
    BY <1>2, <1>4, <2>1, <2>3, <2>5 DEF IsUser
<1>5. CASE pos'[t] = pos[t] /\ armed'[t] = armed[t] /\ wpc'[t] = wpc[t]
  <2>1. ASSUME wpc'[t] = "watch" PROVE offset'[t] <= pos'[t] /\ pos'[t] <= Len(rollout')
    <3>1. offset[t] <= pos[t] /\ pos[t] <= Len(rollout)
      BY <1>5, <2>1 DEF Watching
    <3>2. offset'[t] = offset[t]
      BY <1>2, <1>5, <2>1
    <3> QED
      BY <1>1, <1>5, <3>1, <3>2
  <2>2. armed'[t] => wpc'[t] = "watch"
    BY <1>5 DEF Watching
  <2> QED
    BY <1>3, <1>4, <1>5, <2>1, <2>2
<1>6. CASE SendConfirm(t)
  <2>1. /\ spc[t] = "wait" /\ pos'[t] = offset[t] /\ offset' = offset /\ armed' = armed
        /\ wpc[t] = "none"
    BY <1>0, <1>6 DEF SendConfirm, Step, WatchTypes, Begun
  <2>2. ~armed[t] /\ offset[t] <= Len(rollout)
    BY <2>1 DEF Watching
  <2> QED
    BY <1>1, <1>3, <2>1, <2>2
<1>7. CASE ReadNew(t) /\ Ends(t) = {}
  <2>1. /\ wpc[t] = "watch" /\ New(t) # {} /\ armed'[t] = (armed[t] \/ Arms(t) # {})
        /\ pos'[t] = Len(rollout) /\ rollout' = rollout /\ tasks' = tasks
    BY <1>0, <1>7 DEF ReadNew, WatchTypes, cliVars
  <2>2. offset[t] <= pos[t] /\ pos[t] < Len(rollout)
    BY <1>1, <2>1 DEF New, Watching
  <2>3. ~armed[t]
    <3>1. SUFFICES ASSUME armed[t] PROVE FALSE
      OBVIOUS
    <3>2. offset[t] < pos[t] /\ IsUser(pos[t])
      BY <3>1 DEF Watching
    <3>3. ~IsUser(pos[t] + 1)
      BY <1>1, <2>1, <2>2, <3>2, EndFollows
    <3>4. pos[t] + 1 \in Ends(t)
      BY <1>1, <2>2, <3>1, <3>3 DEF Ends, New, IsUser
    <3> QED
      BY <1>7, <3>4
  <2>4. ASSUME NEW j \in Arms(t)
        PROVE  /\ j = Len(rollout) /\ offset[t] < j /\ IsUser(j)
               /\ tasks[rollout[j].task].text = text[t]
    <3>1. /\ j \in pos[t] + 1 .. Len(rollout) /\ IsUser(j)
          /\ tasks[rollout[j].task].text = text[t]
      BY DEF Arms, New, IsUser
    <3>2. j \in Nat /\ offset[t] < j
      BY <1>1, <2>2, <3>1
    <3>3. ASSUME j < Len(rollout) PROVE FALSE
      <4>1. ~IsUser(j + 1)
        BY <2>1, <3>1, <3>2, <3>3, EndFollows
      <4>2. j + 1 \in Ends(t)
        BY <1>1, <3>1, <3>2, <3>3, <4>1 DEF Ends, New, IsUser
      <4> QED
        BY <1>7, <4>2
    <3> QED
      BY <1>1, <3>1, <3>2, <3>3
  <2>5. wpc'[t] = "watch" /\ offset'[t] = offset[t] /\ text'[t] = text[t]
    BY <1>2, <1>7, <2>1 DEF ReadNew
  <2>6. ASSUME armed'[t]
        PROVE  /\ offset'[t] < pos'[t] /\ rollout'[pos'[t]].kind = "user"
               /\ tasks'[rollout'[pos'[t]].task].text = text'[t]
    <3>1. PICK j \in Arms(t) : TRUE
      BY <2>1, <2>3, <2>6
    <3>2. /\ j = Len(rollout) /\ offset[t] < j /\ rollout[j].kind = "user"
          /\ tasks[rollout[j].task].text = text[t]
      BY <2>4 DEF IsUser
    <3> QED
      BY <2>1, <2>5, <3>2
  <2> QED
    BY <1>1, <1>3, <2>1, <2>2, <2>5, <2>6
<1>8. CASE wpc'[t] = "done" /\ ~armed'[t]
  BY <1>3, <1>8
<1>9. \/ pos'[t] = pos[t] /\ armed'[t] = armed[t] /\ wpc'[t] = wpc[t]
      \/ SendConfirm(t)
      \/ ReadNew(t) /\ Ends(t) = {}
      \/ wpc'[t] = "done" /\ ~armed'[t]
  <2>1. CASE UNCHANGED watchVars
    BY <2>1 DEF watchVars
  <2>2. ASSUME NEW u \in Turn, SendConfirm(u), u # t
        PROVE  pos'[t] = pos[t] /\ armed'[t] = armed[t] /\ wpc'[t] = wpc[t]
    BY <1>0, <2>2 DEF SendConfirm, WatchTypes
  <2>3. ASSUME NEW u \in Turn, ReadNew(u), ~(u = t /\ Ends(t) = {})
        PROVE  \/ pos'[t] = pos[t] /\ armed'[t] = armed[t] /\ wpc'[t] = wpc[t]
               \/ wpc'[t] = "done" /\ ~armed'[t]
    BY <1>0, <2>3 DEF ReadNew, Publish, WatchTypes
  <2>4. ASSUME NEW u \in Turn, WatchFails(u)
        PROVE  \/ pos'[t] = pos[t] /\ armed'[t] = armed[t] /\ wpc'[t] = wpc[t]
               \/ wpc'[t] = "done" /\ ~armed'[t]
    BY <1>0, <2>4 DEF WatchFails, Publish, WatchTypes
  <2>5. UNCHANGED watchVars \/ \E u \in Turn : SendConfirm(u) \/ ReadNew(u) \/ WatchFails(u)
    BY <1>0 DEF Moves
  <2> QED
    BY <2>1, <2>2, <2>3, <2>4, <2>5
<1> QED
  BY <1>5, <1>6, <1>7, <1>8, <1>9

-----------------------------------------------------------------------------
(* What is in a sequence of events.                                        *)

\* What is in a sequence that was appended to.
LEMMA RangeAppend ==
    ASSUME NEW q \in Seq(Event), NEW e \in Event
    PROVE  Range(Append(q, e)) = Range(q) \union {e}
<1>1. /\ Append(q, e) \in Seq(Event) /\ Len(Append(q, e)) = Len(q) + 1 /\ Len(q) \in Nat
      /\ \A i \in 1 .. Len(q) : Append(q, e)[i] = q[i]
      /\ Append(q, e)[Len(q) + 1] = e
  BY AppendProperties, LenProperties
<1>2. DOMAIN q = 1 .. Len(q) /\ DOMAIN Append(q, e) = 1 .. Len(q) + 1
  BY <1>1, LenProperties
<1>3. 1 .. Len(q) + 1 = (1 .. Len(q)) \union {Len(q) + 1}
  BY <1>1
<1> QED
  BY <1>1, <1>2, <1>3 DEF Range

\* What is in a sequence of one.
LEMMA RangeOne == ASSUME NEW e PROVE Range(<<e>>) = {e}
<1>1. DOMAIN <<e>> = {1} /\ <<e>>[1] = e
  OBVIOUS
<1> QED
  BY <1>1 DEF Range

\* The head and the tail are of the sequence.
LEMMA RangeTail ==
    ASSUME NEW q \in Seq(Event), q # <<>>
    PROVE  Range(Tail(q)) \subseteq Range(q) /\ Head(q) \in Range(q) /\ Head(q) = q[1]
<1>1. /\ Tail(q) \in Seq(Event) /\ Len(Tail(q)) = Len(q) - 1 /\ Len(q) \in Nat \ {0}
      /\ \A i \in 1 .. Len(Tail(q)) : Tail(q)[i] = q[i + 1]
  BY HeadTailProperties, EmptySeq
<1>2. DOMAIN q = 1 .. Len(q) /\ DOMAIN Tail(q) = 1 .. Len(q) - 1
  BY <1>1, LenProperties
<1>3. \A i \in 1 .. Len(q) - 1 : i + 1 \in 1 .. Len(q)
  BY <1>1
<1>4. Head(q) = q[1] /\ 1 \in 1 .. Len(q)
  BY <1>1
<1> QED
  BY <1>1, <1>2, <1>3, <1>4 DEF Range

-----------------------------------------------------------------------------
(* A turn is given an answer to its own input.                             *)

\* Whose task it is has begun.
LEMMA TurnsOfTasks ==
    ASSUME TypeOK, Begun, Placed, NEW k \in 1 .. Len(tasks), NEW u \in tasks[k].turns
    PROVE  u \in Turn /\ u <= turnID
<1>1. tasks[k] \in Task
  BY TypeParts, ElementOfSeq DEF TaskTypes
<1> QED
  BY <1>1 DEF Task, Placed, Begun, Early

\* An answer stays one.
LEMMA AnswersStay ==
    ASSUME TypeOK, Begun, Placed, Paired, Watching, [Next]_vars,
           NEW e \in Event, Answers(e)
    PROVE  Answers(e)' /\ (InTime(e) => InTime(e)')
<1> DEFINE t == e.turn
<1>0. /\ Grows /\ t \in Turn /\ e.task \in 1 .. Len(tasks) /\ wpc[t] = "done"
      /\ Len(tasks) \in Nat /\ Len(tasks') \in Nat /\ begun \in Nat
  <2>1. Grows /\ TaskTypes /\ RolloutTypes
    BY EverythingGrows, TypeParts
  <2>2. Len(tasks) \in Nat /\ Len(tasks') \in Nat
    <3>1. CASE Submits
      BY <3>1, AfterSubmission
    <3>2. CASE tasks' = tasks
      BY <2>1, <3>2, LenProperties DEF TaskTypes
    <3> QED
      BY <3>1, <3>2, TaskSteps DEF Pasted
  <2> QED
    BY <2>1, <2>2 DEF Answers, Event, RolloutTypes
<1>1. wpc'[t] = "done" /\ text'[t] = text[t] /\ offset'[t] = offset[t]
  <2>1. spc[t] = "done" /\ t <= turnID
    BY <1>0 DEF Begun
  <2>2. SendGoesOn(t)
    BY <1>0, SendsGoOn
  <2> QED
    BY <1>0, <2>1, <2>2 DEF Grows, SendGoesOn
<1>2. tasks'[e.task] = tasks[e.task] /\ e.task \in 1 .. Len(tasks')
  BY <1>0 DEF Grows
<1>3. PICK u \in Turn : Answer(t, e.task, u)
  BY DEF Answers
<1>4. text'[u] = text[u]
  BY <1>0, <1>3, TurnsOfTasks DEF Answer, Grows
<1>5. ASSUME NEW i \in 1 .. offset[t]
      PROVE  /\ rollout'[i] = rollout[i]
             /\ tasks'[rollout[i].task] = tasks[rollout[i].task]
  <2>1. i \in 1 .. Len(rollout)
    <3>1. offset[t] <= Len(rollout) /\ Len(rollout) \in Nat /\ offset[t] \in Nat
      BY <1>0, TypeParts, LenProperties DEF Watching, RolloutTypes, SendTypes
    <3> QED
      BY <3>1
  <2>2. rollout[i].task \in 1 .. Len(tasks)
    <3>1. rollout[i].task \in 1 .. begun /\ begun <= Len(tasks)
      BY <2>1 DEF Paired
    <3> QED
      BY <1>0, <3>1
  <2> QED
    BY <1>0, <2>1, <2>2 DEF Grows
<1>6. Answer(t, e.task, u)'
  BY <1>1, <1>2, <1>3, <1>4, <1>5 DEF Answer
<1> QED
  BY <1>1, <1>2, <1>3, <1>6 DEF Answers, InTime

\* The output that a watcher publishes gives an answer.
LEMMA NewAnswer ==
    ASSUME TypeOK, Placed, Submitted, Resumed, Paired, Watching,
           NEW t \in Turn, ReadNew(t), NEW m \in Ends(t), \A i \in Ends(t) : m <= i,
           wpc'[t] = "done", NEW e \in Event, e.turn = t, e.task = rollout[m].task
    PROVE  Answers(e)'
<1>1. /\ m \in 2 .. Len(rollout) /\ m - 1 > offset[t] /\ IsUser(m - 1)
      /\ rollout[m - 1].task = rollout[m].task
      /\ tasks[rollout[m].task].text = text[t]
  BY FirstEnd DEF ReadNew
<1>2. /\ tasks' = tasks /\ rollout' = rollout /\ text' = text /\ offset' = offset
  BY DEF ReadNew, cliVars, gateVars, sendVars
<1>3. /\ Len(rollout) \in Nat /\ Len(tasks) \in Nat /\ begun \in Nat /\ offset[t] \in Nat
      /\ text[t] # NoText
  BY TypeParts, LenProperties, TextAssumption
  DEF RolloutTypes, TaskTypes, SendTypes, GateTypes
<1>4. m - 1 \in 1 .. Len(rollout)
  BY <1>1, <1>3
<1>5. e.task \in 1 .. Len(tasks) /\ e.task = rollout[m - 1].task
  <2>1. rollout[m - 1].task \in 1 .. begun /\ begun <= Len(tasks)
    BY <1>4 DEF Paired
  <2> QED
    BY <1>1, <1>3, <2>1
<1>6. ASSUME NEW i \in 1 .. offset[t]
      PROVE  rollout[i].task \in 1 .. Len(tasks) /\ rollout[i].task < e.task
  <2>1. i \in 1 .. Len(rollout) /\ i < m - 1
    BY <1>1, <1>3, <1>4
  <2>2. rollout[i].task \in 1 .. begun /\ begun <= Len(tasks)
    BY <2>1 DEF Paired
  <2>3. rollout[i].task < rollout[m - 1].task
    BY <1>1, <1>4, <2>1 DEF Paired
  <2> QED
    BY <1>3, <1>5, <2>2, <2>3
<1>7. tasks[e.task].turns # {}
  <2>1. CASE resumed
    <3>1. 1 \in 1 .. offset[t]
      BY <1>3, <2>1 DEF Watching, ReadNew
    <3>2. e.task # 1
      BY <1>3, <1>6, <3>1
    <3> QED
      BY <1>5, <3>2 DEF Submitted
  <2>2. CASE ~resumed
    BY <1>5, <2>2 DEF Submitted
  <2> QED
    BY <2>1, <2>2
<1>8. PICK u \in Turn : tasks[e.task].turns = {u} /\ tasks[e.task].text = text[u]
  BY <1>1, <1>3, <1>5, <1>7 DEF Submitted
<1>9. ASSUME NEW i \in 1 .. offset[t] PROVE u \notin tasks[rollout[i].task].turns
  <2>1. SUFFICES ASSUME u \in tasks[rollout[i].task].turns PROVE FALSE
    OBVIOUS
  <2>2. tasks[rollout[i].task].turns \cap tasks[e.task].turns # {}
    BY <1>8, <2>1
  <2>3. rollout[i].task \in 1 .. Len(tasks) /\ rollout[i].task # e.task
    BY <1>3, <1>5, <1>6
  <2> QED
    BY <1>5, <2>2, <2>3 DEF Placed
<1>10. Answer(t, e.task, u)
  BY <1>1, <1>8, <1>9 DEF Answer
<1>11. Answer(t, e.task, u)'
  BY <1>2, <1>10 DEF Answer
<1> QED
  BY <1>2, <1>5, <1>11 DEF Answers

\* Every step keeps Published.
LEMMA NextPublished ==
    /\ TypeOK /\ Begun /\ Placed /\ Submitted /\ Resumed /\ Paired /\ Watching
    /\ Published /\ [Next]_vars
    => Published'
<1> SUFFICES ASSUME TypeOK, Begun, Placed, Submitted, Resumed, Paired, Watching,
                    Published, [Next]_vars,
                    NEW e \in Range(events'), e.kind = "output"
             PROVE  Answers(e)'
  BY DEF Published
<1>0. Moves /\ OutTypes /\ WatchTypes /\ RolloutTypes
  BY OtherMoves, TypeParts
<1>1. ASSUME NEW q \in Seq(Event), NEW x \in Range(q) PROVE x \in Event
  BY RangeOfSeq
<1>2. CASE e \in Range(events)
  BY <1>0, <1>1, <1>2, AnswersStay DEF Published, OutTypes
<1>3. ASSUME NEW t \in Turn, ReadNew(t) PROVE e \in Range(events) \/ Answers(e)'
  <2>1. CASE Ends(t) = {}
    BY <1>3, <2>1 DEF ReadNew
  <2>2. CASE Ends(t) # {}
    <3>1. PICK m \in Ends(t) : /\ \A i \in Ends(t) : m <= i
                               /\ events' = events \o EventsOf(t, rollout[m])
                               /\ wpc' = [wpc EXCEPT ![t] = "done"]
      BY <1>3, <2>2 DEF ReadNew, Publish
    <3>2. rollout[m] \in Record
      <4>1. pos[t] \in Nat /\ rollout \in Seq(Record)
        BY <1>0 DEF WatchTypes, RolloutTypes
      <4>2. m \in 1 .. Len(rollout)
        BY <4>1 DEF Ends, New
      <4> QED
        BY <4>1, <4>2, ElementOfSeq
    <3>3. EventsOf(t, rollout[m]) \in Seq(Event) /\ events \in Seq(Event)
      BY <1>0, <3>2, EventsOfTypes DEF OutTypes
    <3>4. Range(events') = Range(events) \union Range(EventsOf(t, rollout[m]))
      BY <3>1, <3>3, RangeConcatenation
    <3>5. ASSUME NEW x \in Range(EventsOf(t, rollout[m]))
          PROVE  x.turn = t /\ x.task = rollout[m].task
      <4> DEFINE end == [turn |-> t, kind |-> "terminal", task |-> rollout[m].task]
                 out == [end EXCEPT !.kind = "output"]
      <4>1. Range(<<end>>) = {end}
        BY RangeOne
      <4>2. Range(<<out, end>>) = {out, end}
        BY DEF Range
      <4> QED
        BY <3>5, <4>1, <4>2 DEF EventsOf
    <3>6. CASE e \in Range(EventsOf(t, rollout[m]))
      <4>1. e \in Event /\ e.turn = t /\ e.task = rollout[m].task
        BY <1>1, <3>3, <3>5, <3>6
      <4>2. wpc'[t] = "done"
        BY <1>0, <3>1 DEF WatchTypes
      <4> QED
        BY <1>3, <3>1, <4>1, <4>2, NewAnswer
    <3> QED
      BY <3>4, <3>6
  <2> QED
    BY <2>1, <2>2
<1>4. ASSUME NEW t \in Turn, WatchFails(t) PROVE e \in Range(events)
  <2> DEFINE end == [turn |-> t, kind |-> "terminal", task |-> 0]
  <2>1. /\ end \in Event /\ end.kind # "output"
        /\ events' = events \o <<end>>
        /\ events \in Seq(Event)
    BY <1>0, <1>4 DEF WatchFails, Publish, OutTypes, Event
  <2> HIDE DEF end
  <2>2. events \o <<end>> = Append(events, end)
    BY <2>1, AppendIsConcat, Zenon
  <2>3. Range(events') = Range(events) \union {end}
    BY <2>1, <2>2, RangeAppend
  <2> QED
    BY <2>1, <2>3
<1>5. CASE TakeEvent
  <2>1. events' = Tail(events) /\ events # <<>> /\ events \in Seq(Event)
    BY <1>0, <1>5 DEF TakeEvent, OutTypes
  <2> QED
    BY <1>2, <2>1, RangeTail
<1>6. UNCHANGED events \/ TakeEvent \/ \E t \in Turn : ReadNew(t) \/ WatchFails(t)
  BY <1>0 DEF Moves
<1> QED
  BY <1>2, <1>3, <1>4, <1>5, <1>6

\* Every step keeps Passed and Answered.
LEMMA NextAnswered ==
    /\ TypeOK /\ Begun /\ Placed /\ Paired /\ Watching
    /\ Published /\ Passed /\ Answered /\ [Next]_vars
    => Passed' /\ Answered'
<1> SUFFICES ASSUME TypeOK, Begun, Placed, Paired, Watching,
                    Published, Passed, Answered, [Next]_vars
             PROVE  Passed' /\ Answered'
  OBVIOUS
<1>0. Moves /\ OutTypes
  BY OtherMoves, TypeParts
<1>1. ASSUME NEW q \in Seq(Event), NEW x \in Range(q) PROVE x \in Event
  BY RangeOfSeq
<1>2. ASSUME NEW e \in Event, Answers(e), InTime(e) PROVE Answers(e)' /\ InTime(e)'
  BY <1>2, AnswersStay
<1>3. ASSUME NEW e \in Range(taken'), e.kind = "output" PROVE Answers(e)' /\ InTime(e)'
  <2>1. CASE e \in Range(taken)
    BY <1>0, <1>1, <1>2, <1>3, <2>1 DEF Passed, OutTypes
  <2>2. CASE TakeEvent
    <3>1. /\ events \in Seq(Event) /\ events # <<>>
          /\ Head(events) \in Range(events) /\ Head(events) \in Event
      BY <1>0, <1>1, <2>2, RangeTail DEF TakeEvent, OutTypes
    <3>2. CASE taken' = <<>>
      <4>1. Range(<<>>) = {}
        BY DEF Range
      <4> QED
        BY <3>2, <4>1
    <3>3. CASE InFlight(Head(events).turn) /\ taken' = <<Head(events)>>
      <4>1. e = Head(events)
        BY <3>3, RangeOne
      <4>2. Answers(Head(events)) /\ Head(events).turn = turnID
        BY <1>3, <3>1, <3>3, <4>1 DEF Published, InFlight
      <4>3. InTime(Head(events))
        BY <4>2, TurnsOfTasks DEF Answers, InTime
      <4>4. e \in Event /\ Answers(e) /\ InTime(e)
        BY <3>1, <3>3, <4>1, <4>2, <4>3
      <4> QED
        BY <1>2, <4>4
    <3> QED
      BY <2>2, <3>2, <3>3 DEF TakeEvent
  <2>3. CASE SendTaken
    <3>1. Range(<<>>) = {}
      BY DEF Range
    <3> QED
      BY <2>3, <3>1 DEF SendTaken
  <2>4. UNCHANGED taken \/ TakeEvent \/ SendTaken
    BY <1>0 DEF Moves
  <2> QED
    BY <2>1, <2>2, <2>3, <2>4
<1>4. ASSUME NEW e \in Range(sent'), e.kind = "output" PROVE Answers(e)' /\ InTime(e)'
  <2>1. CASE e \in Range(sent)
    BY <1>0, <1>1, <1>2, <1>4, <2>1 DEF Answered, OutTypes
  <2>2. CASE SendTaken
    <3>1. taken[1] \in Range(taken) /\ taken[1] \in Event
      BY <2>2, TakenTypes, RangeTail
    <3>2. Range(sent') = Range(sent) \union {taken[1]}
      BY <1>0, <2>2, <3>1, RangeAppend DEF SendTaken, OutTypes
    <3> QED
      BY <1>2, <1>4, <2>1, <3>1, <3>2 DEF Passed
  <2>3. ASSUME NEW t \in Turn, SendTerminal(t) PROVE e \in Range(sent)
    <3>1. [kind |-> "terminal", turn |-> t, task |-> 0] \in Event
      BY DEF Event
    <3>2. Range(sent') = Range(sent) \union {[kind |-> "terminal", turn |-> t, task |-> 0]}
      BY <1>0, <2>3, <3>1, RangeAppend DEF SendTerminal, OutTypes
    <3> QED
      BY <1>4, <3>2
  <2> QED
    BY <2>1, <2>2, <2>3, SentSteps
<1> QED
  BY <1>3, <1>4 DEF Passed, Answered

\* An answer given in time is one to the input of its turn.
LEMMA AnsweredOwnInput == TypeOK /\ Begun /\ Answered => AnswersOwnInput
<1> SUFFICES ASSUME TypeOK, Begun, Answered,
                    NEW i \in 1 .. Len(sent), sent[i].kind = "output"
             PROVE  /\ tasks[sent[i].task].text = text[sent[i].turn]
                    /\ \/ sent[i].turn \in tasks[sent[i].task].turns
                       \/ Repeats(sent[i].turn)
  BY DEF AnswersOwnInput
<1>1. sent[i] \in Range(sent) /\ sent[i] \in Event
  BY TypeParts, LenProperties, ElementOfSeq DEF OutTypes, Range
<1>2. PICK e \in Event : e = sent[i]
  BY <1>1
<1>3. Answers(e) /\ InTime(e)
  BY <1>1, <1>2 DEF Answered
<1>4. PICK u \in Turn : Answer(e.turn, e.task, u)
  BY <1>3 DEF Answers
<1>5. tasks[e.task].turns = {u} /\ u <= e.turn
  BY <1>3, <1>4 DEF Answer, InTime
<1>6. CASE u = e.turn
  BY <1>2, <1>4, <1>5, <1>6 DEF Answer
<1>7. CASE u # e.turn
  <2>1. u \in 1 .. e.turn - 1
    BY <1>5, <1>7 DEF Turn, Event
  <2>2. /\ tasks[e.task].text = text[e.turn] /\ text[u] = text[e.turn]
        /\ \A j \in 1 .. offset[e.turn] : u \notin tasks[rollout[j].task].turns
    BY <1>4, <1>7 DEF Answer
  <2> QED
    BY <1>2, <2>1, <2>2 DEF Repeats
<1> QED
  BY <1>6, <1>7

-----------------------------------------------------------------------------
(* A turn that ends has one terminal.                                      *)

\* What a step does to the program counter of a turn's interrupt: it is about to send
\* a terminal from its failure to the report.
LEMMA InterruptsGoOn ==
    ASSUME TypeOK, [Next]_vars, NEW t \in Turn, OneReport(t)
    PROVE  /\ ipc[t] # "report" /\ ipc'[t] = "report" => InterruptFails(t) /\ InFlight(t)
           /\ ipc[t] = "report" /\ ipc'[t] # "report" => InterruptReport(t)
<1>1. ipc \in [Turn -> {"none", "check", "esc", "report"}]
  BY TypeParts DEF GateTypes
<1>2. UNCHANGED <<fence, ipc>> \/ Cancel
        \/ \E u \in Turn : Interrupts(u) \/ InterruptFails(u)
  BY OtherMoves DEF Moves
<1>3. CASE Cancel
  <2>1. ipc[t] = "report" => t # turnID
    BY <1>3 DEF Cancel, InFlight, OneReport, Reporters
  <2> QED
    BY <1>1, <1>3, <2>1 DEF Cancel
<1>4. ASSUME NEW u \in Turn, InterruptCheck(u) \/ InterruptEsc(u)
      PROVE  ipc'[t] = "report" <=> ipc[t] = "report"
  BY <1>1, <1>4 DEF InterruptCheck, InterruptEsc, InterruptFinish
<1>5. ASSUME NEW u \in Turn, InterruptReport(u)
      PROVE  u = t \/ ipc'[t] = ipc[t]
  BY <1>1, <1>5 DEF InterruptReport, InterruptFinish
<1>6. ASSUME NEW u \in Turn, InterruptFails(u)
      PROVE  /\ u = t => ipc[t] = "esc" /\ (ipc'[t] = "report" => InFlight(t))
             /\ u # t => ipc'[t] = ipc[t]
  BY <1>1, <1>6 DEF InterruptFails, InterruptFinish
<1>7. ASSUME NEW u \in Turn, InterruptReport(u)
      PROVE  u = t => ipc[t] = "report" /\ ipc'[t] = "none"
  BY <1>1, <1>7 DEF InterruptReport, InterruptFinish
<1> QED
  BY <1>2, <1>3, <1>4, <1>5, <1>6, <1>7 DEF Interrupts

\* The turn ends, and g is to send its terminal.
Ended(t, g) ==
    /\ t \notin ended /\ t \in ended' /\ Terminals(t)' = Terminals(t)
    /\ Reporters(t)' = Reporters(t) \union {g}

\* g sends the terminal of the turn.
Reports(t, g) ==
    /\ g \in Reporters(t) /\ Reporters(t)' = Reporters(t) \ {g}
    /\ t \in ended' <=> t \in ended
    /\ Terminals(t)' = Terminals(t) \union {Len(sent) + 1}

Stays(t) ==
    /\ t \in ended' <=> t \in ended
    /\ Terminals(t)' = Terminals(t) /\ Reporters(t)' = Reporters(t)

\* Sending an event.
LEMMA TerminalsAppend ==
    ASSUME TypeOK, NEW t \in Turn, NEW e \in Event, sent' = Append(sent, e)
    PROVE  Terminals(t)' = IF IsTerminal(e, t) THEN Terminals(t) \union {Len(sent) + 1}
                           ELSE Terminals(t)
<1>1. sent \in Seq(Event) /\ Len(sent) \in Nat
  BY TypeParts, LenProperties DEF OutTypes
<1>2. /\ Len(sent') = Len(sent) + 1 /\ sent'[Len(sent) + 1] = e
      /\ \A i \in 1 .. Len(sent) : sent'[i] = sent[i]
  BY <1>1, AppendProperties
<1>3. 1 .. Len(sent') = (1 .. Len(sent)) \union {Len(sent) + 1}
  BY <1>1, <1>2
<1> QED
  BY <1>1, <1>2, <1>3 DEF Terminals, IsTerminal

\* The terminal of a turn that failed is one.
LEMMA FailureReported ==
    ASSUME TypeOK, NEW t \in Turn, NEW u \in Turn, SendTerminal(u)
    PROVE  Terminals(t)' = IF t = u THEN Terminals(t) \union {Len(sent) + 1} ELSE Terminals(t)
<1> DEFINE e == [kind |-> "terminal", turn |-> u, task |-> 0]
<1>1. e \in Event /\ sent' = Append(sent, e) /\ (IsTerminal(e, t) <=> t = u)
  BY DEF SendTerminal, Event, IsTerminal
<1> HIDE DEF e
<1> QED
  BY <1>1, TerminalsAppend

\* What a step does to the end of a turn and to its terminal.
LEMMA ReportSteps ==
    ASSUME TypeOK, Begun, [Next]_vars, NEW t \in Turn, OneReport(t)
    PROVE  Stays(t) \/ \E g : Ended(t, g) \/ Reports(t, g)
<1>0. /\ GateTypes /\ SendTypes /\ OutTypes /\ Moves /\ SendGoesOn(t)
  BY TypeParts, OtherMoves, SendsGoOn
<1>1. CASE SendFails(t) /\ InFlight(t)
  <2>1. /\ t \notin ended /\ ended' = ended \union {t} /\ UNCHANGED <<sent, taken, ipc>>
        /\ spc'[t] = "report"
    BY <1>0, <1>1 DEF SendFails, EndTurn, InFlight, Step, SendTypes, outVars
  <2>2. Ended(t, "sender")
    BY <2>1 DEF Ended, Terminals, Reporters
  <2> QED
    BY <2>2
<1>2. CASE InterruptFails(t) /\ InFlight(t)
  <2>1. /\ t \notin ended /\ ended' = ended \union {t} /\ UNCHANGED <<sent, taken, spc>>
        /\ ipc'[t] = "report"
    BY <1>0, <1>2 DEF InterruptFails, EndTurn, InFlight, GateTypes, outVars, sendVars
  <2>2. Ended(t, "interrupt")
    BY <2>1 DEF Ended, Terminals, Reporters
  <2> QED
    BY <2>2
<1>3. CASE SendReport(t)
  <2>1. /\ UNCHANGED <<ended, taken, ipc>> /\ spc[t] = "report" /\ spc'[t] = "done"
        /\ SendTerminal(t)
    BY <1>0, <1>3 DEF SendReport, Step, SendTypes, gateVars
  <2>2. Terminals(t)' = Terminals(t) \union {Len(sent) + 1}
    BY <2>1, FailureReported
  <2>3. Reports(t, "sender")
    BY <2>1, <2>2 DEF Reports, Reporters
  <2> QED
    BY <2>3
<1>4. CASE InterruptReport(t)
  <2>1. /\ UNCHANGED <<ended, taken, spc>> /\ ipc[t] = "report" /\ ipc'[t] = "none"
        /\ SendTerminal(t)
    BY <1>0, <1>4 DEF InterruptReport, InterruptFinish, GateTypes, sendVars
  <2>2. Terminals(t)' = Terminals(t) \union {Len(sent) + 1}
    BY <2>1, FailureReported
  <2>3. Reports(t, "interrupt")
    BY <2>1, <2>2 DEF Reports, Reporters
  <2> QED
    BY <2>3
<1>5. CASE TakeEvent
  <2> DEFINE e == Head(events)
  <2>1. /\ e \in Event /\ UNCHANGED <<sent, spc, ipc>> /\ taken = <<>>
        /\ taken' = IF InFlight(e.turn) THEN <<e>> ELSE <<>>
        /\ e.kind = "terminal" => EndTurn(e.turn)
        /\ e.kind # "terminal" => ended' = ended
    BY <1>5, TakenTypes DEF TakeEvent, sendVars
  <2> HIDE DEF e
  <2>2. Terminals(t)' = Terminals(t)
    BY <2>1 DEF Terminals
  <2>3. CASE InFlight(t) /\ IsTerminal(e, t)
    <3>1. taken' = <<e>> /\ ended' = ended \union {t} /\ t \notin ended
      BY <2>1, <2>3 DEF IsTerminal, EndTurn, InFlight
    <3>2. taken' # <<>> /\ taken'[1] = e
      BY <3>1
    <3>3. Reporters(t)' = Reporters(t) \union {"reader"}
      BY <2>1, <2>3, <3>2 DEF Reporters
    <3> QED
      BY <2>2, <3>1, <3>3 DEF Ended
  <2>4. CASE ~(InFlight(t) /\ IsTerminal(e, t))
    <3>1. t \in ended' <=> t \in ended
      BY <2>1, <2>4 DEF IsTerminal, EndTurn
    <3>2. ~(taken' # <<>> /\ IsTerminal(taken'[1], t))
      <4>1. <<e>>[1] = e
        OBVIOUS
      <4> QED
        BY <2>1, <2>4, <4>1 DEF IsTerminal
    <3>3. Reporters(t)' = Reporters(t)
      BY <2>1, <3>2 DEF Reporters, IsTerminal
    <3> QED
      BY <2>2, <3>1, <3>3 DEF Stays
  <2> QED
    BY <2>3, <2>4
<1>6. CASE SendTaken
  <2>1. /\ UNCHANGED <<ended, spc, ipc>> /\ taken # <<>> /\ taken' = <<>>
        /\ taken[1] \in Event /\ sent' = Append(sent, taken[1])
    BY <1>6, TakenTypes DEF SendTaken, gateVars, sendVars
  <2>2. CASE IsTerminal(taken[1], t)
    <3>1. Terminals(t)' = Terminals(t) \union {Len(sent) + 1}
      BY <2>1, <2>2, TerminalsAppend
    <3>2. "reader" \in Reporters(t) /\ Reporters(t)' = Reporters(t) \ {"reader"}
      BY <2>1, <2>2 DEF Reporters
    <3> QED
      BY <2>1, <3>1, <3>2 DEF Reports
  <2>3. CASE ~IsTerminal(taken[1], t)
    <3>1. Terminals(t)' = Terminals(t)
      BY <2>1, <2>3, TerminalsAppend
    <3>2. Reporters(t)' = Reporters(t)
      BY <2>1, <2>3 DEF Reporters
    <3> QED
      BY <2>1, <3>1, <3>2 DEF Stays
  <2> QED
    BY <2>2, <2>3
<1>7. CASE /\ ~(SendFails(t) /\ InFlight(t)) /\ ~(InterruptFails(t) /\ InFlight(t))
           /\ ~SendReport(t) /\ ~InterruptReport(t) /\ ~TakeEvent /\ ~SendTaken
  <2>1. /\ spc'[t] = "report" <=> spc[t] = "report"
        /\ ipc'[t] = "report" <=> ipc[t] = "report"
    BY <1>0, <1>7, InterruptsGoOn DEF SendGoesOn
  <2>2. taken' = taken
    BY <1>0, <1>7 DEF Moves
  <2>3. Reporters(t)' = Reporters(t)
    BY <2>1, <2>2 DEF Reporters
  <2>4. t \in ended' <=> t \in ended
    <3>1. ended' = ended \/ \E u \in Turn : InterruptFails(u) \/ SendFails(u)
      BY <1>0, <1>7 DEF Moves, EndSteps
    <3>2. ASSUME NEW u \in Turn, InterruptFails(u) \/ SendFails(u)
          PROVE  t \in ended' <=> t \in ended
      BY <1>7, <3>2 DEF InterruptFails, SendFails, EndTurn
    <3> QED
      BY <3>1, <3>2
  <2>5. Terminals(t)' = Terminals(t)
    <3>1. sent' = sent \/ \E u \in Turn : InterruptReport(u) \/ SendReport(u)
      BY <1>0, <1>7 DEF Moves
    <3>2. CASE sent' = sent
      BY <3>2 DEF Terminals
    <3>3. ASSUME NEW u \in Turn, InterruptReport(u) \/ SendReport(u)
          PROVE  Terminals(t)' = Terminals(t)
      <4>1. u # t /\ SendTerminal(u)
        BY <1>7, <3>3 DEF InterruptReport, SendReport
      <4> QED
        BY <4>1, FailureReported
    <3> QED
      BY <3>1, <3>2, <3>3
  <2> QED
    BY <2>3, <2>4, <2>5 DEF Stays
<1> QED
  BY <1>1, <1>2, <1>3, <1>4, <1>5, <1>6, <1>7

\* Every step keeps EndsReported.
LEMMA NextReported == TypeOK /\ Begun /\ EndsReported /\ [Next]_vars => EndsReported'
<1> SUFFICES ASSUME TypeOK, Begun, EndsReported, [Next]_vars, NEW t \in Turn
             PROVE  OneReport(t)'
  BY DEF EndsReported
<1>1. OneReport(t)
  BY DEF EndsReported
<1>2. CASE Stays(t)
  BY <1>1, <1>2 DEF OneReport, Stays
<1>3. ASSUME NEW g, Ended(t, g) PROVE OneReport(t)'
  <2>1. Reporters(t)' = {g}
    BY <1>1, <1>3 DEF OneReport, Ended
  <2> QED
    BY <1>1, <1>3, <2>1 DEF OneReport, Ended
<1>4. ASSUME NEW g, Reports(t, g) PROVE OneReport(t)'
  <2>1. t \in ended /\ Terminals(t) = {} /\ Reporters(t) = {g}
    BY <1>1, <1>4 DEF OneReport, Reports
  <2>2. Reporters(t)' = {} /\ Terminals(t)' = {Len(sent) + 1}
    BY <1>4, <2>1 DEF Reports
  <2> QED
    BY <1>4, <2>1, <2>2 DEF OneReport, Reports
<1> QED
  BY <1>1, <1>2, <1>3, <1>4, ReportSteps

\* Who has one terminal has one.
LEMMA ReportedOnce == EndsReported => EachEndReportedOnce
<1> SUFFICES ASSUME EndsReported, NEW t \in Turn
             PROVE  Cardinality(Terminals(t)) + Cardinality(Reporters(t))
                        = IF t \in ended THEN 1 ELSE 0
  BY DEF EachEndReportedOnce
<1>1. OneReport(t)
  BY DEF EndsReported
<1>2. Cardinality({}) = 0 /\ \A x : Cardinality({x}) = 1
  BY FS_EmptySet, FS_Singleton
<1>3. CASE t \notin ended
  BY <1>1, <1>2, <1>3 DEF OneReport
<1>4. CASE t \in ended /\ Terminals(t) = {}
  <2>1. PICK g : Reporters(t) = {g}
    <3>1. ~ \E i : {} = {i}
      OBVIOUS
    <3> QED
      BY <1>1, <1>4, <3>1 DEF OneReport
  <2>2. Cardinality(Reporters(t)) = 1 /\ Cardinality(Terminals(t)) = 0
    BY <1>2, <1>4, <2>1
  <2> QED
    BY <1>4, <2>2
<1>5. CASE t \in ended /\ Terminals(t) # {}
  <2>1. Reporters(t) = {} /\ \E i : Terminals(t) = {i}
    BY <1>1, <1>5 DEF OneReport
  <2>2. Cardinality(Reporters(t)) = 0 /\ Cardinality(Terminals(t)) = 1
    BY <1>2, <2>1
  <2> QED
    BY <1>5, <2>2
<1> QED
  BY <1>3, <1>4, <1>5

-----------------------------------------------------------------------------
(* The invariant, and what follows from it.                                *)

\* The first state satisfies the invariant.
LEMMA InitIInv == Init => IInv
<1> SUFFICES ASSUME Init PROVE IInv
  OBVIOUS
<1>1. TypeOK
  BY InitTypes
<1>2. Begun /\ Pressed
  BY DEF Init, Begun, Pressed, Early
<1>3. OwnEntries /\ ConfirmedHere
  BY DEF Init, OwnEntries, ConfirmedHere
<1>4. Published /\ Passed /\ Answered /\ EndsReported
  <2>1. Range(<<>>) = {} /\ Len(<<>>) = 0
    BY DEF Range
  <2> QED
    BY <2>1 DEF Init, Published, Passed, Answered, EndsReported, OneReport, Terminals,
               Reporters
<1>5. CASE ~resumed
  <2>1. /\ composer = {} /\ running = 0 /\ tasks = <<>> /\ begun = 0 /\ logged = 0
        /\ rollout = <<>> /\ wpc = [t \in Turn |-> "none"] /\ spc = [t \in Turn |-> "none"]
        /\ armed = [t \in Turn |-> FALSE]
    BY <1>5 DEF Init
  <2>2. Len(<<>>) = 0
    OBVIOUS
  <2>3. Placed /\ Submitted
    BY <2>1, <2>2 DEF Placed, Submitted
  <2>4. Resumed /\ Paired /\ Last
    BY <1>5, <2>1, <2>2 DEF Resumed, Paired, Last
  <2>5. Watching
    BY <2>1 DEF Watching
  <2> QED
    BY <1>1, <1>2, <1>3, <1>4, <2>3, <2>4, <2>5 DEF IInv
<1>6. CASE resumed
  <2>1. /\ composer = {} /\ running = 0 /\ begun = 1 /\ logged = 1
        /\ tasks = <<[text |-> CHOOSE x \in Text : TRUE, turns |-> {}]>>
        /\ wpc = [t \in Turn |-> "none"] /\ spc = [t \in Turn |-> "none"]
        /\ armed = [t \in Turn |-> FALSE]
        /\ \E cut \in BOOLEAN :
                rollout = <<[kind |-> "user", task |-> 1]>>
                            \o IF cut THEN <<>> ELSE <<[kind |-> "done", task |-> 1]>>
    BY <1>6 DEF Init
  <2>2. Len(tasks) = 1 /\ tasks[1].turns = {} /\ tasks # <<>>
    BY <2>1
  <2>3. Placed /\ Submitted
    <3>1. \A k \in 1 .. Len(tasks) : k = 1 /\ tasks[k].turns = {}
      BY <2>2
    <3> QED
      BY <1>6, <2>1, <3>1 DEF Placed, Submitted
  <2> DEFINE user == [kind |-> "user", task |-> 1]
             done == [kind |-> "done", task |-> 1]
  <2>4. /\ rollout # <<>> /\ rollout[1] = user
        /\ Len(rollout) = 1 \/ (Len(rollout) = 2 /\ rollout[2] = done)
    <3>1. PICK cut \in BOOLEAN : rollout = <<user>> \o IF cut THEN <<>> ELSE <<done>>
      BY <2>1
    <3>2. user \in Record /\ done \in Record
      BY DEF Record
    <3> HIDE DEF user, done
    <3>3. <<user>> \in Seq(Record) /\ <<done>> \in Seq(Record)
      BY <3>2
    <3>4. CASE cut
      <4>1. rollout = <<user>>
        BY <3>1, <3>3, <3>4, ConcatEmptySeq
      <4> QED
        BY <4>1
    <3>5. CASE ~cut
      <4>1. rollout = <<user>> \o <<done>>
        BY <3>1, <3>5
      <4>2. /\ Len(<<user>>) = 1 /\ Len(<<done>>) = 1
            /\ <<user>>[1] = user /\ <<done>>[1] = done
        OBVIOUS
      <4>3. /\ Len(rollout) = 2 /\ rollout \in Seq(Record)
            /\ rollout[1] = user /\ rollout[2] = done
        <5>1. /\ <<user>> \o <<done>> \in Seq(Record)
              /\ Len(<<user>> \o <<done>>) = Len(<<user>>) + Len(<<done>>)
              /\ \A i \in 1 .. Len(<<user>>) + Len(<<done>>) :
                    (<<user>> \o <<done>>)[i] =
                        IF i <= Len(<<user>>) THEN <<user>>[i] ELSE <<done>>[i - Len(<<user>>)]
          BY <3>3, ConcatProperties, Zenon
        <5> DEFINE q == <<user>> \o <<done>>
                   u == <<user>>
                   d == <<done>>
        <5>2. /\ q \in Seq(Record) /\ Len(q) = 2 /\ rollout = q
              /\ q[1] = u[1] /\ q[2] = d[1]
          <6>1. Len(u) = 1 /\ Len(d) = 1 /\ rollout = q
            BY <4>1, <4>2
          <6> HIDE DEF q, u, d
          <6>2. /\ q \in Seq(Record) /\ Len(q) = Len(u) + Len(d)
                /\ \A i \in 1 .. Len(u) + Len(d) :
                    q[i] = IF i <= Len(u) THEN u[i] ELSE d[i - Len(u)]
            BY <5>1 DEF q, u, d
          <6> QED
            BY <6>1, <6>2
        <5> QED
          BY <4>2, <5>2
      <4>4. rollout # <<>>
        <5>1. Len(<<>>) = 0
          OBVIOUS
        <5> QED
          BY <4>3, <5>1
      <4> QED
        BY <4>3, <4>4
    <3> QED
      BY <3>4, <3>5
  <2>5. Paired /\ Last
    <3>1. CASE Len(rollout) = 1
      BY <1>6, <2>1, <2>2, <2>4, <3>1 DEF Paired, Last, IsUser
    <3>2. CASE Len(rollout) = 2 /\ rollout[2] = done
      BY <1>6, <2>1, <2>2, <2>4, <3>2 DEF Paired, Last, IsUser
    <3> QED
      BY <2>4, <3>1, <3>2
  <2>6. Resumed
    BY <2>1, <2>2, <2>4 DEF Resumed
  <2>7. Watching
    BY <2>1 DEF Watching
  <2> QED
    BY <1>1, <1>2, <1>3, <1>4, <2>3, <2>5, <2>6, <2>7 DEF IInv
<1> QED
  BY <1>5, <1>6

\* Every step keeps it.
LEMMA NextIInv == IInv /\ [Next]_vars => IInv'
<1> SUFFICES ASSUME IInv, [Next]_vars PROVE IInv'
  OBVIOUS
<1>1. TypeOK' /\ Pressed'
  BY NextTypes DEF IInv
<1>2. Begun' /\ Placed' /\ Submitted' /\ Resumed'
  BY NextBegun, NextPlaced, NextSubmitted, NextResumed DEF IInv
<1>3. OwnEntries' /\ ConfirmedHere'
  BY <1>1, NextOwnEntries, NextConfirmedHere DEF IInv
<1>4. Paired' /\ Last' /\ Watching'
  BY <1>1, NextPaired, NextWatching DEF IInv
<1>5. Published' /\ Passed' /\ Answered'
  BY NextPublished, NextAnswered DEF IInv
<1>6. EndsReported'
  BY NextReported DEF IInv
<1> QED
  BY <1>1, <1>2, <1>3, <1>4, <1>5, <1>6 DEF IInv

\* The invariant holds in every reachable state.
THEOREM CodexInvariant == Spec => []IInv
  BY InitIInv, NextIInv, PTL DEF Spec

\* Types, and Enter is pressed at most MaxAttempts times for an input.
THEOREM CodexTypeOK == Spec => []TypeOK
<1>1. IInv => TypeOK
  BY DEF IInv
<1> QED
  BY <1>1, CodexInvariant, PTL

\* Pressing Enter again does not submit an input twice.
THEOREM SubmittedOnceTheorem == Spec => []SubmittedOnce
<1>1. IInv => SubmittedOnce
  BY PlacedOnce DEF IInv
<1> QED
  BY <1>1, CodexInvariant, PTL

\* A turn is confirmed only when its own Codex was given its text.
THEOREM ConfirmedHereTheorem == Spec => []ConfirmedHere
<1>1. IInv => ConfirmedHere
  BY DEF IInv
<1> QED
  BY <1>1, CodexInvariant, PTL

\* The answer sent for a turn is one to its input.
THEOREM AnswersOwnInputTheorem == Spec => []AnswersOwnInput
<1>1. IInv => AnswersOwnInput
  BY AnsweredOwnInput DEF IInv
<1> QED
  BY <1>1, CodexInvariant, PTL

\* Whoever ends a turn, it has one terminal, and a turn that has not ended has none.
THEOREM EachEndReportedOnceTheorem == Spec => []EachEndReportedOnce
<1>1. IInv => EachEndReportedOnce
  BY ReportedOnce DEF IInv
<1> QED
  BY <1>1, CodexInvariant, PTL
=============================================================================
