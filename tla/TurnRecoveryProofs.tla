------------------------- MODULE TurnRecoveryProofs -------------------------
(***************************************************************************)
(* Proofs about TurnRecovery, for any number of workers, senders and turns *)
(* and any bounds.  TypeOK is proved by parts (Types).  What the session's *)
(* turn gate publishes rests on GateSteps: whatever goroutine takes a      *)
(* step, the step begins a turn, completes the active one, or leaves token *)
(* and terminals alone.  The fences of the worker (InterruptFenced) and of *)
(* the daemon (FenceOfCurrentWorker) are inductive by themselves.          *)
(***************************************************************************)
EXTENDS TurnRecovery, TLAPS

-----------------------------------------------------------------------------
(* TypeOK by parts.  CancelTypes says besides that the goroutine of a turn *)
(* that has not been cancelled has not started.                            *)

SessionTypes ==
    /\ closed \in BOOLEAN
    /\ status \in {"CREATED", "SPAWNING", "READY", "RECOVERING", "CLOSED"}
    /\ worker \in Handle \union {Nil}
    /\ pending \in Handle \union {Nil}
    /\ faults \in 0 .. MaxFaults

TurnTypes ==
    /\ active \in BOOLEAN /\ cancelling \in BOOLEAN
    /\ token \in 0 .. MaxTurns
    /\ terminals \in Seq(Terminal)

LinkTypes ==
    /\ proc \in [Handle -> {"unused", "running", "stopping", "exited"}]
    /\ link \in [Handle -> {"none", "open", "broken"}]
    /\ ready \in [Handle -> BOOLEAN]

MessageTypes ==
    /\ down \in [Handle -> Seq(Message)]
    /\ up \in [Handle -> Seq(Message)]
    /\ got \in [Handle -> Seq(Message)]

GateTypes ==
    /\ inflight \in [Handle -> BOOLEAN]
    /\ turnID \in [Handle -> 0 .. MaxTurns]
    /\ asked \in [Handle -> BOOLEAN]
    /\ fence \in [Handle -> BOOLEAN]
    /\ ipc \in [Handle -> {"none", "check", "esc", "finish"}]
    /\ iturn \in [Handle -> 0 .. MaxTurns]

SendTypes ==
    /\ spc \in [Sender -> {"idle", "wait", "write", "fail"}]
    /\ shandle \in [Sender -> Handle \union {Nil}]
    /\ sturn \in [Sender -> 0 .. MaxTurns]

CancelTypes ==
    /\ checked \in BOOLEAN
    /\ cpc \in [Turn -> {"none", "look", "write", "failed", "recheck", "giveup", "done"}]
    /\ chandle \in [Turn -> Handle \union {Nil}]
    /\ ctries \in [Turn -> 0 .. MaxTries]
    /\ \A t \in Turn : ctries[t] = MaxTries => cpc[t] = "giveup"
    /\ \A t \in Turn :
        t > token \/ (t = token /\ active /\ ~cancelling) => cpc[t] = "none"

WatchTypes ==
    /\ wpc \in [Turn -> {"none", "armed", "mark", "write", "check", "done"}]
    /\ whandle \in [Turn -> Handle \union {Nil}]
    /\ wtries \in [Turn -> 0 .. MaxTries]
    /\ condemned \subseteq Handle

Types ==
    /\ SessionTypes /\ TurnTypes /\ LinkTypes /\ MessageTypes
    /\ GateTypes /\ SendTypes /\ CancelTypes /\ WatchTypes

LEMMA TypesTypeOK == Types => TypeOK
BY DEF Types, TypeOK, SessionTypes, TurnTypes, LinkTypes, MessageTypes,
       GateTypes, SendTypes, CancelTypes, WatchTypes

LEMMA Bounds ==
    /\ 0 \in 0 .. MaxTurns /\ 0 \in 0 .. MaxTries /\ 0 \in 0 .. MaxFaults
    /\ MaxTries # 0
    /\ \A t \in Turn : t \in 0 .. MaxTurns
BY BoundAssumption DEF BoundAssumption, Turn

\* Init, variable by variable where a type is not a type of functions.
LEMMA TypesInit == Init => Types
<1> SUFFICES ASSUME Init PROVE Types
  OBVIOUS
<1>1. /\ closed = FALSE /\ status = "CREATED" /\ worker = Nil /\ pending = Nil
      /\ faults = 0 /\ condemned = {} /\ checked = FALSE
      /\ active = FALSE /\ cancelling = FALSE /\ token = 0 /\ terminals = <<>>
  BY DEF Init
<1>2. SessionTypes
  BY <1>1, Bounds DEF SessionTypes
<1>3. TurnTypes
  <2>1. terminals \in Seq(Terminal)
    BY <1>1
  <2> QED
    BY <1>1, <2>1, Bounds DEF TurnTypes
<1>4. LinkTypes
  BY DEF Init, LinkTypes
<1>5. MessageTypes
  BY DEF Init, MessageTypes
<1>6. GateTypes
  BY Bounds DEF Init, GateTypes
<1>7. SendTypes
  BY Bounds DEF Init, SendTypes
<1>8. CancelTypes
  <2>1. /\ cpc = [t \in Turn |-> "none"]
        /\ chandle = [t \in Turn |-> Nil]
        /\ ctries = [t \in Turn |-> 0]
    BY DEF Init
  <2> QED
    BY <1>1, <2>1, Bounds DEF CancelTypes
<1>9. WatchTypes
  BY Bounds DEF Init, WatchTypes
<1> QED
  BY <1>2, <1>3, <1>4, <1>5, <1>6, <1>7, <1>8, <1>9 DEF Types

-----------------------------------------------------------------------------
(* What the operators of the model keep.                                   *)

LEMMA MsgType ==
    ASSUME NEW kind \in {"ready", "mark", "terminal", "input", "cancel", "restart"},
           NEW t \in 0 .. MaxTurns
    PROVE  Msg(kind, t) \in Message
BY DEF Msg, Message

LEMMA HeadType ==
    ASSUME NEW f \in [Handle -> Seq(Message)], NEW h \in Handle, f[h] # <<>>
    PROVE  /\ Head(f[h]) \in Message
           /\ Head(f[h]).turn \in 0 .. MaxTurns
           /\ Tail(f[h]) \in Seq(Message)
<1>1. Head(f[h]) \in Message /\ Tail(f[h]) \in Seq(Message)
  OBVIOUS
<1> QED
  BY <1>1 DEF Message

LEMMA AppendType ==
    ASSUME NEW f \in [Handle -> Seq(Message)], NEW h, NEW m \in Message
    PROVE  [f EXCEPT ![h] = Append(@, m)] \in [Handle -> Seq(Message)]
<1>1. CASE h \in Handle
  BY <1>1
<1>2. CASE h \notin Handle
  <2>1. [f EXCEPT ![h] = Append(@, m)] = f
    BY <1>2
  <2> QED
    BY <2>1
<1> QED
  BY <1>1, <1>2

LEMMA SentType ==
    ASSUME MessageTypes, NEW h, NEW t \in 0 .. MaxTurns,
           NEW kind \in {"input", "cancel", "restart"}, Sent(h, kind, t)
    PROVE  down' \in [Handle -> Seq(Message)]
<1>1. Msg(kind, t) \in Message
  BY MsgType
<1> QED
  BY <1>1, AppendType DEF Sent, MessageTypes

LEMMA DiesType ==
    ASSUME MessageTypes, GateTypes, NEW h \in Handle, Dies(h)
    PROVE  GateTypes' /\ down' \in [Handle -> Seq(Message)]
<1>1. GateTypes'
  BY Bounds DEF Dies, GateTypes
<1>2. down' \in [Handle -> Seq(Message)]
  BY DEF Dies, MessageTypes
<1> QED
  BY <1>1, <1>2

LEMMA CompletesType ==
    ASSUME MessageTypes, GateTypes, NEW h \in Handle, WorkerCompletes(h)
    PROVE  up' \in [Handle -> Seq(Message)]
BY MsgType, AppendType DEF WorkerCompletes, MessageTypes, GateTypes

LEMMA CompleteType ==
    ASSUME TurnTypes, NEW about \in 0 .. MaxTurns, NEW by \in Handle \union {"daemon"},
           CompleteTurn(about, by)
    PROVE  TurnTypes'
<1>1. CASE active
  <2>1. [ends |-> token, about |-> about, by |-> by] \in Terminal
    BY DEF TurnTypes, Terminal
  <2>2. terminals' \in Seq(Terminal)
    BY <1>1, <2>1 DEF CompleteTurn, TurnTypes
  <2> QED
    BY <1>1, <2>2 DEF CompleteTurn, TurnTypes
<1>2. CASE ~active
  BY <1>2 DEF CompleteTurn, TurnTypes, turnVars
<1> QED
  BY <1>1, <1>2

LEMMA NextToken ==
    ASSUME TurnTypes, token < MaxTurns
    PROVE  token + 1 \in 0 .. MaxTurns
BY BoundAssumption DEF BoundAssumption, TurnTypes

LEMMA FailType ==
    ASSUME TurnTypes, NEW t \in Turn, FailCancellingTurn(t)
    PROVE  TurnTypes'
BY CompleteType, Bounds DEF FailCancellingTurn, TurnTypes, turnVars

\* Ending a turn opens no turn: nothing that has not started may start.
LEMMA TurnOver ==
    ASSUME NEW t \in Turn, FailCancellingTurn(t), TurnTypes
    PROVE  token' = token /\ (active' => UNCHANGED <<active, cancelling>>)
BY DEF FailCancellingTurn, CompleteTurn, turnVars, TurnTypes

LEMMA CancelReturnType ==
    ASSUME TurnTypes, CancelTypes, NEW t \in Turn, CancelReturn(t),
           cpc[t] # "none", checked' = checked, token' = token,
           active' => UNCHANGED <<active, cancelling>>
    PROVE  CancelTypes'
BY Bounds DEF CancelReturn, CancelTypes, TurnTypes, Turn

LEMMA CancelAgainType ==
    ASSUME TurnTypes, CancelTypes, NEW t \in Turn, CancelAgain(t),
           cpc[t] \notin {"none", "giveup"}, UNCHANGED <<checked, turnVars>>
    PROVE  CancelTypes'
<1>1. ctries[t] \in 0 .. MaxTries /\ ctries[t] # MaxTries
  BY DEF CancelTypes
<1>2. ctries[t] + 1 \in 0 .. MaxTries
  BY <1>1, BoundAssumption DEF BoundAssumption
<1>3. ctries' \in [Turn -> 0 .. MaxTries]
  BY <1>2 DEF CancelAgain, CancelTypes
<1>4. chandle' \in [Turn -> Handle \union {Nil}]
  BY DEF CancelAgain, CancelTypes
<1>5. cpc' \in [Turn -> {"none", "look", "write", "failed", "recheck", "giveup", "done"}]
  BY DEF CancelAgain, CancelTypes
<1>6. ASSUME NEW u \in Turn, ctries'[u] = MaxTries PROVE cpc'[u] = "giveup"
  BY <1>1, <1>6, BoundAssumption DEF CancelAgain, CancelTypes, BoundAssumption
<1>7. ASSUME NEW u \in Turn, u > token \/ (u = token /\ active /\ ~cancelling)
      PROVE  cpc'[u] = "none"
  BY <1>7 DEF CancelAgain, CancelTypes
<1> QED
  BY <1>3, <1>4, <1>5, <1>6, <1>7 DEF CancelTypes, turnVars

-----------------------------------------------------------------------------
(* The step.                                                               *)

LEMMA TypesStep == Types /\ [Next]_vars => Types'
<1> SUFFICES ASSUME Types, [Next]_vars PROVE Types'
  OBVIOUS
<1> USE DEF Types, sessionVars, turnVars, linkVars, gateVars, sendVars, cancelVars, watchVars
<1>1. ASSUME NEW fresh \in BOOLEAN, Spawn(fresh) PROVE Types'
  <2>1. /\ TurnTypes' /\ MessageTypes' /\ GateTypes' /\ SendTypes'
        /\ CancelTypes' /\ WatchTypes'
    BY <1>1
       DEF Spawn, TurnTypes, MessageTypes, GateTypes, SendTypes,
           CancelTypes, WatchTypes
  <2>2. SessionTypes'
    BY <1>1, BoundAssumption
       DEF Spawn, Start, StartFails, Fault, SessionTypes,
           BoundAssumption
  <2>3. LinkTypes'
    BY <1>1 DEF Spawn, Start, StartFails, LinkTypes
  <2> QED
    BY <2>1, <2>2, <2>3
<1>2. ASSUME NEW h \in Handle, Discard(h) PROVE Types'
  <2>1. /\ SessionTypes' /\ TurnTypes' /\ SendTypes' /\ CancelTypes'
        /\ WatchTypes'
    BY <1>2
       DEF Discard, SessionTypes, TurnTypes, SendTypes, CancelTypes,
           WatchTypes
  <2>2. LinkTypes'
    BY <1>2 DEF Discard, Dies, LinkTypes
  <2>3. MessageTypes'
    BY <1>2, DiesType DEF Discard, MessageTypes
  <2>4. GateTypes'
    BY <1>2, DiesType DEF Discard
  <2> QED
    BY <2>1, <2>2, <2>3, <2>4
<1>3. ASSUME NEW h \in Handle, Connect(h) PROVE Types'
  <2>1. /\ SessionTypes' /\ TurnTypes' /\ GateTypes' /\ SendTypes'
        /\ CancelTypes' /\ WatchTypes'
    BY <1>3
       DEF Connect, SessionTypes, TurnTypes, GateTypes, SendTypes,
           CancelTypes, WatchTypes
  <2>2. LinkTypes'
    BY <1>3 DEF Connect, Msg, Message, LinkTypes
  <2>3. MessageTypes'
    <3>1. Msg("ready", 0) \in Message
      BY MsgType, Bounds
    <3>2. <<Msg("ready", 0)>> \in Seq(Message) /\ <<>> \in Seq(Message)
      BY <3>1
    <3> QED
      BY <1>3, <3>2 DEF Connect, MessageTypes
  <2> QED
    BY <2>1, <2>2, <2>3
<1>4. ASSUME NEW h \in Handle, Break(h) PROVE Types'
  <2>1. /\ TurnTypes' /\ GateTypes' /\ SendTypes' /\ CancelTypes'
        /\ WatchTypes'
    BY <1>4 DEF Break, TurnTypes, GateTypes, SendTypes, CancelTypes, WatchTypes
  <2>2. SessionTypes'
    BY <1>4, BoundAssumption DEF Break, Fault, SessionTypes, BoundAssumption
  <2>3. LinkTypes'
    BY <1>4 DEF Break, Fault, LinkTypes
  <2>4. MessageTypes'
    BY <1>4 DEF Break, Fault, MessageTypes
  <2> QED
    BY <2>1, <2>2, <2>3, <2>4
<1>5. ASSUME NEW h \in Handle, Exit(h) PROVE Types'
  <2>1. /\ TurnTypes' /\ SendTypes' /\ CancelTypes' /\ WatchTypes'
    BY <1>5 DEF Exit, TurnTypes, SendTypes, CancelTypes, WatchTypes
  <2>2. SessionTypes'
    BY <1>5, BoundAssumption DEF Exit, Fault, SessionTypes, BoundAssumption
  <2>3. LinkTypes'
    BY <1>5 DEF Exit, Fault, Dies, Hangup, LinkTypes
  <2>4. MessageTypes'
    BY <1>5, DiesType DEF Exit, MessageTypes
  <2>5. GateTypes'
    BY <1>5, DiesType DEF Exit
  <2> QED
    BY <2>1, <2>2, <2>3, <2>4, <2>5
<1>6. ASSUME NEW h \in Handle, WatchExit(h) PROVE Types'
  <2>1. /\ TurnTypes' /\ LinkTypes' /\ MessageTypes' /\ GateTypes'
        /\ SendTypes' /\ CancelTypes' /\ WatchTypes'
    BY <1>6
       DEF WatchExit, TurnTypes, LinkTypes, MessageTypes, GateTypes,
           SendTypes, CancelTypes, WatchTypes
  <2>2. SessionTypes'
    BY <1>6 DEF WatchExit, SessionTypes
  <2> QED
    BY <2>1, <2>2
<1>7. ASSUME NEW h \in Handle, KillAfterGrace(h) PROVE Types'
  <2>1. /\ SessionTypes' /\ TurnTypes' /\ SendTypes' /\ CancelTypes'
    BY <1>7 DEF KillAfterGrace, SessionTypes, TurnTypes, SendTypes, CancelTypes
  <2>2. LinkTypes'
    BY <1>7 DEF KillAfterGrace, Dies, Hangup, LinkTypes
  <2>3. MessageTypes'
    BY <1>7, DiesType DEF KillAfterGrace, MessageTypes
  <2>4. GateTypes'
    BY <1>7, DiesType DEF KillAfterGrace, GateTypes
  <2>5. WatchTypes'
    BY <1>7 DEF KillAfterGrace, Dies, Hangup, WatchTypes
  <2> QED
    BY <2>1, <2>2, <2>3, <2>4, <2>5
<1>8. ASSUME NEW h \in Handle, Route(h) PROVE Types'
  <2>1. /\ SessionTypes' /\ TurnTypes' /\ LinkTypes' /\ GateTypes'
        /\ SendTypes' /\ CancelTypes' /\ WatchTypes'
    BY <1>8
       DEF Route, SessionTypes, TurnTypes, LinkTypes, GateTypes,
           SendTypes, CancelTypes, WatchTypes
  <2>2. MessageTypes'
    BY <1>8, HeadType DEF Route, MessageTypes
  <2> QED
    BY <2>1, <2>2
<1>9. ASSUME NEW h \in Handle, RouteReady(h) PROVE Types'
  <2>1. /\ TurnTypes' /\ LinkTypes' /\ GateTypes' /\ SendTypes'
        /\ CancelTypes' /\ WatchTypes'
    BY <1>9
       DEF RouteReady, TurnTypes, LinkTypes, GateTypes, SendTypes,
           CancelTypes, WatchTypes
  <2>2. SessionTypes'
    BY <1>9 DEF RouteReady, Msg, Message, Fenced, SessionTypes
  <2>3. MessageTypes'
    <3>1. Msg("mark", 0) \in Message
      BY MsgType, Bounds
    <3>2. <<Msg("mark", 0)>> \in Seq(Message) /\ <<>> \in Seq(Message)
      BY <3>1
    <3> QED
      BY <1>9, <3>2 DEF RouteReady, MessageTypes
  <2> QED
    BY <2>1, <2>2, <2>3
<1>10. ASSUME NEW h \in Handle, MarkReady(h) PROVE Types'
  <2>1. /\ SessionTypes' /\ TurnTypes' /\ GateTypes' /\ SendTypes'
        /\ CancelTypes' /\ WatchTypes'
    BY <1>10
       DEF MarkReady, SessionTypes, TurnTypes, GateTypes, SendTypes,
           CancelTypes, WatchTypes
  <2>2. LinkTypes'
    BY <1>10 DEF MarkReady, LinkTypes
  <2>3. MessageTypes'
    BY <1>10 DEF MarkReady, MessageTypes
  <2> QED
    BY <2>1, <2>2, <2>3
<1>11. ASSUME NEW h \in Handle, RouteTerminal(h) PROVE Types'
  <2>1. /\ SessionTypes' /\ LinkTypes' /\ GateTypes' /\ SendTypes'
        /\ WatchTypes'
    BY <1>11
       DEF RouteTerminal, SessionTypes, LinkTypes, GateTypes, SendTypes,
           WatchTypes
  <2>2. TurnTypes'
    BY <1>11, HeadType, CompleteType DEF RouteTerminal, MessageTypes
  <2>3. MessageTypes'
    BY <1>11 DEF RouteTerminal, MessageTypes
  <2>4. CancelTypes'
    BY <1>11
       DEF RouteTerminal, CompleteTurn, Message, CancelTypes, TurnTypes,
           Turn
  <2> QED
    BY <2>1, <2>2, <2>3, <2>4
<1>12. ASSUME NEW h \in Handle, WorkerInput(h) PROVE Types'
  <2>1. /\ SessionTypes' /\ TurnTypes' /\ LinkTypes' /\ SendTypes'
        /\ CancelTypes' /\ WatchTypes'
    BY <1>12
       DEF WorkerInput, SessionTypes, TurnTypes, LinkTypes, SendTypes,
           CancelTypes, WatchTypes
  <2>2. MessageTypes'
    BY <1>12, HeadType DEF WorkerInput, Takes, Took, MessageTypes
  <2>3. GateTypes'
    <3>1. Head(down[h]).turn \in 0 .. MaxTurns
      BY <1>12, HeadType DEF WorkerInput, Takes, MessageTypes
    <3> QED
      BY <1>12, <3>1 DEF WorkerInput, GateTypes
  <2> QED
    BY <2>1, <2>2, <2>3
<1>13. ASSUME NEW h \in Handle, WorkerCancel(h) PROVE Types'
  <2>1. /\ SessionTypes' /\ TurnTypes' /\ LinkTypes' /\ SendTypes'
        /\ CancelTypes' /\ WatchTypes'
    BY <1>13
       DEF WorkerCancel, SessionTypes, TurnTypes, LinkTypes, SendTypes,
           CancelTypes, WatchTypes
  <2>2. MessageTypes'
    BY <1>13, HeadType DEF WorkerCancel, Takes, Took, MessageTypes
  <2>3. GateTypes'
    <3>1. turnID[h] \in 0 .. MaxTurns
      BY DEF GateTypes
    <3>2. UNCHANGED <<inflight, turnID>>
      BY <1>13 DEF WorkerCancel
    <3>3. \/ UNCHANGED <<asked, fence, ipc, iturn>>
          \/ /\ asked' = [asked EXCEPT ![h] = TRUE]
             /\ fence' = [fence EXCEPT ![h] = TRUE]
             /\ ipc' = [ipc EXCEPT ![h] = "check"]
             /\ iturn' = [iturn EXCEPT ![h] = turnID[h]]
      BY <1>13 DEF WorkerCancel
    <3> QED
      BY <3>1, <3>2, <3>3 DEF GateTypes
  <2> QED
    BY <2>1, <2>2, <2>3
<1>14. ASSUME NEW h \in Handle, WorkerRestart(h) PROVE Types'
  <2>1. /\ SessionTypes' /\ TurnTypes' /\ GateTypes' /\ SendTypes'
        /\ CancelTypes' /\ WatchTypes'
    BY <1>14
       DEF WorkerRestart, SessionTypes, TurnTypes, GateTypes, SendTypes,
           CancelTypes, WatchTypes
  <2>2. LinkTypes'
    BY <1>14 DEF WorkerRestart, Takes, Hangup, LinkTypes
  <2>3. MessageTypes'
    BY <1>14 DEF WorkerRestart, Takes, Hangup, MessageTypes
  <2> QED
    BY <2>1, <2>2, <2>3
<1>15. ASSUME NEW h \in Handle, WorkerTurnEnds(h) PROVE Types'
  <2>1. /\ SessionTypes' /\ TurnTypes' /\ LinkTypes' /\ SendTypes'
        /\ CancelTypes' /\ WatchTypes'
    BY <1>15
       DEF WorkerTurnEnds, SessionTypes, TurnTypes, LinkTypes,
           SendTypes, CancelTypes, WatchTypes
  <2>2. MessageTypes'
    BY <1>15, CompletesType DEF WorkerTurnEnds, MessageTypes
  <2>3. GateTypes'
    BY <1>15 DEF WorkerTurnEnds, WorkerCompletes, Msg, Message, GateTypes
  <2> QED
    BY <2>1, <2>2, <2>3
<1>16. ASSUME NEW h \in Handle, InterruptCheck(h) PROVE Types'
  <2>1. /\ SessionTypes' /\ TurnTypes' /\ LinkTypes' /\ MessageTypes'
        /\ SendTypes' /\ CancelTypes' /\ WatchTypes'
    BY <1>16
       DEF InterruptCheck, SessionTypes, TurnTypes, LinkTypes,
           MessageTypes, SendTypes, CancelTypes, WatchTypes
  <2>2. GateTypes'
    BY <1>16 DEF InterruptCheck, GateTypes
  <2> QED
    BY <2>1, <2>2
<1>17. ASSUME NEW h \in Handle, InterruptEsc(h) PROVE Types'
  <2>1. /\ SessionTypes' /\ TurnTypes' /\ LinkTypes' /\ SendTypes'
        /\ CancelTypes' /\ WatchTypes'
    BY <1>17
       DEF InterruptEsc, SessionTypes, TurnTypes, LinkTypes, SendTypes,
           CancelTypes, WatchTypes
  <2>2. MessageTypes'
    BY <1>17, CompletesType DEF InterruptEsc, MessageTypes
  <2>3. GateTypes'
    BY <1>17 DEF InterruptEsc, WorkerCompletes, Msg, Message, GateTypes
  <2> QED
    BY <2>1, <2>2, <2>3
<1>18. ASSUME NEW h \in Handle, InterruptFinish(h) PROVE Types'
  <2>1. /\ SessionTypes' /\ TurnTypes' /\ LinkTypes' /\ MessageTypes'
        /\ SendTypes' /\ CancelTypes' /\ WatchTypes'
    BY <1>18
       DEF InterruptFinish, SessionTypes, TurnTypes, LinkTypes,
           MessageTypes, SendTypes, CancelTypes, WatchTypes
  <2>2. GateTypes'
    BY <1>18, Bounds DEF InterruptFinish, GateTypes
  <2> QED
    BY <2>1, <2>2
<1>19. ASSUME StartTimeout PROVE Types'
  <2>1. /\ TurnTypes' /\ LinkTypes' /\ MessageTypes' /\ GateTypes'
        /\ SendTypes' /\ CancelTypes' /\ WatchTypes'
    BY <1>19
       DEF StartTimeout, TurnTypes, LinkTypes, MessageTypes, GateTypes,
           SendTypes, CancelTypes, WatchTypes
  <2>2. SessionTypes'
    BY <1>19 DEF StartTimeout, SessionTypes
  <2> QED
    BY <2>1, <2>2
<1>20. ASSUME Close PROVE Types'
  <2>1. TurnTypes' /\ LinkTypes' /\ GateTypes' /\ SendTypes' /\ CancelTypes'
    BY <1>20 DEF Close, TurnTypes, LinkTypes, GateTypes, SendTypes, CancelTypes
  <2>2. SessionTypes'
    BY <1>20 DEF Close, SessionTypes
  <2>3. MessageTypes'
    <3>1. down' \in [Handle -> Seq(Message)]
      <4>1. CASE Sent(worker, "restart", 0)
        BY <4>1, SentType, Bounds
      <4>2. CASE UNCHANGED down
        BY <4>2 DEF MessageTypes
      <4> QED
        BY <1>20, <4>1, <4>2 DEF Close
    <3> QED
      BY <1>20, <3>1 DEF Close, MessageTypes
  <2>4. WatchTypes'
    BY <1>20 DEF Close, SessionTypes, WatchTypes
  <2> QED
    BY <2>1, <2>2, <2>3, <2>4
<1>21. ASSUME NEW s \in Sender, SendStart(s) PROVE Types'
  <2>1. /\ SessionTypes' /\ TurnTypes' /\ LinkTypes' /\ MessageTypes'
        /\ GateTypes' /\ CancelTypes' /\ WatchTypes'
    BY <1>21
       DEF SendStart, SessionTypes, TurnTypes, LinkTypes, MessageTypes,
           GateTypes, CancelTypes, WatchTypes
  <2>2. SendTypes'
    BY <1>21 DEF SendStart, SendTypes, SessionTypes
  <2> QED
    BY <2>1, <2>2
<1>22. ASSUME NEW s \in Sender, SendGiveUp(s) PROVE Types'
  <2>1. /\ SessionTypes' /\ TurnTypes' /\ LinkTypes' /\ MessageTypes'
        /\ GateTypes' /\ CancelTypes' /\ WatchTypes'
    BY <1>22
       DEF SendGiveUp, SessionTypes, TurnTypes, LinkTypes, MessageTypes,
           GateTypes, CancelTypes, WatchTypes
  <2>2. SendTypes'
    BY <1>22, Bounds DEF SendGiveUp, SendReturn, SendTypes
  <2> QED
    BY <2>1, <2>2
<1>23. ASSUME NEW s \in Sender, SendBegin(s) PROVE Types'
  <2>1. /\ SessionTypes' /\ LinkTypes' /\ MessageTypes' /\ GateTypes'
        /\ WatchTypes'
    BY <1>23
       DEF SendBegin, SessionTypes, LinkTypes, MessageTypes, GateTypes,
           WatchTypes
  <2>2. TurnTypes'
    BY <1>23, NextToken DEF SendBegin, TurnTypes
  <2>3. SendTypes'
    BY <1>23, Bounds, NextToken DEF SendBegin, SendReturn, SendTypes
  <2>4. CancelTypes'
    BY <1>23 DEF SendBegin, SendReturn, CancelTypes, TurnTypes, Turn
  <2> QED
    BY <2>1, <2>2, <2>3, <2>4
<1>24. ASSUME NEW s \in Sender, SendWrite(s) PROVE Types'
  <2>1. /\ SessionTypes' /\ TurnTypes' /\ LinkTypes' /\ GateTypes'
        /\ CancelTypes' /\ WatchTypes'
    BY <1>24
       DEF SendWrite, SessionTypes, TurnTypes, LinkTypes, GateTypes,
           CancelTypes, WatchTypes
  <2>2. MessageTypes'
    <3>1. sturn[s] \in 0 .. MaxTurns
      BY DEF SendTypes
    <3>2. down' \in [Handle -> Seq(Message)]
      <4>1. CASE Sent(shandle[s], "input", sturn[s])
        BY <3>1, <4>1, SentType
      <4>2. CASE UNCHANGED down
        BY <4>2 DEF MessageTypes
      <4> QED
        BY <1>24, <4>1, <4>2 DEF SendWrite
    <3> QED
      BY <1>24, <3>2 DEF SendWrite, MessageTypes
  <2>3. SendTypes'
    BY <1>24, Bounds DEF SendWrite, SendReturn, SendTypes
  <2> QED
    BY <2>1, <2>2, <2>3
<1>25. ASSUME NEW s \in Sender, SendFail(s) PROVE Types'
  <2>1. /\ SessionTypes' /\ LinkTypes' /\ MessageTypes' /\ GateTypes'
        /\ WatchTypes'
    BY <1>25
       DEF SendFail, SessionTypes, LinkTypes, MessageTypes, GateTypes,
           WatchTypes
  <2>2. TurnTypes'
    BY <1>25 DEF SendFail, FinishTurn, SendReturn, TurnTypes, Turn
  <2>3. SendTypes'
    BY <1>25, Bounds DEF SendFail, SendReturn, SendTypes
  <2>4. CancelTypes'
    BY <1>25 DEF SendFail, FinishTurn, SendReturn, CancelTypes, TurnTypes, Turn
  <2> QED
    BY <2>1, <2>2, <2>3, <2>4
<1>26. ASSUME CancelCheck PROVE Types'
  <2>1. /\ SessionTypes' /\ TurnTypes' /\ LinkTypes' /\ MessageTypes'
        /\ GateTypes' /\ SendTypes' /\ WatchTypes'
    BY <1>26
       DEF CancelCheck, SessionTypes, TurnTypes, LinkTypes,
           MessageTypes, GateTypes, SendTypes, WatchTypes
  <2>2. CancelTypes'
    BY <1>26 DEF CancelCheck, CancelTypes, TurnTypes, Turn
  <2> QED
    BY <2>1, <2>2
<1>27. ASSUME CancelBegin PROVE Types'
  <2>1. /\ SessionTypes' /\ LinkTypes' /\ MessageTypes' /\ GateTypes'
        /\ SendTypes'
    BY <1>27
       DEF CancelBegin, SessionTypes, LinkTypes, MessageTypes,
           GateTypes, SendTypes
  <2>2. TurnTypes'
    BY <1>27 DEF CancelBegin, TurnTypes, Turn
  <2>3. CancelTypes'
    <3>1. CASE cancelling' = cancelling /\ cpc' = cpc
      BY <1>27, <3>1 DEF CancelBegin, CancelTypes
    <3>2. CASE active /\ ~cancelling /\ cancelling' /\ cpc' = [cpc EXCEPT ![token] = "look"]
      <4>1. cpc' \in [Turn -> {"none", "look", "write", "failed", "recheck", "giveup", "done"}]
        BY <3>2 DEF CancelTypes
      <4>2. ASSUME NEW u \in Turn, ctries[u] = MaxTries PROVE cpc'[u] = "giveup"
        <5>1. u # token
          BY <3>2, <4>2 DEF CancelTypes
        <5> QED
          BY <3>2, <4>2, <5>1 DEF CancelTypes
      <4>3. ASSUME NEW u \in Turn, u > token PROVE cpc'[u] = "none"
        <5>1. u # token
          BY <4>3 DEF Turn, TurnTypes
        <5> QED
          BY <3>2, <4>3, <5>1 DEF CancelTypes
      <4> QED
        BY <1>27, <3>2, <4>1, <4>2, <4>3 DEF CancelBegin, CancelTypes
    <3> QED
      BY <1>27, <3>1, <3>2 DEF CancelBegin, TurnTypes
  <2>4. WatchTypes'
    BY <1>27 DEF CancelBegin, WatchTypes, TurnTypes, Turn
  <2> QED
    BY <2>1, <2>2, <2>3, <2>4
<1>28. ASSUME NEW t \in Turn, CancelLook(t) PROVE Types'
  <2>1. /\ SessionTypes' /\ TurnTypes' /\ LinkTypes' /\ MessageTypes'
        /\ GateTypes' /\ SendTypes' /\ WatchTypes'
    BY <1>28
       DEF CancelLook, SessionTypes, TurnTypes, LinkTypes, MessageTypes,
           GateTypes, SendTypes, WatchTypes
  <2>2. CancelTypes'
    BY <1>28, CancelReturnType
       DEF CancelLook, CancelTypes, TurnTypes, SessionTypes
  <2> QED
    BY <2>1, <2>2
<1>29. ASSUME NEW t \in Turn, CancelWrite(t) PROVE Types'
  <2>1. /\ SessionTypes' /\ TurnTypes' /\ LinkTypes' /\ GateTypes'
        /\ SendTypes' /\ WatchTypes'
    BY <1>29
       DEF CancelWrite, SessionTypes, TurnTypes, LinkTypes, GateTypes,
           SendTypes, WatchTypes
  <2>2. MessageTypes'
    <3>1. down' \in [Handle -> Seq(Message)]
      <4>1. CASE Sent(chandle[t], "cancel", t)
        BY <4>1, SentType, Bounds
      <4>2. CASE UNCHANGED down
        BY <4>2 DEF MessageTypes
      <4> QED
        BY <1>29, <4>1, <4>2 DEF CancelWrite
    <3> QED
      BY <1>29, <3>1 DEF CancelWrite, MessageTypes
  <2>3. CancelTypes'
    BY <1>29 DEF CancelWrite, Sent, Msg, Message, CancelTypes, TurnTypes, Turn
  <2> QED
    BY <2>1, <2>2, <2>3
<1>30. ASSUME NEW t \in Turn, CancelFailed(t) PROVE Types'
  <2>1. /\ SessionTypes' /\ LinkTypes' /\ MessageTypes' /\ GateTypes'
        /\ SendTypes' /\ WatchTypes'
    BY <1>30
       DEF CancelFailed, SessionTypes, LinkTypes, MessageTypes,
           GateTypes, SendTypes, WatchTypes
  <2>2. TurnTypes'
    BY <1>30, FailType DEF CancelFailed, TurnTypes
  <2>3. CancelTypes'
    BY <1>30, CancelReturnType, CancelAgainType, TurnOver DEF CancelFailed
  <2> QED
    BY <2>1, <2>2, <2>3
<1>31. ASSUME NEW t \in Turn, CancelRecheck(t) PROVE Types'
  <2>1. /\ SessionTypes' /\ TurnTypes' /\ LinkTypes' /\ MessageTypes'
        /\ GateTypes' /\ SendTypes' /\ WatchTypes'
    BY <1>31
       DEF CancelRecheck, SessionTypes, TurnTypes, LinkTypes,
           MessageTypes, GateTypes, SendTypes, WatchTypes
  <2>2. CancelTypes'
    BY <1>31, CancelReturnType, CancelAgainType DEF CancelRecheck
  <2> QED
    BY <2>1, <2>2
<1>32. ASSUME NEW t \in Turn, CancelGiveUp(t) PROVE Types'
  <2>1. /\ SessionTypes' /\ LinkTypes' /\ MessageTypes' /\ GateTypes'
        /\ SendTypes' /\ WatchTypes'
    BY <1>32
       DEF CancelGiveUp, SessionTypes, LinkTypes, MessageTypes,
           GateTypes, SendTypes, WatchTypes
  <2>2. TurnTypes'
    BY <1>32, FailType DEF CancelGiveUp
  <2>3. CancelTypes'
    BY <1>32, CancelReturnType, TurnOver DEF CancelGiveUp
  <2> QED
    BY <2>1, <2>2, <2>3
<1>33. ASSUME NEW t \in Turn, WatchFire(t) PROVE Types'
  <2>1. /\ LinkTypes' /\ MessageTypes' /\ GateTypes' /\ SendTypes'
    BY <1>33 DEF WatchFire, LinkTypes, MessageTypes, GateTypes, SendTypes
  <2>2. SessionTypes'
    BY <1>33
       DEF WatchFire, FailCancellingTurn, Cancelling, CompleteTurn,
           SessionTypes
  <2>3. TurnTypes'
    BY <1>33, FailType DEF WatchFire, TurnTypes
  <2>4. CancelTypes'
    BY <1>33, TurnOver DEF WatchFire, CancelTypes, TurnTypes
  <2>5. WatchTypes'
    BY <1>33
       DEF WatchFire, FailCancellingTurn, Cancelling, CompleteTurn,
           WatchTypes
  <2> QED
    BY <2>1, <2>2, <2>3, <2>4, <2>5
<1>34. ASSUME NEW t \in Turn, RestartMark(t) PROVE Types'
  <2>1. /\ TurnTypes' /\ LinkTypes' /\ MessageTypes' /\ GateTypes'
        /\ SendTypes' /\ CancelTypes'
    BY <1>34
       DEF RestartMark, TurnTypes, LinkTypes, MessageTypes, GateTypes,
           SendTypes, CancelTypes
  <2>2. SessionTypes'
    BY <1>34 DEF RestartMark, SessionTypes
  <2>3. WatchTypes'
    BY <1>34 DEF RestartMark, WatchTypes, SessionTypes
  <2> QED
    BY <2>1, <2>2, <2>3
<1>35. ASSUME NEW t \in Turn, RestartWrite(t) PROVE Types'
  <2>1. /\ SessionTypes' /\ TurnTypes' /\ LinkTypes' /\ GateTypes'
        /\ SendTypes' /\ CancelTypes'
    BY <1>35
       DEF RestartWrite, SessionTypes, TurnTypes, LinkTypes, GateTypes,
           SendTypes, CancelTypes
  <2>2. MessageTypes'
    <3>1. down' \in [Handle -> Seq(Message)]
      <4>1. CASE Sent(whandle[t], "restart", t)
        BY <4>1, SentType, Bounds
      <4>2. CASE UNCHANGED down
        BY <4>2 DEF MessageTypes
      <4> QED
        BY <1>35, <4>1, <4>2 DEF RestartWrite
    <3> QED
      BY <1>35, <3>1 DEF RestartWrite, MessageTypes
  <2>3. WatchTypes'
    BY <1>35 DEF RestartWrite, Sent, Msg, Message, WatchTypes
  <2> QED
    BY <2>1, <2>2, <2>3
<1>36. ASSUME NEW t \in Turn, RestartCheck(t) PROVE Types'
  <2>1. /\ SessionTypes' /\ TurnTypes' /\ LinkTypes' /\ MessageTypes'
        /\ GateTypes' /\ SendTypes' /\ CancelTypes'
    BY <1>36
       DEF RestartCheck, SessionTypes, TurnTypes, LinkTypes,
           MessageTypes, GateTypes, SendTypes, CancelTypes
  <2>2. WatchTypes'
    BY <1>36, Bounds, BoundAssumption
       DEF RestartCheck, WatchTypes, BoundAssumption
  <2> QED
    BY <2>1, <2>2
<1>37. CASE UNCHANGED vars
  BY <1>37
     DEF vars, SessionTypes, TurnTypes, LinkTypes, MessageTypes,
         GateTypes, SendTypes, CancelTypes, WatchTypes
<1> QED
  BY <1>1, <1>2, <1>3, <1>4, <1>5, <1>6, <1>7, <1>8, <1>9, <1>10, <1>11,
     <1>12, <1>13, <1>14, <1>15, <1>16, <1>17, <1>18, <1>19, <1>20, <1>21,
     <1>22, <1>23, <1>24, <1>25, <1>26, <1>27, <1>28, <1>29, <1>30, <1>31,
     <1>32, <1>33, <1>34, <1>35, <1>36, <1>37
      DEF Next, HandleStep, Routes, WorkerReads, Interrupts, Sends, Cancels, Watches

\* Every variable has its type in every reachable state, and no cancel is
\* sent, and no restart begun, more than MaxTries times for a turn.
THEOREM TurnTypeCorrect == Spec => []TypeOK
<1>1. Init => Types
  BY TypesInit
<1>2. Types /\ [Next]_vars => Types'
  BY TypesStep
<1>3. Types => TypeOK
  BY TypesTypeOK
<1> QED
  BY <1>1, <1>2, <1>3, PTL DEF Spec

-----------------------------------------------------------------------------
(* The turn gate: what any step of any goroutine does to it.               *)

\* A turn begins when none is active.
Begins ==
    /\ ~active /\ active' /\ token' = token + 1
    /\ UNCHANGED terminals

\* CompleteTurn, for the turn's own cancel if the daemon made the terminal.
Completes ==
    \E about \in 0 .. MaxTurns, by \in Handle \union {"daemon"} :
        /\ CompleteTurn(about, by)
        /\ active /\ by = "daemon" => about = token

\* The gate is opened, or nothing happens to it but a cancel.
Rests == (active' => active) /\ UNCHANGED <<token, terminals>>

GateStep == Begins \/ Completes \/ Rests

LEMMA FailCompletes ==
    ASSUME NEW t \in Turn, FailCancellingTurn(t)
    PROVE  Completes \/ Rests
<1>1. CASE Cancelling(t)
  <2>1. CompleteTurn(t, "daemon") /\ t = token
    BY <1>1 DEF FailCancellingTurn, Cancelling
  <2> QED
    BY <2>1, Bounds DEF Completes
<1>2. CASE ~Cancelling(t)
  BY <1>2 DEF FailCancellingTurn, Rests, turnVars
<1> QED
  BY <1>1, <1>2

LEMMA GateSteps == Types /\ [Next]_vars => GateStep
<1> SUFFICES ASSUME Types, [Next]_vars PROVE GateStep
  OBVIOUS
<1> USE DEF GateStep, turnVars, sendVars, cancelVars
<1>1. ASSUME NEW h \in Handle,
           \/ Discard(h) \/ Connect(h) \/ Break(h) \/ Exit(h)
           \/ WatchExit(h) \/ KillAfterGrace(h) \/ Route(h) \/ RouteReady(h)
      PROVE  GateStep
  BY <1>1 DEF Rests, Discard, Connect, Break, Exit, WatchExit,
       KillAfterGrace, Route, RouteReady
<1>2. ASSUME NEW h \in Handle,
           \/ MarkReady(h) \/ WorkerInput(h) \/ WorkerCancel(h) \/ WorkerRestart(h)
           \/ WorkerTurnEnds(h) \/ InterruptCheck(h) \/ InterruptEsc(h) \/ InterruptFinish(h)
      PROVE  GateStep
  BY <1>2 DEF Rests, MarkReady, WorkerInput, WorkerCancel,
       WorkerRestart, WorkerTurnEnds, InterruptCheck, InterruptEsc,
       InterruptFinish
<1>3. ASSUME NEW s \in Sender,
           \/ SendStart(s) \/ SendGiveUp(s) \/ SendWrite(s)
      PROVE  GateStep
  BY <1>3 DEF Rests, SendStart, SendGiveUp, SendWrite
<1>4. ASSUME NEW t \in Turn,
           \/ CancelLook(t) \/ CancelWrite(t) \/ CancelRecheck(t) \/ RestartMark(t)
           \/ RestartWrite(t) \/ RestartCheck(t)
      PROVE  GateStep
  BY <1>4 DEF Rests, CancelLook, CancelWrite, CancelRecheck,
       RestartMark, RestartWrite, RestartCheck
<1>5. ASSUME NEW fresh \in BOOLEAN, Spawn(fresh) PROVE GateStep
  BY <1>5 DEF Spawn, Rests
<1>6. CASE StartTimeout \/ Close \/ CancelCheck \/ UNCHANGED vars
  BY <1>6 DEF StartTimeout, Close, CancelCheck, vars, Rests
<1>7. ASSUME NEW h \in Handle, RouteTerminal(h) PROVE GateStep
  <2>1. Head(got[h]).turn \in 0 .. MaxTurns /\ CompleteTurn(Head(got[h]).turn, h)
    BY <1>7, HeadType DEF RouteTerminal, Types, MessageTypes
  <2>2. h # "daemon"
    BY HandleAssumption DEF HandleAssumption
  <2> QED
    BY <2>1, <2>2 DEF Completes
<1>8. ASSUME NEW s \in Sender, SendBegin(s) PROVE GateStep
  BY <1>8 DEF SendBegin, Begins, Rests
<1>9. ASSUME NEW s \in Sender, SendFail(s) PROVE GateStep
  BY <1>9 DEF SendFail, FinishTurn, Rests
<1>10. CASE CancelBegin
  BY <1>10 DEF CancelBegin, Rests
<1>11. ASSUME NEW t \in Turn, CancelFailed(t) PROVE GateStep
  BY <1>11, FailCompletes DEF CancelFailed, Rests
<1>12. ASSUME NEW t \in Turn, CancelGiveUp(t) PROVE GateStep
  BY <1>12, FailCompletes DEF CancelGiveUp, Rests
<1>13. ASSUME NEW t \in Turn, WatchFire(t) PROVE GateStep
  BY <1>13, FailCompletes DEF WatchFire, Rests
<1> QED
  BY <1>1, <1>2, <1>3, <1>4, <1>5, <1>6, <1>7, <1>8, <1>9, <1>10, <1>11,
     <1>12, <1>13
     DEF Next, HandleStep, Routes, WorkerReads, Interrupts, Sends, Cancels, Watches

\* No terminal is of a turn to come, and none of the turn that is active.
TerminalsOfThePast ==
    \A i \in 1 .. Len(terminals) :
        terminals[i].ends < token \/ (terminals[i].ends = token /\ ~active)

Ordered == Types /\ TerminalsOfThePast /\ OneTerminalPerTurn /\ FailureOfOwnTurn

\* What has been published stays, and CompleteTurn adds at most one terminal.
LEMMA Published ==
    ASSUME TurnTypes, active, NEW about \in 0 .. MaxTurns,
           NEW by \in Handle \union {"daemon"}, CompleteTurn(about, by)
    PROVE  /\ Len(terminals) \in Nat /\ Len(terminals') = Len(terminals) + 1
           /\ \A i \in 1 .. Len(terminals) :
                /\ terminals'[i] = terminals[i]
                /\ terminals[i] \in Terminal
           /\ terminals'[Len(terminals) + 1] = [ends |-> token, about |-> about, by |-> by]
<1> DEFINE m == [ends |-> token, about |-> about, by |-> by]
<1>1. terminals \in Seq(Terminal) /\ m \in Terminal
  BY DEF TurnTypes, Terminal
<1>2. terminals' = Append(terminals, m)
  BY DEF CompleteTurn
<1> HIDE DEF m
<1>3. /\ Len(terminals) \in Nat /\ Len(terminals') = Len(terminals) + 1
      /\ \A i \in 1 .. Len(terminals) :
            terminals'[i] = terminals[i] /\ terminals[i] \in Terminal
      /\ terminals'[Len(terminals) + 1] = m
  BY <1>1, <1>2
<1> QED
  BY <1>3 DEF m

LEMMA OrderedInit == Init => Ordered
<1> SUFFICES ASSUME Init PROVE Ordered
  OBVIOUS
<1>1. terminals = <<>> /\ Types
  BY TypesInit DEF Init
<1> QED
  BY <1>1 DEF Ordered, TerminalsOfThePast, OneTerminalPerTurn, FailureOfOwnTurn

\* A terminal ends the active turn, and every other one a turn before it.
LEMMA OrderedStep == Ordered /\ [Next]_vars => Ordered'
<1> SUFFICES ASSUME Ordered, [Next]_vars PROVE Ordered'
  OBVIOUS
<1>1. Types /\ TurnTypes /\ Types'
  BY TypesStep DEF Ordered, Types
<1>2. token \in Nat
  BY <1>1, BoundAssumption DEF TurnTypes, BoundAssumption
<1>3. \A i \in 1 .. Len(terminals) : terminals[i].ends \in Nat
  <2>1. \A i \in 1 .. Len(terminals) : terminals[i] \in Terminal
    BY <1>1 DEF TurnTypes
  <2> QED
    BY <2>1, BoundAssumption DEF Terminal, BoundAssumption
<1>4. CASE Begins
  BY <1>1, <1>2, <1>3, <1>4
     DEF Begins, Ordered, TerminalsOfThePast, OneTerminalPerTurn, FailureOfOwnTurn
<1>5. CASE Rests
  BY <1>1, <1>2, <1>3, <1>5
     DEF Rests, Ordered, TerminalsOfThePast, OneTerminalPerTurn, FailureOfOwnTurn
<1>6. CASE Completes
  <2>1. PICK about \in 0 .. MaxTurns, by \in Handle \union {"daemon"} :
            CompleteTurn(about, by) /\ (active /\ by = "daemon" => about = token)
    BY <1>6 DEF Completes
  <2>2. CASE ~active
    BY <1>1, <2>1, <2>2
       DEF CompleteTurn, turnVars, Ordered, TerminalsOfThePast,
           OneTerminalPerTurn, FailureOfOwnTurn
  <2>3. CASE active
    <3> DEFINE n == Len(terminals)
    <3>1. /\ n \in Nat /\ Len(terminals') = n + 1
          /\ \A i \in 1 .. n : terminals'[i] = terminals[i]
          /\ terminals'[n + 1] = [ends |-> token, about |-> about, by |-> by]
      BY <1>1, <2>1, <2>3, Published
    <3>2. token' = token /\ ~active'
      BY <2>1, <2>3 DEF CompleteTurn
    <3>3. \A i \in 1 .. n : terminals[i].ends < token
      BY <2>3 DEF Ordered, TerminalsOfThePast
    <3>4. \A i \in 1 .. n + 1 : i \in 1 .. n \/ i = n + 1
      BY <3>1
    <3> HIDE DEF n
    <3>5. TerminalsOfThePast'
      BY <3>1, <3>2, <3>3, <3>4 DEF TerminalsOfThePast
    <3>6. OneTerminalPerTurn'
      <4> SUFFICES ASSUME NEW i \in 1 .. n + 1, NEW j \in 1 .. n + 1, i < j
                   PROVE  terminals'[i].ends < terminals'[j].ends
        BY <3>1 DEF OneTerminalPerTurn
      <4>1. i \in 1 .. n
        BY <3>1
      <4>2. CASE j = n + 1
        BY <3>1, <3>3, <4>1, <4>2
      <4>3. CASE j \in 1 .. n
        BY <3>1, <4>1, <4>3 DEF Ordered, OneTerminalPerTurn, n
      <4> QED
        BY <3>4, <4>2, <4>3
    <3>7. FailureOfOwnTurn'
      <4> SUFFICES ASSUME NEW i \in 1 .. n + 1, terminals'[i].by = "daemon"
                   PROVE  terminals'[i].ends = terminals'[i].about
        BY <3>1 DEF FailureOfOwnTurn
      <4>1. CASE i \in 1 .. n
        BY <3>1, <4>1 DEF Ordered, FailureOfOwnTurn, n
      <4>2. CASE i = n + 1
        BY <2>1, <2>3, <3>1, <4>2
      <4> QED
        BY <3>4, <4>1, <4>2
    <3> QED
      BY <1>1, <3>5, <3>6, <3>7 DEF Ordered
  <2> QED
    BY <2>2, <2>3
<1> QED
  BY <1>1, <1>4, <1>5, <1>6, GateSteps DEF GateStep

\* However the terminals of workers, failed cancels and watchdogs race, a turn
\* gets at most one terminal and terminals come in the order of the turns.
THEOREM TerminalsInOrder == Spec => []OneTerminalPerTurn
<1>1. Init => Ordered
  BY OrderedInit
<1>2. Ordered /\ [Next]_vars => Ordered'
  BY OrderedStep
<1>3. Ordered => OneTerminalPerTurn
  BY DEF Ordered
<1> QED
  BY <1>1, <1>2, <1>3, PTL DEF Spec

\* A terminal the daemon makes for a cancel that failed or timed out ends the
\* turn the cancel was accepted for.
THEOREM FailuresOfOwnTurn == Spec => []FailureOfOwnTurn
<1>1. Init => Ordered
  BY OrderedInit
<1>2. Ordered /\ [Next]_vars => Ordered'
  BY OrderedStep
<1>3. Ordered => FailureOfOwnTurn
  BY DEF Ordered
<1> QED
  BY <1>1, <1>2, <1>3, PTL DEF Spec

-----------------------------------------------------------------------------
(* The worker's interrupt.                                                 *)

\* While an interrupt runs no input is accepted, and the turn it is for, if
\* still in flight, is not interrupted again: one goroutine at a time.
InterruptFenced ==
    \A h \in Handle :
        ipc[h] # "none" =>
            fence[h] /\ turnID[h] = iturn[h] /\ (inflight[h] => asked[h])

LEMMA FencedStep == Types /\ InterruptFenced /\ [Next]_vars => InterruptFenced'
<1> SUFFICES ASSUME Types, InterruptFenced, [Next]_vars PROVE InterruptFenced'
  OBVIOUS
<1> USE DEF InterruptFenced, gateVars
<1>1. ASSUME NEW h \in Handle,
           \/ Connect(h) \/ Break(h) \/ WatchExit(h) \/ Route(h)
           \/ RouteReady(h) \/ MarkReady(h) \/ RouteTerminal(h) \/ WorkerRestart(h)
      PROVE  InterruptFenced'
  BY <1>1 DEF Connect, Break, WatchExit, Route, RouteReady, MarkReady,
       RouteTerminal, WorkerRestart
<1>2. ASSUME NEW s \in Sender,
           \/ SendStart(s) \/ SendGiveUp(s) \/ SendBegin(s) \/ SendWrite(s)
           \/ SendFail(s)
      PROVE  InterruptFenced'
  BY <1>2 DEF SendStart, SendGiveUp, SendBegin, SendWrite, SendFail
<1>3. ASSUME NEW t \in Turn,
           \/ CancelLook(t) \/ CancelWrite(t) \/ CancelFailed(t) \/ CancelRecheck(t)
           \/ CancelGiveUp(t) \/ WatchFire(t) \/ RestartMark(t) \/ RestartWrite(t)
           \/ RestartCheck(t)
      PROVE  InterruptFenced'
  BY <1>3 DEF CancelLook, CancelWrite, CancelFailed, CancelRecheck,
       CancelGiveUp, WatchFire, RestartMark, RestartWrite, RestartCheck
<1>4. ASSUME NEW fresh \in BOOLEAN,
           \/ Spawn(fresh)
      PROVE  InterruptFenced'
  BY <1>4 DEF Spawn
<1>5. CASE StartTimeout \/ CancelCheck \/ CancelBegin \/ UNCHANGED vars
  BY <1>5 DEF StartTimeout, CancelCheck, CancelBegin, vars
<1>6. ASSUME NEW h \in Handle, Discard(h) PROVE InterruptFenced'
  BY <1>6 DEF Discard, Dies, Types, GateTypes
<1>7. ASSUME NEW h \in Handle, Exit(h) PROVE InterruptFenced'
  BY <1>7 DEF Exit, Dies, Types, GateTypes
<1>8. ASSUME NEW h \in Handle, KillAfterGrace(h) PROVE InterruptFenced'
  BY <1>8 DEF KillAfterGrace, Dies, Types, GateTypes
<1>9. ASSUME NEW h \in Handle, WorkerInput(h) PROVE InterruptFenced'
  BY <1>9 DEF WorkerInput, Accepts, Types, GateTypes
<1>10. ASSUME NEW h \in Handle, WorkerCancel(h) PROVE InterruptFenced'
  BY <1>10 DEF WorkerCancel, Types, GateTypes
<1>11. ASSUME NEW h \in Handle, WorkerTurnEnds(h) PROVE InterruptFenced'
  BY <1>11 DEF WorkerTurnEnds, WorkerCompletes, Types, GateTypes
<1>12. ASSUME NEW h \in Handle, InterruptCheck(h) PROVE InterruptFenced'
  BY <1>12 DEF InterruptCheck, Types, GateTypes
<1>13. ASSUME NEW h \in Handle, InterruptEsc(h) PROVE InterruptFenced'
  BY <1>13 DEF InterruptEsc, WorkerCompletes, Types, GateTypes
<1>14. ASSUME NEW h \in Handle, InterruptFinish(h) PROVE InterruptFenced'
  BY <1>14 DEF InterruptFinish, Types, GateTypes
<1>15. CASE Close
  BY <1>15 DEF Close
<1> QED
  BY <1>1, <1>2, <1>3, <1>4, <1>5, <1>6, <1>7, <1>8, <1>9, <1>10, <1>11,
     <1>12, <1>13, <1>14, <1>15
     DEF Next, HandleStep, Routes, WorkerReads, Interrupts, Sends, Cancels, Watches

\* Esc is never written into a turn begun after the one it is for.
THEOREM EscBeforeTheNextTurn == Spec => []EscBeforeNextTurn
<1>1. Init => Types /\ InterruptFenced
  BY TypesInit DEF Init, InterruptFenced
<1>2. Types /\ InterruptFenced /\ [Next]_vars => (Types /\ InterruptFenced)'
  BY TypesStep, FencedStep
<1>3. InterruptFenced => EscBeforeNextTurn
  BY DEF InterruptFenced, EscBeforeNextTurn
<1> QED
  BY <1>1, <1>2, <1>3, PTL DEF Spec

-----------------------------------------------------------------------------
(* The restart fence.                                                      *)

LEMMA FenceStep == FenceOfCurrentWorker /\ [Next]_vars => FenceOfCurrentWorker'
<1> SUFFICES ASSUME FenceOfCurrentWorker, [Next]_vars PROVE FenceOfCurrentWorker'
  OBVIOUS
<1> USE DEF FenceOfCurrentWorker, sessionVars
<1>1. ASSUME NEW h \in Handle,
           \/ Discard(h) \/ Connect(h) \/ Break(h) \/ Exit(h)
           \/ KillAfterGrace(h) \/ Route(h) \/ RouteReady(h) \/ MarkReady(h)
           \/ RouteTerminal(h)
      PROVE  FenceOfCurrentWorker'
  BY <1>1 DEF Discard, Connect, Break, Exit, KillAfterGrace, Route,
       RouteReady, MarkReady, RouteTerminal
<1>2. ASSUME NEW h \in Handle,
           \/ WorkerInput(h) \/ WorkerCancel(h) \/ WorkerRestart(h) \/ WorkerTurnEnds(h)
           \/ InterruptCheck(h) \/ InterruptEsc(h) \/ InterruptFinish(h)
      PROVE  FenceOfCurrentWorker'
  BY <1>2 DEF WorkerInput, WorkerCancel, WorkerRestart, WorkerTurnEnds,
       InterruptCheck, InterruptEsc, InterruptFinish
<1>3. ASSUME NEW s \in Sender,
           \/ SendStart(s) \/ SendGiveUp(s) \/ SendBegin(s) \/ SendWrite(s)
           \/ SendFail(s)
      PROVE  FenceOfCurrentWorker'
  BY <1>3 DEF SendStart, SendGiveUp, SendBegin, SendWrite, SendFail
<1>4. ASSUME NEW t \in Turn,
           \/ CancelLook(t) \/ CancelWrite(t) \/ CancelFailed(t) \/ CancelRecheck(t)
           \/ CancelGiveUp(t) \/ RestartWrite(t) \/ RestartCheck(t)
      PROVE  FenceOfCurrentWorker'
  BY <1>4 DEF CancelLook, CancelWrite, CancelFailed, CancelRecheck,
       CancelGiveUp, RestartWrite, RestartCheck
<1>5. CASE StartTimeout \/ Close \/ CancelCheck \/ CancelBegin \/ UNCHANGED vars
  BY <1>5 DEF StartTimeout, Close, CancelCheck, CancelBegin, vars
<1>6. ASSUME NEW fresh \in BOOLEAN, Spawn(fresh) PROVE FenceOfCurrentWorker'
  BY <1>6 DEF Spawn
<1>7. ASSUME NEW h \in Handle, WatchExit(h) PROVE FenceOfCurrentWorker'
  BY <1>7 DEF WatchExit
<1>8. ASSUME NEW t \in Turn, WatchFire(t) PROVE FenceOfCurrentWorker'
  BY <1>8 DEF WatchFire
<1>9. ASSUME NEW t \in Turn, RestartMark(t) PROVE FenceOfCurrentWorker'
  BY <1>9 DEF RestartMark
<1> QED
  BY <1>1, <1>2, <1>3, <1>4, <1>5, <1>6, <1>7, <1>8, <1>9
     DEF Next, HandleStep, Routes, WorkerReads, Interrupts, Sends, Cancels, Watches

\* A pending restart is never one of a worker that has been replaced, so that
\* the READY of the replacement is not refused because of it.
THEOREM FenceOfTheCurrentWorker == Spec => []FenceOfCurrentWorker
<1>1. Init => FenceOfCurrentWorker
  BY DEF Init, FenceOfCurrentWorker
<1>2. FenceOfCurrentWorker /\ [Next]_vars => FenceOfCurrentWorker'
  BY FenceStep
<1> QED
  BY <1>1, <1>2, PTL DEF Spec

\* The status becomes READY only by a READY of a worker that is not fenced.
LEMMA ReadyStep ==
    ASSUME [Next]_vars, status # "READY", status' = "READY"
    PROVE  \E h \in Handle : RouteReady(h) /\ ~Fenced(h)
<1> USE DEF sessionVars
<1>1. ASSUME NEW h \in Handle,
           \/ Discard(h) \/ Connect(h) \/ Break(h)
           \/ Exit(h) \/ WatchExit(h) \/ KillAfterGrace(h)
           \/ Route(h) \/ MarkReady(h)
      PROVE  FALSE
  BY <1>1 DEF Discard, Connect, Break, Exit, WatchExit, KillAfterGrace,
       Route, MarkReady
<1>2. ASSUME NEW h \in Handle,
           \/ RouteTerminal(h) \/ WorkerInput(h) \/ WorkerCancel(h)
           \/ WorkerRestart(h) \/ WorkerTurnEnds(h) \/ InterruptCheck(h)
           \/ InterruptEsc(h) \/ InterruptFinish(h)
      PROVE  FALSE
  BY <1>2 DEF RouteTerminal, WorkerInput, WorkerCancel, WorkerRestart,
       WorkerTurnEnds, InterruptCheck, InterruptEsc, InterruptFinish
<1>3. ASSUME NEW s \in Sender,
           \/ SendStart(s) \/ SendGiveUp(s) \/ SendBegin(s)
           \/ SendWrite(s) \/ SendFail(s)
      PROVE  FALSE
  BY <1>3 DEF SendStart, SendGiveUp, SendBegin, SendWrite, SendFail
<1>4. ASSUME NEW t \in Turn,
           \/ CancelLook(t) \/ CancelWrite(t) \/ CancelFailed(t)
           \/ CancelRecheck(t) \/ CancelGiveUp(t) \/ WatchFire(t)
           \/ RestartMark(t) \/ RestartWrite(t) \/ RestartCheck(t)
      PROVE  FALSE
  BY <1>4 DEF CancelLook, CancelWrite, CancelFailed, CancelRecheck,
       CancelGiveUp, WatchFire, RestartMark, RestartWrite, RestartCheck
<1>5. ASSUME \/ StartTimeout \/ Close \/ CancelCheck
           \/ CancelBegin \/ UNCHANGED vars
      PROVE  FALSE
  BY <1>5 DEF StartTimeout, Close, CancelCheck, CancelBegin, vars
<1>6. ASSUME NEW fresh \in BOOLEAN, Spawn(fresh) PROVE FALSE
  BY <1>6 DEF Spawn, Start, StartFails
<1>7. ASSUME NEW h \in Handle, RouteReady(h) PROVE ~Fenced(h)
  BY <1>7 DEF RouteReady
<1> QED
  BY <1>1, <1>2, <1>3, <1>4, <1>5, <1>6, <1>7
     DEF Next, HandleStep, Routes, WorkerReads, Interrupts, Sends, Cancels, Watches

\* The worker whose restart is pending never makes the recovering session READY
\* again: neither its late READY nor one that had passed routeMessage's check.
THEOREM FencedStaysOut == Spec => FencedNeverReopens
<1>1. ASSUME Types, [Next]_vars,
             NEW h \in Handle, pending = h, status = "RECOVERING", status' = "READY"
      PROVE  UNCHANGED got[h]
  <2>1. PICK k \in Handle : RouteReady(k) /\ ~Fenced(k)
    BY <1>1, ReadyStep
  <2>2. k # h
    BY <1>1, <2>1 DEF Fenced
  <2> QED
    BY <1>1, <2>1, <2>2 DEF RouteReady, Types, MessageTypes
<1>2. Types /\ [Next]_vars =>
        [ \A h \in Handle : pending = h /\ status = "RECOVERING" /\ status' = "READY"
            => UNCHANGED got[h] ]_vars
  BY <1>1
<1>3. Init => Types
  BY TypesInit
<1>4. Types /\ [Next]_vars => Types'
  BY TypesStep
<1> QED
  BY <1>2, <1>3, <1>4, PTL DEF Spec, FencedNeverReopens
=============================================================================
