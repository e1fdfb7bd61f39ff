------------------------------ MODULE AidenSubmit ------------------------------
(***************************************************************************)
(* A worker that runs Aiden.  Every input has a goroutine of its own, and   *)
(* sendMu lets one Send at a time type its text into the PTY, in chunks and *)
(* with retries, and then press Enter until the CLI outputs something.      *)
(* Meanwhile the CLI may exit and the worker be told to close: cleanup      *)
(* closes the PTY and then waits for sendMu.                                *)
(*                                                                         *)
(* External: the PTY, which takes the bytes of a write in any portions, and *)
(* none while nobody reads it, and the CLI, which outputs lines at any      *)
(* time.                                                                    *)
(***************************************************************************)
EXTENDS Integers, Sequences, FiniteSets, FiniteSetsExt, SequencesExt

CONSTANTS
    Sender,         \* goroutines in handleInput, one for each input
    Input,          \* inputs, as sequences of bytes
    Nil,
    ChunkBytes,     \* aidenInputChunkBytes (4096)
    WriteAttempts,  \* writeRetryAttempts (3)
    EnterAttempts,  \* maxEnterAttempts (3)
    MaxFaults,      \* bound: failing writes to an open PTY
    MaxLines        \* bound: lines the CLI outputs

\* Bytes: the control characters, a blank, another ASCII character, and the first and
\* the following bytes of a longer character of UTF-8.
Byte == {"CR", "LF", "SP", "ASCII", "lead", "cont"}

ASSUME SenderAssumption == Nil \notin Sender
ASSUME InputAssumption == Input \subseteq Seq(Byte)
ASSUME AidenBoundAssumption ==
    /\ ChunkBytes \in Nat \ {0} /\ WriteAttempts \in Nat \ {0}
    /\ EnterAttempts \in Nat \ {0} /\ MaxFaults \in Nat /\ MaxLines \in Nat

VARIABLES
    text,           \* sender -> its input, normalised
    pc,             \* sender -> where its goroutine is in Send
    outcome,        \* sender -> what Send returned
    sendMu,         \* who holds it
    done,           \* sender -> bytes of its text the PTY has taken
    end,            \* sender -> end of the chunk at hand
    failures,       \* sender -> failures in a row of the write at hand
    attempts,       \* sender -> Enters tried
    base,           \* sender -> activitySeq at its last outputSubscription
    typed,          \* history: all that the PTY took
    textSeen,       \* history: sender -> activitySeq when the PTY had its text
    enterSeen,      \* history: sender -> activitySeq when the PTY had its last Enter
    activitySeq,    \* lines readCliOutput has read; also the number of channels closed
    reading,        \* readCliOutput runs
    cancelled,      \* the worker's context is done
    cli,            \* the CLI runs
    closer,         \* readDaemonMessages: "none", or where it is in cleanup
    faults

sendVars == <<text, pc, outcome, sendMu, done, end, failures, attempts, base, typed,
              textSeen, enterSeen>>
cliVars  == <<activitySeq, reading, cli>>
vars == <<sendVars, cliVars, cancelled, closer, faults>>

Place == {"idle", "queued", "try", "writing", "pause", "written", "waiting", "again",
          "done"}

\* normalizeAidenInput: CR LF and CR become LF, and those at the end go.
Normalise(raw) ==
    LET kept == {i \in DOMAIN raw :
                    /\ \E k \in i .. Len(raw) : raw[k] \notin {"CR", "LF"}
                    /\ ~(raw[i] = "LF" /\ i > 1 /\ raw[i - 1] = "CR")}
        order == SetToSortSeq(kept, <)
    IN [j \in 1 .. Cardinality(kept) |->
            IF raw[order[j]] = "CR" THEN "LF" ELSE raw[order[j]]]

IsBlank(t) == \A i \in DOMAIN t : t[i] \in {"LF", "SP"}      \* strings.TrimSpace

\* splitUTF8Chunks: where the chunk after the first n bytes ends.  It has as many
\* whole characters as go into ChunkBytes, and at least one.
ChunkEnd(t, n) ==
    LET ends == {k \in n + 1 .. Len(t) : k = Len(t) \/ t[k + 1] # "cont"}
        near == {k \in ends : k <= n + ChunkBytes}
    IN IF near # {} THEN Max(near) ELSE Min(ends)

IsEnter(s) == attempts[s] > 0           \* the write at hand is that of an Enter

PtyOpen == closer \notin {"adapter", "closed"}
Broken == ~PtyOpen \/ ~cli              \* writes fail, those under way too

Init ==
    /\ text = [s \in Sender |-> <<>>]
    /\ pc = [s \in Sender |-> "idle"]
    /\ outcome = [s \in Sender |-> "none"]
    /\ sendMu = Nil
    /\ done = [s \in Sender |-> 0] /\ end = [s \in Sender |-> 0]
    /\ failures = [s \in Sender |-> 0] /\ attempts = [s \in Sender |-> 0]
    /\ base = [s \in Sender |-> 0]
    /\ typed = <<>>
    /\ textSeen = [s \in Sender |-> 0] /\ enterSeen = [s \in Sender |-> 0]
    /\ activitySeq = 0
    /\ reading = TRUE /\ cancelled = FALSE /\ cli = TRUE /\ closer = "none"
    /\ faults = 0

Goto(s, place) == pc' = [pc EXCEPT ![s] = place]

\* Mutant: the mutex is released at one of the returns only.
ReturnLocked(s, how) ==
    /\ Goto(s, "done")
    /\ outcome' = [outcome EXCEPT ![s] = how]
    /\ sendMu' = IF how = "failed" THEN sendMu ELSE Nil

Return(s, how) ==
    /\ Goto(s, "done")
    /\ outcome' = [outcome EXCEPT ![s] = how]
    /\ sendMu' = Nil

-----------------------------------------------------------------------------
(* handleInput and Send.                                                   *)

\* readDaemonMessages reads an input and starts a goroutine for it.
Receive(s) ==
    /\ pc[s] = "idle" /\ closer = "none"
    /\ \E raw \in Input : text' = [text EXCEPT ![s] = Normalise(raw)]
    /\ Goto(s, "queued")
    /\ UNCHANGED <<outcome, sendMu, done, end, failures, attempts, base, typed,
                   textSeen, enterSeen, cliVars, cancelled, closer, faults>>

\* Send has sendMu: the adapter may be closed and the input blank.
Begin(s) ==
    /\ pc[s] = "queued" /\ sendMu = Nil
    /\ \/ /\ closer = "closed"
          /\ Return(s, "failed") /\ UNCHANGED end
       \/ /\ closer # "closed" /\ IsBlank(text[s])
          /\ Return(s, "blank") /\ UNCHANGED end
       \/ /\ closer # "closed" /\ ~IsBlank(text[s])
          /\ sendMu' = s
          /\ end' = [end EXCEPT ![s] = ChunkEnd(text[s], 0)]
          /\ Goto(s, "try") /\ UNCHANGED outcome
    /\ UNCHANGED <<text, done, failures, attempts, base, typed, textSeen, enterSeen,
                   cliVars, cancelled, closer, faults>>

\* writeAllWithRetry: the context is looked at, and Write called.
WriteBegins(s) ==
    /\ pc[s] = "try" /\ ~cancelled
    /\ Goto(s, "writing")
    /\ UNCHANGED <<text, outcome, sendMu, done, end, failures, attempts, base, typed,
                   textSeen, enterSeen, cliVars, cancelled, closer, faults>>

\* The PTY takes some of the bytes; Write returns when it has taken all.
TakeText(s) ==
    /\ pc[s] = "writing" /\ ~IsEnter(s) /\ ~Broken
    /\ \E n \in 1 .. Len(text[s]) :
        /\ done[s] + n <= end[s]
        /\ typed' = typed \o [i \in 1 .. n |-> [from |-> s, byte |-> done[s] + i]]
        /\ done' = [done EXCEPT ![s] = @ + n]
        /\ IF done[s] + n < end[s] THEN UNCHANGED <<pc, failures, textSeen>>
           ELSE /\ Goto(s, "written")
                /\ failures' = [failures EXCEPT ![s] = 0]
                /\ textSeen' = [textSeen EXCEPT ![s] = activitySeq]
    /\ UNCHANGED <<text, outcome, sendMu, end, attempts, base, enterSeen, cliVars,
                   cancelled, closer, faults>>

\* An Enter is, among the bytes of its Send, the next after those taken before.
TakeEnter(s) ==
    /\ pc[s] = "writing" /\ IsEnter(s) /\ ~Broken
    /\ typed' = Append(typed, [from |-> s, byte |-> Len(text[s]) + attempts[s]])
    /\ Goto(s, "waiting")
    /\ failures' = [failures EXCEPT ![s] = 0]
    /\ enterSeen' = [enterSeen EXCEPT ![s] = activitySeq]
    /\ UNCHANGED <<text, outcome, sendMu, done, end, attempts, base, textSeen, cliVars,
                   cancelled, closer, faults>>

\* Mutant: after an error all is written again.
KeepNothing(s) == done' = [done EXCEPT ![s] = 0]

\* What was taken before an error is not written again.
KeepTaken(s) == UNCHANGED done

\* Write returns an error, and is called again or was the last try.
WriteFails(s) ==
    /\ pc[s] = "writing"
    /\ Broken \/ faults < MaxFaults
    /\ faults' = IF Broken THEN faults ELSE faults + 1
    /\ IF failures[s] + 1 < WriteAttempts
       THEN /\ failures' = [failures EXCEPT ![s] = @ + 1]
            /\ Goto(s, "pause")
            /\ UNCHANGED <<outcome, sendMu>>
       ELSE Return(s, "failed") /\ UNCHANGED failures
    /\ KeepTaken(s)
    /\ UNCHANGED <<text, end, attempts, base, typed, textSeen, enterSeen, cliVars,
                   cancelled, closer>>

PauseEnds(s) ==
    /\ pc[s] = "pause"
    /\ Goto(s, "try")
    /\ UNCHANGED <<text, outcome, sendMu, done, end, failures, attempts, base, typed,
                   textSeen, enterSeen, cliVars, cancelled, closer, faults>>

\* After chunkDelay.
NextChunk(s) ==
    /\ pc[s] = "written" /\ done[s] < Len(text[s])
    /\ end' = [end EXCEPT ![s] = ChunkEnd(text[s], done[s])]
    /\ Goto(s, "try")
    /\ UNCHANGED <<text, outcome, sendMu, done, failures, attempts, base, typed,
                   textSeen, enterSeen, cliVars, cancelled, closer, faults>>

\* Mutant: what was output since the beginning confirms.
SubscribedBefore(s) == UNCHANGED base

\* outputSubscription: the number of the latest output, and a channel that is closed
\* at the next one.
Subscription(s) == base' = [base EXCEPT ![s] = activitySeq]

\* After sendDelay or enterRetryDelay: Send subscribes, and is about to press Enter.
Subscribe(s) ==
    /\ \/ pc[s] = "written" /\ done[s] = Len(text[s])
       \/ pc[s] = "again"
    /\ Subscription(s)
    /\ attempts' = [attempts EXCEPT ![s] = @ + 1]
    /\ Goto(s, "try")
    /\ UNCHANGED <<text, outcome, sendMu, done, end, failures, typed, textSeen, enterSeen,
                   cliVars, cancelled, closer, faults>>

\* waitForOutput: the channel was closed.
Confirmed(s) ==
    /\ pc[s] = "waiting" /\ activitySeq > base[s]
    /\ Return(s, "confirmed")
    /\ UNCHANGED <<text, done, end, failures, attempts, base, typed, textSeen,
                   enterSeen, cliVars, cancelled, closer, faults>>

\* waitForOutput: confirmTimeout is over.
NotConfirmed(s) ==
    /\ pc[s] = "waiting"
    /\ IF attempts[s] < EnterAttempts
       THEN Goto(s, "again") /\ UNCHANGED <<outcome, sendMu>>
       ELSE Return(s, "failed")
    /\ UNCHANGED <<text, done, end, failures, attempts, base, typed, textSeen,
                   enterSeen, cliVars, cancelled, closer, faults>>

\* waitContext, waitForOutput and writeAllWithRetry see that the context is done.
SendCancelled(s) ==
    /\ pc[s] \in {"try", "pause", "written", "waiting", "again"} /\ cancelled
    /\ Return(s, "failed")
    /\ UNCHANGED <<text, done, end, failures, attempts, base, typed, textSeen,
                   enterSeen, cliVars, cancelled, closer, faults>>

-----------------------------------------------------------------------------
(* The CLI, readCliOutput, and cleanup.                                    *)

\* The CLI ends, by itself or because its context is done (exec.CommandContext).
CliExits ==
    /\ cli /\ cli' = FALSE
    /\ UNCHANGED <<sendVars, activitySeq, reading, cancelled, closer, faults>>

\* readCliOutput reads a line, which the CLI has output at any time before.
NotifyOutput ==
    /\ reading /\ activitySeq < MaxLines
    /\ activitySeq' = activitySeq + 1
    /\ UNCHANGED <<sendVars, reading, cli, cancelled, closer, faults>>

\* readCliOutput ends, whatever is left to read, and cancels the worker's context.
ReaderEnds ==
    /\ reading /\ (cancelled \/ Broken)
    /\ reading' = FALSE /\ cancelled' = TRUE
    /\ UNCHANGED <<sendVars, activitySeq, cli, closer, faults>>

\* A message to close or restart: cleanup cancels the context, ...
CloseBegins ==
    /\ closer = "none"
    /\ closer' = "input" /\ cancelled' = TRUE
    /\ UNCHANGED <<sendVars, cliVars, faults>>

\* ... closes the PTY, ...
CloseInput ==
    /\ closer = "input" /\ closer' = "adapter"
    /\ UNCHANGED <<sendVars, cliVars, cancelled, faults>>

\* ... and the adapter, which first takes sendMu.
CloseAdapter ==
    /\ closer = "adapter" /\ sendMu = Nil
    /\ closer' = "closed" /\ cli' = FALSE
    /\ UNCHANGED <<sendVars, activitySeq, reading, cancelled, faults>>

-----------------------------------------------------------------------------
\* What Send does by itself.
SendStep(s) ==
    \/ WriteBegins(s) \/ PauseEnds(s) \/ NextChunk(s) \/ Subscribe(s) \/ Confirmed(s)
    \/ NotConfirmed(s) \/ SendCancelled(s)

Next ==
    \/ \E s \in Sender :
        Receive(s) \/ Begin(s) \/ SendStep(s) \/ TakeText(s) \/ TakeEnter(s)
            \/ WriteFails(s)
    \/ CliExits \/ NotifyOutput \/ ReaderEnds
    \/ CloseBegins \/ CloseInput \/ CloseAdapter

Spec == Init /\ [][Next]_vars

\* Goroutines and timers go on, a write fails when the PTY is closed or the CLI gone,
\* and a CLI whose context is done is killed.  Whoever waits for sendMu gets it in the
\* end.  That the PTY takes anything is not assumed.
Fairness ==
    /\ \A s \in Sender :
        /\ WF_vars(SendStep(s))
        /\ WF_vars(Broken /\ WriteFails(s))
        /\ SF_vars(Begin(s))
    /\ WF_vars(ReaderEnds) /\ WF_vars(cancelled /\ CliExits)
    /\ WF_vars(CloseInput) /\ SF_vars(CloseAdapter)

FairSpec == Spec /\ Fairness

-----------------------------------------------------------------------------
TypeOK ==
    /\ pc \in [Sender -> Place]
    /\ outcome \in [Sender -> {"none", "blank", "failed", "confirmed"}]
    /\ sendMu \in Sender \union {Nil}
    /\ done \in [Sender -> Nat] /\ attempts \in [Sender -> 0 .. EnterAttempts]
    /\ failures \in [Sender -> 0 .. WriteAttempts - 1]
    /\ base \in [Sender -> Nat] /\ textSeen \in [Sender -> Nat]
    /\ enterSeen \in [Sender -> Nat]
    /\ activitySeq \in 0 .. MaxLines
    /\ reading \in BOOLEAN /\ cancelled \in BOOLEAN /\ cli \in BOOLEAN
    /\ closer \in {"none", "input", "adapter", "closed"}
    /\ faults \in 0 .. MaxFaults

\* What one Send types arrives once, in one piece and in order, its whole text before
\* its Enters, whatever writes fail half-way and whoever else sends; and nothing in
\* the text is an Enter.
SubmittedWhole ==
    \A p \in DOMAIN typed : LET b == typed[p] IN
        /\ IF b.byte = 1 THEN \A q \in 1 .. p - 1 : typed[q].from # b.from
           ELSE p > 1 /\ typed[p - 1] = [from |-> b.from, byte |-> b.byte - 1]
        /\ b.byte <= Len(text[b.from]) => text[b.from][b.byte] # "CR"

\* The output that confirms a Send was read after the PTY had the text, so that what
\* was read while it was typed does not confirm; and no output read after the Enter
\* is missed.
ConfirmedByOutput ==
    \A s \in Sender :
        /\ pc[s] = "waiting" => textSeen[s] <= base[s] /\ base[s] <= enterSeen[s]
        /\ outcome[s] = "confirmed" => activitySeq > textSeen[s]

\* When the worker's context is done every Send returns, one that is blocked in a
\* write too, and so does cleanup, which waits for them.
Quiet ==
    /\ \A s \in Sender : pc[s] \in {"idle", "done"}
    /\ closer \in {"none", "closed"}

WorkerEnds == cancelled ~> Quiet

-----------------------------------------------------------------------------
(* What a reader may expect, and the code does not do.                     *)

\* An Enter submits the input of its own Send alone: what a failed Send has typed
\* stays in the CLI, and goes with the next input.
SubmittedAlone ==
    \A p \in DOMAIN typed :
        typed[p].byte = 1 => p = 1 \/ typed[p - 1].byte > Len(text[typed[p - 1].from])
=============================================================================
