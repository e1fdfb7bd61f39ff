--------------------------- MODULE AidenSubmitProofs ---------------------------
(* What a Send types arrives whole, for any number of inputs of any length. *)
EXTENDS AidenSubmit, FiniteSetTheorems, TLAPS

Tag == [from : Sender, byte : Nat]

Busy == Place \ {"idle", "queued", "done"}

\* The number of the last byte of the sender at work that the PTY has taken.
LastByte(s) ==
    IF pc[s] \in {"waiting", "again"} THEN Len(text[s]) + attempts[s]
    ELSE IF IsEnter(s) THEN Len(text[s]) + attempts[s] - 1
    ELSE done[s]

NoCR(t) == Len(t) \in Nat /\ \A i \in 1 .. Len(t) : t[i] # "CR"

\* An Enter is tried again only as long as it may be.
Bounded ==
    \A s \in Sender :
        /\ pc[s] = "written" => attempts[s] = 0
        /\ pc[s] = "again" => attempts[s] < EnterAttempts

Types ==
    /\ \A s \in Sender : NoCR(text[s])
    /\ DOMAIN text = Sender
    /\ TypeOK
    /\ typed \in Seq(Tag)
    /\ Bounded

\* Whoever is at work in Send holds sendMu, and the other way round.
Exclusive == \A s \in Sender : pc[s] \in Busy <=> sendMu = s

\* What was read before stays read; Enter is pressed after the text and after
\* subscribing.
InOrder ==
    \A s \in Sender :
        /\ textSeen[s] <= activitySeq /\ base[s] <= activitySeq
        /\ pc[s] \in {"waiting", "again"} => attempts[s] > 0
        /\ pc[s] \in {"idle", "queued"} => attempts[s] = 0 /\ done[s] = 0
        /\ attempts[s] > 0 => done[s] = Len(text[s]) /\ textSeen[s] <= base[s]
        /\ pc[s] # "done" => outcome[s] = "none"

\* Who has typed nothing is not in typed, and who is at work has typed last.
Typing ==
    \A s \in Sender :
        /\ pc[s] \in {"idle", "queued"} => \A p \in DOMAIN typed : typed[p].from # s
        /\ pc[s] \in Busy =>
            IF LastByte(s) = 0 THEN \A p \in DOMAIN typed : typed[p].from # s
            ELSE /\ Len(typed) > 0
                 /\ typed[Len(typed)] = [from |-> s, byte |-> LastByte(s)]

SubmitInvariant ==
    /\ Types /\ Exclusive /\ InOrder /\ Typing
    /\ SubmittedWhole /\ ConfirmedByOutput

-----------------------------------------------------------------------------
(* Types.                                                                   *)

\* Whatever the input, its normalised form is finite and has no Enter in it.
LEMMA NormalisedNoCR ==
    ASSUME NEW raw \in Input PROVE NoCR(Normalise(raw))
<1> DEFINE kept == {i \in DOMAIN raw :
                      /\ \E k \in i .. Len(raw) : raw[k] \notin {"CR", "LF"}
                      /\ ~(raw[i] = "LF" /\ i > 1 /\ raw[i - 1] = "CR")}
           order == SetToSortSeq(kept, <)
           n == Cardinality(kept)
           t == [j \in 1 .. n |-> IF raw[order[j]] = "CR" THEN "LF" ELSE raw[order[j]]]
<1>1. n \in Nat
  <2>1. raw \in Seq(Byte) /\ Len(raw) \in Nat /\ DOMAIN raw = 1 .. Len(raw)
    BY InputAssumption
  <2>2. IsFiniteSet(1 .. Len(raw))
    BY <2>1, FS_Interval
  <2>3. IsFiniteSet(kept)
    BY <2>1, <2>2, FS_Subset
  <2> QED
    BY <2>3, FS_CardinalityType
<1>2. Normalise(raw) = t
  BY DEF Normalise
<1> HIDE DEF n, order
<1>3. t \in Seq({t[j] : j \in 1 .. n}) /\ Len(t) = n
  BY <1>1
<1>4. \A j \in 1 .. n : t[j] # "CR"
  OBVIOUS
<1> QED
  BY <1>1, <1>2, <1>3, <1>4 DEF NoCR

\* The first states have these types.
LEMMA InitTypes == Init => Types
<1> SUFFICES ASSUME Init PROVE Types
  OBVIOUS
<1>1. TypeOK
  <2> USE AidenBoundAssumption DEF Init, Place
  <2>1. 0 \in 0 .. EnterAttempts /\ 0 \in 0 .. WriteAttempts - 1 /\ 0 \in 0 .. MaxLines
        /\ 0 \in 0 .. MaxFaults
    OBVIOUS
  <2> QED
    BY <2>1 DEF TypeOK
<1>2. Len(<<>>) = 0 /\ <<>> \in Seq(Tag)
  OBVIOUS
<1> QED
  BY <1>1, <1>2 DEF Init, Types, Bounded, NoCR

\* Every step keeps them.
LEMMA TypesStep == Types /\ [Next]_vars => Types'
<1> SUFFICES ASSUME Types, [Next]_vars PROVE Types'
  OBVIOUS
<1> USE AidenBoundAssumption DEF Types, TypeOK, Bounded, Place, Goto, cliVars
<1>0. \A S, T, f : f \in [S -> T] =>
        \A x \in S, v \in T : [f EXCEPT ![x] = v] \in [S -> T]
  OBVIOUS
<1>00. activitySeq \in Nat /\ 0 \in 0 .. WriteAttempts - 1
  OBVIOUS
<1>1. ASSUME NEW s \in Sender, Receive(s) PROVE Types'
  <2>1. PICK raw \in Input : text' = [text EXCEPT ![s] = Normalise(raw)]
    BY <1>1 DEF Receive
  <2>2. \A x \in Sender : NoCR(text'[x])
    BY <2>1, NormalisedNoCR
  <2>3. TypeOK' /\ typed' = typed
    BY <1>1 DEF Receive
  <2>4. Bounded'
    BY <1>1 DEF Receive
  <2> HIDE DEF TypeOK, Bounded
  <2> QED
    BY <2>1, <2>2, <2>3, <2>4
<1>2. ASSUME NEW s \in Sender, Begin(s) PROVE Types'
  BY <1>2 DEF Begin, Return
<1>3. ASSUME NEW s \in Sender, SendStep(s) PROVE Types'
  <2>1. CASE WriteBegins(s) \/ PauseEnds(s) \/ NextChunk(s)
    <3>1. /\ pc' = [pc EXCEPT ![s] = "writing"] \/ pc' = [pc EXCEPT ![s] = "try"]
          /\ UNCHANGED <<text, outcome, sendMu, done, failures, attempts, base, typed,
                        textSeen, enterSeen, cliVars, cancelled, closer, faults>>
      BY <2>1 DEF WriteBegins, PauseEnds, NextChunk
    <3>2. Bounded'
      BY <3>1
    <3>3. TypeOK'
      BY <3>1
    <3> HIDE DEF TypeOK, Bounded
    <3> QED
      BY <3>1, <3>2, <3>3
  <2>2. CASE Confirmed(s) \/ SendCancelled(s)
    BY <2>2 DEF Confirmed, SendCancelled, Return
  <2>3. CASE NotConfirmed(s)
    BY <2>3 DEF NotConfirmed, Return
  <2>4. CASE Subscribe(s)
    <3>1. attempts[s] + 1 \in 0 .. EnterAttempts
      <4>1. attempts[s] \in 0 .. EnterAttempts
        OBVIOUS
      <4>2. attempts[s] < EnterAttempts
        BY <2>4 DEF Subscribe
      <4> HIDE DEF Types, TypeOK, Bounded
      <4> QED
        BY <4>1, <4>2
    <3>2. Bounded'
      BY <2>4 DEF Subscribe
    <3>3. TypeOK'
      BY <2>4, <3>1, <1>00 DEF Subscribe, Subscription
    <3> HIDE DEF TypeOK, Bounded
    <3> QED
      BY <2>4, <3>2, <3>3 DEF Subscribe
  <2> QED
    BY <1>3, <2>1, <2>2, <2>3, <2>4 DEF SendStep
<1>4. ASSUME NEW s \in Sender, TakeText(s) PROVE Types'
  <2>1. PICK n \in 1 .. Len(text[s]) :
            /\ typed' = typed \o [i \in 1 .. n |-> [from |-> s, byte |-> done[s] + i]]
            /\ done' = [done EXCEPT ![s] = @ + n]
            /\ pc' = pc \/ pc' = [pc EXCEPT ![s] = "written"]
            /\ failures' = failures \/ failures' = [failures EXCEPT ![s] = 0]
            /\ textSeen' = textSeen \/ textSeen' = [textSeen EXCEPT ![s] = activitySeq]
    BY <1>4 DEF TakeText
  <2> HIDE DEF Bounded
  <2>2. n \in Nat /\ done[s] + n \in Nat
    BY <2>1 DEF NoCR
  <2>3. [i \in 1 .. n |-> [from |-> s, byte |-> done[s] + i]] \in Seq(Tag)
    <3>1. done[s] \in Nat
      OBVIOUS
    <3> HIDE DEF Types, TypeOK
    <3>2. \A i \in 1 .. n : [from |-> s, byte |-> done[s] + i] \in Tag
      BY <2>2, <3>1 DEF Tag
    <3> QED
      BY <2>2, <3>2
  <2>4. typed' \in Seq(Tag)
    BY <2>1, <2>3
  <2>5. done' \in [Sender -> Nat] /\ pc' \in [Sender -> Place]
        /\ failures' \in [Sender -> 0 .. WriteAttempts - 1]
        /\ textSeen' \in [Sender -> Nat]
    <3>1. done' \in [Sender -> Nat]
      BY <2>1, <2>2
    <3>2. pc' \in [Sender -> Place]
      BY <2>1
    <3>3. failures' \in [Sender -> 0 .. WriteAttempts - 1]
      <4>1. failures \in [Sender -> 0 .. WriteAttempts - 1]
        OBVIOUS
      <4> HIDE DEF Types, TypeOK
      <4> QED
        BY <2>1, <1>0, <1>00, <4>1
    <3>4. textSeen' \in [Sender -> Nat]
      <4>1. textSeen \in [Sender -> Nat]
        OBVIOUS
      <4> HIDE DEF Types, TypeOK
      <4> QED
        BY <2>1, <1>0, <1>00, <4>1
    <3> QED
      BY <3>1, <3>2, <3>3, <3>4
  <2>6. Bounded'
    <3>1. attempts' = attempts /\ attempts[s] = 0
      BY <1>4 DEF TakeText, IsEnter
    <3> QED
      BY <2>1, <3>1 DEF Bounded
  <2> QED
    BY <1>4, <2>4, <2>5, <2>6 DEF TakeText
<1>5. ASSUME NEW s \in Sender, TakeEnter(s) PROVE Types'
  <2>1. [from |-> s, byte |-> Len(text[s]) + attempts[s]] \in Tag
    <3>1. attempts[s] \in Nat /\ Len(text[s]) \in Nat
      BY DEF NoCR
    <3> HIDE DEF Types, TypeOK
    <3> QED
      BY <3>1 DEF Tag
  <2>2. typed' \in Seq(Tag)
    BY <1>5, <2>1 DEF TakeEnter
  <2>3. 0 \in 0 .. WriteAttempts - 1 /\ activitySeq \in Nat
    OBVIOUS
  <2> QED
    BY <1>5, <2>2, <2>3 DEF TakeEnter
<1>6. ASSUME NEW s \in Sender, WriteFails(s) PROVE Types'
  <2>1. faults' \in 0 .. MaxFaults
    BY <1>6 DEF WriteFails
  <2>2. failures' \in [Sender -> 0 .. WriteAttempts - 1]
    <3>1. \/ failures' = failures
          \/ /\ failures[s] + 1 < WriteAttempts
             /\ failures' = [failures EXCEPT ![s] = failures[s] + 1]
      BY <1>6 DEF WriteFails
    <3>2. failures[s] + 1 < WriteAttempts => failures[s] + 1 \in 0 .. WriteAttempts - 1
      <4>1. failures[s] \in 0 .. WriteAttempts - 1
        OBVIOUS
      <4> HIDE DEF Types, TypeOK
      <4> QED
        BY <4>1
    <3>3. failures \in [Sender -> 0 .. WriteAttempts - 1]
      OBVIOUS
    <3> HIDE DEF Types, TypeOK
    <3> QED
      BY <3>1, <3>2, <3>3, <1>0
  <2>3. /\ pc' \in [Sender -> Place]
        /\ outcome' \in [Sender -> {"none", "blank", "failed", "confirmed"}]
        /\ sendMu' \in Sender \union {Nil} /\ Bounded'
    BY <1>6 DEF WriteFails, Return
  <2>4. TypeOK'
    <3>1. UNCHANGED <<done, attempts, base, textSeen, enterSeen, activitySeq, reading,
                      cli, cancelled, closer>>
      BY <1>6 DEF WriteFails, KeepTaken
    <3> QED
      BY <2>1, <2>2, <2>3, <3>1
  <2>5. text' = text /\ typed' = typed
    BY <1>6 DEF WriteFails
  <2> HIDE DEF TypeOK, Bounded
  <2> QED
    BY <2>3, <2>4, <2>5
<1>7. CASE CliExits \/ NotifyOutput \/ ReaderEnds
  <2>1. activitySeq' \in 0 .. MaxLines
    BY <1>7 DEF CliExits, NotifyOutput, ReaderEnds
  <2>2. reading' \in BOOLEAN /\ cli' \in BOOLEAN /\ cancelled' \in BOOLEAN
        /\ UNCHANGED <<sendVars, closer, faults>>
    BY <1>7 DEF CliExits, NotifyOutput, ReaderEnds
  <2> QED
    BY <2>1, <2>2 DEF sendVars
<1>8. CASE CloseBegins \/ CloseInput \/ CloseAdapter
  BY <1>8 DEF CloseBegins, CloseInput, CloseAdapter, sendVars
<1>9. CASE UNCHANGED vars
  BY <1>9 DEF vars, sendVars
<1> QED
  BY <1>1, <1>2, <1>3, <1>4, <1>5, <1>6, <1>7, <1>8, <1>9 DEF Next
-----------------------------------------------------------------------------
(* What was typed.                                                         *)

\* The PTY takes the n bytes of a Send that follow the first k.
TakesMore(s, k, n) ==
    typed' = typed \o [i \in 1 .. n |-> [from |-> s, byte |-> k + i]]

\* The bytes follow what the PTY took of the Send before.
LEMMA TypeMore ==
    ASSUME Types, SubmittedWhole, NEW s \in Sender, NEW k \in Nat, NEW n \in Nat \ {0},
           IF k = 0 THEN \A p \in DOMAIN typed : typed[p].from # s
           ELSE Len(typed) > 0 /\ typed[Len(typed)] = [from |-> s, byte |-> k],
           TakesMore(s, k, n), text' = text
    PROVE  /\ SubmittedWhole'
           /\ Len(typed') > 0 /\ typed'[Len(typed')] = [from |-> s, byte |-> k + n]
           /\ \A x \in Sender : x # s /\ (\A p \in DOMAIN typed : typed[p].from # x)
                => \A p \in DOMAIN typed' : typed'[p].from # x
<1> DEFINE more == [i \in 1 .. n |-> [from |-> s, byte |-> k + i]]
           L == Len(typed)
<1>0. n \in Nat /\ n > 0 /\ \A i \in 1 .. n : i \in Nat /\ i >= 1 /\ k + i \in Nat
  OBVIOUS
<1>1. typed \in Seq(Tag) /\ more \in Seq(Tag) /\ Len(more) = n /\ L \in Nat
      /\ DOMAIN typed = 1 .. L
  BY DEF Types, Tag
<1>2. /\ typed' \in Seq(Tag) /\ Len(typed') = L + n /\ DOMAIN typed' = 1 .. L + n
      /\ \A p \in 1 .. L : typed'[p] = typed[p]
      /\ \A i \in 1 .. n : typed'[L + i] = more[i]
  BY <1>1 DEF TakesMore
<1>3. \A p \in 1 .. L + n : p \in 1 .. L \/ \E i \in 1 .. n : p = L + i
  <2> SUFFICES ASSUME NEW p \in 1 .. L + n, p \notin 1 .. L PROVE \E i \in 1 .. n : p = L + i
    OBVIOUS
  <2>1. p - L \in 1 .. n /\ p = L + (p - L)
    BY <1>1
  <2> QED
    BY <2>1
<1>4. \A i \in 1 .. n : typed'[L + i] = [from |-> s, byte |-> k + i]
  BY <1>2
<1> HIDE DEF more, L
<1>5. SubmittedWhole'
  <2> SUFFICES ASSUME NEW p \in 1 .. L + n
      PROVE  LET b == typed'[p] IN
             /\ IF b.byte = 1 THEN \A q \in 1 .. p - 1 : typed'[q].from # b.from
                ELSE p > 1 /\ typed'[p - 1] = [from |-> b.from, byte |-> b.byte - 1]
             /\ b.byte <= Len(text[b.from]) => text[b.from][b.byte] # "CR"
    BY <1>2 DEF SubmittedWhole
  <2>1. CASE p \in 1 .. L
    <3>1. typed'[p] = typed[p] /\ \A q \in 1 .. p - 1 : typed'[q] = typed[q]
      BY <1>1, <1>2, <2>1
    <3>2. p > 1 => p - 1 \in 1 .. L /\ typed'[p - 1] = typed[p - 1]
      BY <1>1, <1>2, <2>1
    <3> QED
      BY <1>1, <2>1, <3>1, <3>2 DEF SubmittedWhole
  <2>2. CASE p \notin 1 .. L
    <3>1. PICK i \in 1 .. n : p = L + i
      BY <1>3, <2>2
    <3>2. typed'[p] = [from |-> s, byte |-> k + i] /\ k + i \in Nat /\ i >= 1
      <4>1. typed'[p] = [from |-> s, byte |-> k + i]
        BY <1>4, <3>1
      <4> QED
        BY <1>0, <4>1
    <3>3. k + i = 1 => \A q \in 1 .. p - 1 : typed'[q].from # s
      <4> SUFFICES ASSUME k + i = 1, NEW q \in 1 .. p - 1 PROVE typed'[q].from # s
        OBVIOUS
      <4>1. k = 0 /\ i = 1
        BY <3>2
      <4>2. q \in 1 .. L
        BY <1>1, <3>1, <4>1
      <4> QED
        BY <1>1, <1>2, <4>1, <4>2
    <3>4. k + i # 1 => p > 1 /\ typed'[p - 1] = [from |-> s, byte |-> k + i - 1]
      <4>1. CASE i = 1
        BY <1>1, <1>2, <3>1, <4>1 DEF L
      <4>2. CASE i # 1
        <5>1. i - 1 \in 1 .. n /\ p - 1 = L + (i - 1) /\ p > 1
          BY <1>1, <3>1, <4>2
        <5>2. typed'[L + (i - 1)] = [from |-> s, byte |-> k + (i - 1)]
          BY <1>4, <5>1
        <5> QED
          BY <5>1, <5>2
      <4> QED
        BY <4>1, <4>2
    <3>5. k + i <= Len(text[s]) => text[s][k + i] # "CR"
      <4>1. NoCR(text[s]) /\ k + i >= 1
        BY DEF Types
      <4> QED
        BY <3>2, <4>1 DEF NoCR
    <3> HIDE DEF NoCR
    <3>6. typed'[p].from = s /\ typed'[p].byte = k + i
      BY <3>2
    <3> DEFINE b == typed'[p]
    <3>7. b.from = s /\ b.byte = k + i
      BY <3>6
    <3> HIDE DEF b
    <3>8. IF b.byte = 1 THEN \A q \in 1 .. p - 1 : typed'[q].from # b.from
          ELSE p > 1 /\ typed'[p - 1] = [from |-> b.from, byte |-> b.byte - 1]
      <4>1. CASE k + i = 1
        BY <3>3, <3>7, <4>1
      <4>2. CASE k + i # 1
        BY <3>4, <3>7, <4>2
      <4> QED
        BY <3>7, <4>1, <4>2
    <3>9. b.byte <= Len(text[b.from]) => text[b.from][b.byte] # "CR"
      BY <3>5, <3>7
    <3> QED
      BY <3>8, <3>9 DEF b
  <2> QED
    BY <2>1, <2>2
<1>6. Len(typed') > 0 /\ typed'[Len(typed')] = [from |-> s, byte |-> k + n]
  BY <1>1, <1>2, <1>4
<1>7. ASSUME NEW x \in Sender, x # s, \A p \in DOMAIN typed : typed[p].from # x,
             NEW p \in DOMAIN typed'
      PROVE  typed'[p].from # x
  <2>1. CASE p \in 1 .. L
    BY <1>1, <1>2, <1>7, <2>1
  <2>2. CASE p \notin 1 .. L
    <3>1. PICK i \in 1 .. n : p = L + i
      BY <1>2, <1>3, <1>7, <2>2
    <3>2. typed'[p] = [from |-> s, byte |-> k + i]
      BY <1>4, <3>1
    <3>3. typed'[p].from = s
      BY <3>2
    <3> QED
      BY <1>7, <3>3
  <2> QED
    BY <2>1, <2>2
<1> QED
  BY <1>5, <1>6, <1>7

-----------------------------------------------------------------------------
(* The other parts.                                                        *)

\* The first states have all parts of the invariant.
LEMMA InitInvariant == Init => SubmitInvariant
<1> SUFFICES ASSUME Init PROVE SubmitInvariant
  OBVIOUS
<1>1. Types
  BY InitTypes
<1>2. Exclusive
  BY SenderAssumption DEF Init, Exclusive, Busy
<1>3. InOrder
  BY DEF Init, InOrder
<1>4. DOMAIN typed = {}
  BY DEF Init
<1>5. Typing
  BY <1>4 DEF Init, Typing, Busy
<1>6. SubmittedWhole
  BY <1>4 DEF SubmittedWhole
<1>7. ConfirmedByOutput
  BY DEF Init, ConfirmedByOutput
<1> QED
  BY <1>1, <1>2, <1>3, <1>5, <1>6, <1>7 DEF SubmitInvariant

\* One goroutine at a time is at work in Send.
LEMMA ExclusiveStep == Types /\ Exclusive /\ [Next]_vars => Exclusive'
<1> SUFFICES ASSUME Types, Exclusive, [Next]_vars PROVE Exclusive'
  OBVIOUS
<1>0. pc \in [Sender -> Place] /\ sendMu \in Sender \union {Nil}
  BY DEF Types, TypeOK
<1> USE <1>0, SenderAssumption DEF Exclusive, Busy, Place, Goto
<1>1. ASSUME NEW s \in Sender, Receive(s) PROVE Exclusive'
  BY <1>1 DEF Receive
<1>2. ASSUME NEW s \in Sender, Begin(s) PROVE Exclusive'
  BY <1>2 DEF Begin, Return
<1>3. ASSUME NEW s \in Sender, SendStep(s) PROVE Exclusive'
  <2>1. CASE WriteBegins(s) \/ PauseEnds(s) \/ NextChunk(s)
    BY <2>1 DEF WriteBegins, PauseEnds, NextChunk
  <2>2. CASE Confirmed(s) \/ SendCancelled(s)
    <3>1. pc[s] \in Busy /\ pc' = [pc EXCEPT ![s] = "done"] /\ sendMu' = Nil
      BY <2>2 DEF Confirmed, SendCancelled, Return
    <3> QED
      BY <3>1
  <2>3. CASE NotConfirmed(s)
    BY <2>3 DEF NotConfirmed, Return
  <2>4. CASE Subscribe(s)
    BY <2>4 DEF Subscribe
  <2> QED
    BY <1>3, <2>1, <2>2, <2>3, <2>4 DEF SendStep
<1>4. ASSUME NEW s \in Sender, TakeText(s) PROVE Exclusive'
  BY <1>4 DEF TakeText
<1>5. ASSUME NEW s \in Sender, TakeEnter(s) PROVE Exclusive'
  BY <1>5 DEF TakeEnter
<1>6. ASSUME NEW s \in Sender, WriteFails(s) PROVE Exclusive'
  BY <1>6 DEF WriteFails, Return
<1>7. CASE CliExits \/ NotifyOutput \/ ReaderEnds \/ CloseBegins \/ CloseInput
           \/ CloseAdapter \/ UNCHANGED vars
  BY <1>7 DEF CliExits, NotifyOutput, ReaderEnds, CloseBegins, CloseInput,
      CloseAdapter, vars, sendVars
<1> QED
  BY <1>1, <1>2, <1>3, <1>4, <1>5, <1>6, <1>7 DEF Next

\* Text, subscription and Enter keep their order.
LEMMA InOrderStep == Types /\ InOrder /\ [Next]_vars => InOrder'
<1> SUFFICES ASSUME Types, InOrder, [Next]_vars PROVE InOrder'
  OBVIOUS
<1>0. /\ activitySeq \in Nat
      /\ \A s \in Sender : /\ done[s] \in Nat /\ attempts[s] \in Nat
                           /\ base[s] \in Nat /\ textSeen[s] \in Nat
  BY AidenBoundAssumption DEF Types, TypeOK
<1>00. pc \in [Sender -> Place] /\ done \in [Sender -> Nat] /\ base \in [Sender -> Nat]
       /\ textSeen \in [Sender -> Nat] /\ attempts \in [Sender -> 0 .. EnterAttempts]
       /\ outcome \in [Sender -> {"none", "blank", "failed", "confirmed"}]
       /\ DOMAIN text = Sender /\ Bounded
  BY DEF Types, TypeOK
<1> USE <1>0, <1>00 DEF InOrder, Goto, Place
<1>1. ASSUME NEW s \in Sender, Receive(s) PROVE InOrder'
  BY <1>1 DEF Receive, cliVars
<1>2. ASSUME NEW s \in Sender, Begin(s) PROVE InOrder'
  BY <1>2 DEF Begin, Return, cliVars
<1>3. ASSUME NEW s \in Sender, SendStep(s) PROVE InOrder'
  <2>1. CASE WriteBegins(s) \/ PauseEnds(s) \/ NextChunk(s)
    BY <2>1 DEF WriteBegins, PauseEnds, NextChunk, cliVars
  <2>2. CASE Confirmed(s) \/ SendCancelled(s)
    <3>1. /\ pc' = [pc EXCEPT ![s] = "done"]
          /\ \E how : outcome' = [outcome EXCEPT ![s] = how]
          /\ UNCHANGED <<text, done, attempts, base, textSeen, activitySeq>>
      BY <2>2 DEF Confirmed, SendCancelled, Return, cliVars
    <3> QED
      BY <3>1
  <2>3. CASE NotConfirmed(s)
    BY <2>3 DEF NotConfirmed, Return, cliVars
  <2>4. CASE Subscribe(s)
    BY <2>4 DEF Subscribe, Subscription, cliVars
  <2> QED
    BY <1>3, <2>1, <2>2, <2>3, <2>4 DEF SendStep
<1>4. ASSUME NEW s \in Sender, TakeText(s) PROVE InOrder'
  BY <1>4 DEF TakeText, IsEnter, cliVars
<1>5. ASSUME NEW s \in Sender, TakeEnter(s) PROVE InOrder'
  BY <1>5 DEF TakeEnter, IsEnter, cliVars
<1>6. ASSUME NEW s \in Sender, WriteFails(s) PROVE InOrder'
  BY <1>6 DEF WriteFails, KeepTaken, Return, cliVars
<1>7. CASE CliExits \/ NotifyOutput \/ ReaderEnds
  BY <1>7 DEF CliExits, NotifyOutput, ReaderEnds, sendVars
<1>8. CASE CloseBegins \/ CloseInput \/ CloseAdapter \/ UNCHANGED vars
  BY <1>8 DEF CloseBegins, CloseInput, CloseAdapter, vars, sendVars, cliVars
<1> QED
  BY <1>1, <1>2, <1>3, <1>4, <1>5, <1>6, <1>7, <1>8 DEF Next

\* What confirms a Send is an output after its text.
LEMMA ConfirmedStep ==
    Types /\ InOrder /\ ConfirmedByOutput /\ [Next]_vars => ConfirmedByOutput'
<1> SUFFICES ASSUME Types, InOrder, ConfirmedByOutput, [Next]_vars
    PROVE ConfirmedByOutput'
  OBVIOUS
<1>0. /\ activitySeq \in Nat
      /\ \A s \in Sender : base[s] \in Nat /\ textSeen[s] \in Nat /\ enterSeen[s] \in Nat
  BY AidenBoundAssumption DEF Types, TypeOK
<1>00. pc \in [Sender -> Place] /\ base \in [Sender -> Nat]
       /\ textSeen \in [Sender -> Nat] /\ enterSeen \in [Sender -> Nat]
       /\ outcome \in [Sender -> {"none", "blank", "failed", "confirmed"}]
  BY DEF Types, TypeOK
<1> USE <1>0, <1>00 DEF ConfirmedByOutput, Goto, Place
<1>1. ASSUME NEW s \in Sender, Receive(s) PROVE ConfirmedByOutput'
  BY <1>1 DEF Receive, cliVars
<1>2. ASSUME NEW s \in Sender, Begin(s) PROVE ConfirmedByOutput'
  BY <1>2 DEF Begin, Return, cliVars
<1>3. ASSUME NEW s \in Sender, SendStep(s) PROVE ConfirmedByOutput'
  <2>1. CASE WriteBegins(s) \/ PauseEnds(s) \/ NextChunk(s)
    BY <2>1 DEF WriteBegins, PauseEnds, NextChunk, cliVars
  <2>2. CASE Confirmed(s)
    BY <2>2 DEF Confirmed, Return, cliVars
  <2>3. CASE NotConfirmed(s)
    BY <2>3 DEF NotConfirmed, Return, cliVars
  <2>4. CASE Subscribe(s)
    BY <2>4 DEF Subscribe, Subscription, cliVars
  <2>5. CASE SendCancelled(s)
    BY <2>5 DEF SendCancelled, Return, cliVars
  <2> QED
    BY <1>3, <2>1, <2>2, <2>3, <2>4, <2>5 DEF SendStep
<1>4. ASSUME NEW s \in Sender, TakeText(s) PROVE ConfirmedByOutput'
  <2>1. /\ pc[s] = "writing" /\ outcome[s] = "none" /\ UNCHANGED <<outcome, base, enterSeen>>
        /\ activitySeq' = activitySeq
        /\ pc' = pc \/ pc' = [pc EXCEPT ![s] = "written"]
        /\ textSeen' = textSeen \/ textSeen' = [textSeen EXCEPT ![s] = activitySeq]
    BY <1>4 DEF TakeText, InOrder, cliVars
  <2> QED
    BY <2>1
<1>5. ASSUME NEW s \in Sender, TakeEnter(s) PROVE ConfirmedByOutput'
  BY <1>5 DEF TakeEnter, IsEnter, InOrder, cliVars
<1>6. ASSUME NEW s \in Sender, WriteFails(s) PROVE ConfirmedByOutput'
  BY <1>6 DEF WriteFails, Return, cliVars
<1>7. CASE CliExits \/ NotifyOutput \/ ReaderEnds
  BY <1>7 DEF CliExits, NotifyOutput, ReaderEnds, sendVars
<1>8. CASE CloseBegins \/ CloseInput \/ CloseAdapter \/ UNCHANGED vars
  BY <1>8 DEF CloseBegins, CloseInput, CloseAdapter, vars, sendVars, cliVars
<1> QED
  BY <1>1, <1>2, <1>3, <1>4, <1>5, <1>6, <1>7, <1>8 DEF Next

\* x goes on without having typed anything more.
Same(x) ==
    \/ pc'[x] = "done"
    \/ pc'[x] \in {"idle", "queued"} /\ pc[x] \in {"idle", "queued"}
    \/ /\ pc'[x] \in Busy
       /\ \/ pc[x] \in {"idle", "queued"} /\ LastByte(x)' = 0
          \/ pc[x] \in Busy /\ LastByte(x)' = LastByte(x)

\* When nobody types, it stays known who has typed what.
LEMMA TypingKept ==
    ASSUME Types, Typing, typed' = typed, \A x \in Sender : Same(x), Types'
    PROVE  Typing'
<1>1. pc' \in [Sender -> Place]
  BY DEF Types, TypeOK
<1>2. ASSUME NEW x \in Sender, pc'[x] \in {"idle", "queued"}
      PROVE  \A p \in DOMAIN typed : typed[p].from # x
  BY <1>2 DEF Typing, Same, Busy
<1>3. ASSUME NEW x \in Sender, pc'[x] \in Busy
      PROVE  IF LastByte(x)' = 0 THEN \A p \in DOMAIN typed : typed[p].from # x
             ELSE /\ Len(typed) > 0
                  /\ typed[Len(typed)] = [from |-> x, byte |-> LastByte(x)']
  <2>1. CASE pc[x] \in {"idle", "queued"} /\ LastByte(x)' = 0
    BY <2>1 DEF Typing
  <2>2. CASE pc[x] \in Busy /\ LastByte(x)' = LastByte(x)
    BY <2>2 DEF Typing
  <2> QED
    BY <1>3, <2>1, <2>2 DEF Same, Busy
<1> QED
  BY <1>2, <1>3 DEF Typing

\* Every other step than the PTY's leaves what was typed, and who has typed it.
LEMMA OthersSame ==
    ASSUME Types, InOrder, [Next]_vars,
           \A s \in Sender : ~TakeText(s) /\ ~TakeEnter(s)
    PROVE  typed' = typed /\ \A x \in Sender : Same(x)
<1>0. /\ \A s \in Sender : done[s] \in Nat /\ attempts[s] \in Nat /\ Len(text[s]) \in Nat
      /\ pc \in [Sender -> Place] /\ attempts \in [Sender -> 0 .. EnterAttempts]
      /\ done \in [Sender -> Nat] /\ DOMAIN text = Sender /\ Bounded
  BY AidenBoundAssumption DEF Types, TypeOK, NoCR
<1> USE <1>0 DEF Same, Goto, Place, Busy, LastByte, IsEnter
<1>1. ASSUME NEW s \in Sender, Receive(s)
      PROVE  typed' = typed /\ \A x \in Sender : Same(x)
  BY <1>1 DEF Receive
<1>2. ASSUME NEW s \in Sender, Begin(s)
      PROVE  typed' = typed /\ \A x \in Sender : Same(x)
  BY <1>2 DEF Begin, Return, InOrder
<1>3. ASSUME NEW s \in Sender, SendStep(s)
      PROVE  typed' = typed /\ \A x \in Sender : Same(x)
  <2>1. CASE WriteBegins(s) \/ PauseEnds(s) \/ NextChunk(s)
    BY <2>1 DEF WriteBegins, PauseEnds, NextChunk
  <2>2. CASE Confirmed(s) \/ SendCancelled(s)
    BY <2>2 DEF Confirmed, SendCancelled, Return
  <2>3. CASE NotConfirmed(s)
    BY <2>3 DEF NotConfirmed, Return
  <2>4. CASE Subscribe(s)
    BY <2>4 DEF Subscribe, Bounded
  <2> QED
    BY <1>3, <2>1, <2>2, <2>3, <2>4 DEF SendStep
<1>4. ASSUME NEW s \in Sender, WriteFails(s)
      PROVE  typed' = typed /\ \A x \in Sender : Same(x)
  BY <1>4 DEF WriteFails, KeepTaken, Return
<1>5. CASE CliExits \/ NotifyOutput \/ ReaderEnds \/ CloseBegins \/ CloseInput
           \/ CloseAdapter \/ UNCHANGED vars
  BY <1>5 DEF CliExits, NotifyOutput, ReaderEnds, CloseBegins, CloseInput,
      CloseAdapter, vars, sendVars
<1> QED
  BY <1>1, <1>2, <1>3, <1>4, <1>5 DEF Next

\* A step of the PTY types the bytes after those its sender has typed.
LEMMA TakeNext ==
    ASSUME Types, InOrder, NEW s \in Sender, TakeText(s) \/ TakeEnter(s)
    PROVE  /\ pc[s] \in Busy /\ pc'[s] \in Busy /\ text' = text /\ sendMu' = sendMu
           /\ \A x \in Sender : x # s => pc'[x] = pc[x]
           /\ LastByte(s) \in Nat
           /\ \E n \in Nat \ {0} : /\ TakesMore(s, LastByte(s), n)
                                   /\ LastByte(s)' = LastByte(s) + n
<1>0. /\ done[s] \in Nat /\ attempts[s] \in Nat /\ Len(text[s]) \in Nat
      /\ pc \in [Sender -> Place] /\ attempts \in [Sender -> 0 .. EnterAttempts]
      /\ done \in [Sender -> Nat] /\ typed \in Seq(Tag)
  <2>1. /\ pc \in [Sender -> Place] /\ attempts \in [Sender -> 0 .. EnterAttempts]
        /\ done \in [Sender -> Nat] /\ typed \in Seq(Tag) /\ NoCR(text[s])
    BY DEF Types, TypeOK
  <2>2. attempts[s] \in Nat
    BY <2>1, AidenBoundAssumption
  <2> QED
    BY <2>1, <2>2 DEF NoCR
<1>1. CASE TakeText(s)
  <2>1. PICK n \in 1 .. Len(text[s]) :
            /\ typed' = typed \o [i \in 1 .. n |-> [from |-> s, byte |-> done[s] + i]]
            /\ done' = [done EXCEPT ![s] = @ + n]
            /\ pc' = pc \/ pc' = [pc EXCEPT ![s] = "written"]
    BY <1>1 DEF TakeText, Goto
  <2>2. pc[s] = "writing" /\ attempts[s] = 0 /\ attempts' = attempts /\ text' = text
        /\ sendMu' = sendMu
    BY <1>0, <1>1 DEF TakeText, IsEnter
  <2>3. pc'[s] \in {"writing", "written"} /\ \A x \in Sender : x # s => pc'[x] = pc[x]
    BY <1>0, <2>1, <2>2
  <2>4. LastByte(s) = done[s]
    BY <1>0, <2>2 DEF LastByte, IsEnter
  <2>5. done'[s] = done[s] + n
    BY <1>0, <2>1
  <2>6. LastByte(s)' = done[s] + n
    BY <2>2, <2>3, <2>5 DEF LastByte, IsEnter
  <2>7. TakesMore(s, LastByte(s), n) /\ n \in Nat \ {0}
    BY <1>0, <2>1, <2>4 DEF TakesMore
  <2> QED
    BY <1>0, <2>2, <2>3, <2>4, <2>6, <2>7 DEF Busy, Place
<1>2. CASE TakeEnter(s)
  <2>1. /\ pc[s] = "writing" /\ attempts[s] > 0 /\ attempts' = attempts /\ text' = text
        /\ sendMu' = sendMu /\ pc' = [pc EXCEPT ![s] = "waiting"]
        /\ typed' = Append(typed, [from |-> s, byte |-> Len(text[s]) + attempts[s]])
    BY <1>2 DEF TakeEnter, IsEnter, Goto
  <2>2. pc'[s] = "waiting" /\ \A x \in Sender : x # s => pc'[x] = pc[x]
    BY <1>0, <2>1
  <2> DEFINE k == Len(text[s]) + attempts[s] - 1
  <2>3. LastByte(s) = k /\ LastByte(s)' = k + 1 /\ k \in Nat
    BY <1>0, <2>1, <2>2 DEF LastByte, IsEnter
  <2>4. TakesMore(s, k, 1)
    <3> DEFINE e == [from |-> s, byte |-> Len(text[s]) + attempts[s]]
               one == [i \in 1 .. 1 |-> [from |-> s, byte |-> k + i]]
    <3>1. k + 1 = Len(text[s]) + attempts[s]
      BY <1>0
    <3>2. one = <<e>>
      BY <3>1
    <3>3. Append(typed, e) = typed \o <<e>>
      <4>1. e \in Tag
        BY <1>0 DEF Tag
      <4> HIDE DEF e
      <4> QED
        BY <1>0, <4>1
    <3> QED
      BY <2>1, <3>2, <3>3 DEF TakesMore
  <2> HIDE DEF k
  <2> QED
    BY <1>0, <2>1, <2>2, <2>3, <2>4 DEF Busy, Place
<1> QED
  BY <1>1, <1>2

\* Who has typed what stays known, whatever the step, and it is whole.
LEMMA TypingStep ==
    SubmitInvariant /\ Types' /\ [Next]_vars => Typing' /\ SubmittedWhole'
<1> SUFFICES ASSUME SubmitInvariant, Types', [Next]_vars
    PROVE Typing' /\ SubmittedWhole'
  OBVIOUS
<1>1. ASSUME NEW s \in Sender, TakeText(s) \/ TakeEnter(s)
      PROVE  Typing' /\ SubmittedWhole'
  <2>1. /\ pc[s] \in Busy /\ pc'[s] \in Busy /\ text' = text /\ sendMu' = sendMu
        /\ \A x \in Sender : x # s => pc'[x] = pc[x]
        /\ LastByte(s) \in Nat
    BY <1>1, TakeNext DEF SubmitInvariant
  <2>2. PICK n \in Nat \ {0} : /\ TakesMore(s, LastByte(s), n)
                               /\ LastByte(s)' = LastByte(s) + n
    BY <1>1, TakeNext DEF SubmitInvariant
  <2>3. IF LastByte(s) = 0 THEN \A p \in DOMAIN typed : typed[p].from # s
        ELSE Len(typed) > 0 /\ typed[Len(typed)] = [from |-> s, byte |-> LastByte(s)]
    BY <2>1 DEF SubmitInvariant, Typing
  <2> DEFINE k == LastByte(s)
  <2>4. /\ SubmittedWhole'
        /\ Len(typed') > 0 /\ typed'[Len(typed')] = [from |-> s, byte |-> k + n]
        /\ \A x \in Sender : x # s /\ (\A p \in DOMAIN typed : typed[p].from # x)
             => \A p \in DOMAIN typed' : typed'[p].from # x
    <3>1. Types /\ SubmittedWhole
      BY DEF SubmitInvariant
    <3>2. k \in Nat
      BY <2>1
    <3>3. TakesMore(s, k, n) /\ text' = text
      BY <2>1, <2>2
    <3>4. IF k = 0 THEN \A p \in DOMAIN typed : typed[p].from # s
          ELSE Len(typed) > 0 /\ typed[Len(typed)] = [from |-> s, byte |-> k]
      BY <2>3
    <3> HIDE DEF k
    <3> QED
      BY <3>1, <3>2, <3>3, <3>4, TypeMore
  <2>5. \A x \in Sender : x # s => pc[x] \notin Busy
    BY <2>1 DEF SubmitInvariant, Exclusive
  <2>6. LastByte(s)' # 0
    BY <2>1, <2>2
  <2>7. Typing'
    <3>1. ASSUME NEW x \in Sender, x # s
          PROVE  /\ pc'[x] \notin Busy
                 /\ pc'[x] \in {"idle", "queued"} =>
                        \A p \in DOMAIN typed' : typed'[p].from # x
      BY <2>1, <2>4, <2>5, <3>1 DEF SubmitInvariant, Typing
    <3>2. pc'[s] \notin {"idle", "queued"}
      BY <2>1 DEF Busy
    <3>3. typed'[Len(typed')] = [from |-> s, byte |-> LastByte(s)']
      BY <2>2, <2>4
    <3> QED
      BY <2>4, <2>6, <3>1, <3>2, <3>3 DEF Typing
  <2> QED
    BY <2>4, <2>7
<1>2. ASSUME \A s \in Sender : ~TakeText(s) /\ ~TakeEnter(s)
      PROVE  Typing' /\ SubmittedWhole'
  <2>1. typed' = typed /\ \A x \in Sender : Same(x)
    BY <1>2, OthersSame DEF SubmitInvariant
  <2>2. Typing'
    BY <2>1, TypingKept DEF SubmitInvariant
  <2>3. \A p \in DOMAIN typed : text'[typed[p].from] = text[typed[p].from]
    <3>1. ASSUME NEW s \in Sender, Receive(s), NEW p \in DOMAIN typed
          PROVE  text'[typed[p].from] = text[typed[p].from]
      <4>1. typed[p].from # s
        BY <3>1 DEF SubmitInvariant, Typing, Receive
      <4> QED
        BY <3>1, <4>1 DEF Receive
    <3>2. (\A s \in Sender : ~Receive(s)) => text' = text
      BY <1>2 DEF Next, Begin, SendStep, WriteBegins, PauseEnds, NextChunk, Subscribe,
          Confirmed, NotConfirmed, SendCancelled, WriteFails, CliExits, NotifyOutput,
          ReaderEnds, CloseBegins, CloseInput, CloseAdapter, sendVars, vars
    <3> QED
      BY <3>1, <3>2
  <2>4. SubmittedWhole'
    BY <2>1, <2>3 DEF SubmitInvariant, SubmittedWhole
  <2> QED
    BY <2>2, <2>4
<1> QED
  BY <1>1, <1>2

-----------------------------------------------------------------------------
(* Theorems.                                                               *)

\* SubmitInvariant holds in every reachable state of Send, cleanup and the CLI.
THEOREM SubmitInvariantTheorem == Spec => []SubmitInvariant
<1>1. Init => SubmitInvariant
  BY InitInvariant
<1>2. SubmitInvariant /\ [Next]_vars => SubmitInvariant'
  <2> SUFFICES ASSUME SubmitInvariant, [Next]_vars PROVE SubmitInvariant'
    OBVIOUS
  <2>1. Types'
    BY TypesStep DEF SubmitInvariant
  <2> QED
    BY <2>1, ExclusiveStep, InOrderStep, ConfirmedStep, TypingStep DEF SubmitInvariant
<1> QED
  BY <1>1, <1>2, PTL DEF Spec

\* Send's variables always have their types.
THEOREM AidenTypeOK == Spec => []TypeOK
<1>1. SubmitInvariant => TypeOK
  BY DEF SubmitInvariant, Types
<1> QED
  BY <1>1, SubmitInvariantTheorem, PTL

\* What a Send types arrives once, in one piece and in order (writeAllWithRetry under
\* sendMu), and no character of the text submits it.
THEOREM SubmittedWholeTheorem == Spec => []SubmittedWhole
<1>1. SubmitInvariant => SubmittedWhole
  BY DEF SubmitInvariant
<1> QED
  BY <1>1, SubmitInvariantTheorem, PTL

\* Only output read after the PTY had the whole text confirms a Send, and no output
\* after the Enter is missed (outputSubscription before the Enter).
THEOREM ConfirmedByOutputTheorem == Spec => []ConfirmedByOutput
<1>1. SubmitInvariant => ConfirmedByOutput
  BY DEF SubmitInvariant
<1> QED
  BY <1>1, SubmitInvariantTheorem, PTL
=============================================================================
