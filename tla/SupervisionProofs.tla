--------------------------- MODULE SupervisionProofs ---------------------------
(***************************************************************************)
(* The retry budget for all limits: typing, the exact count of failed       *)
(* starts, the distance of starts once the budget is spent; and that short   *)
(* breaks are harmless.                                                     *)
(*                                                                         *)
(* The invariant says three things of an open session.  A worker whose      *)
(* start may still be counted is one the monitor leaves alone (Spared): so  *)
(* none is displaced uncounted, and the count is exact (Exact).  As long as *)
(* a failure is counted and no start is pending, the budget's clock is not  *)
(* ahead of the last start (Clocked): so the cool-down keeps the starts     *)
(* apart.                                                                   *)
(*                                                                         *)
(* Whether a worker that lost its connection is spared depends on when it    *)
(* dials again; InTouch says how that relates to its last heartbeat.        *)
(***************************************************************************)
EXTENDS Supervision, TLAPS

Spared ==
    /\ Waiting /\ ~worker.counted => status = "SPAWNING"
    /\ IsReady => status = "READY"
    /\ Waiting => fruitless > uncounted
    /\ uncounted <= fruitless

Exact ==
    /\ count = Capped(fruitless - Pending - uncounted, MaxRetries)
    /\ IsReady => fruitless = 0

Clocked == count > 0 /\ Pending = 0 => lastRetry <= sinceSpawn

Budget == Spared /\ Exact /\ Clocked

IInv == TypeOK /\ (~closed => Budget)

(* The limits, as single facts.                                             *)
LEMMA Limits ==
    /\ MaxRetries \in Nat /\ MaxRetries > 0
    /\ Cooldown \in Nat /\ Cooldown > 0
    /\ ReadyTimeout \in Nat /\ ReadyTimeout > 0
    /\ CliTimeout \in Nat /\ CliTimeout > 0
    /\ HbEvery \in Nat /\ HbEvery > 0
    /\ HbLimit \in Nat /\ HbLimit > 0
    /\ AliveLimit \in Nat /\ AliveLimit > 0 /\ HbEvery <= AliveLimit
    /\ GcEvery \in Nat /\ GcEvery > 0
    /\ IdleLimit \in Nat /\ IdleLimit > 0
    /\ CliTime \subseteq 0 .. CliTimeout
    /\ MaxFaults \in Nat
    /\ LeftBehind \subseteq [count : 0 .. MaxRetries, age : 0 .. Cooldown]
BY LimitAssumption, EnvironmentAssumption DEF Positive

(* The waits between dials are natural numbers.                             *)
LEMMA Waits ==
    /\ Len(Backoff) \in Nat /\ Len(Backoff) > 0
    /\ \A n \in 1 .. Len(Backoff) : Backoff[n] \in Nat
BY BackoffAssumption DEF Positive

(* What Capped returns.                                                     *)
LEMMA CappedFacts ==
    ASSUME NEW n \in Int, NEW cap \in Nat
    PROVE  /\ Capped(n, cap) \in Int
           /\ Capped(n, cap) <= cap /\ Capped(n, cap) <= n
           /\ n <= cap => Capped(n, cap) = n
           /\ n > cap => Capped(n, cap) = cap
BY DEF Capped

(* A worker is waiting, or serves or has served; None is neither.           *)
LEMMA WorkerKinds ==
    ASSUME worker \in Worker \cup {None}
    PROVE  /\ ~HasWorker => ~Waiting /\ ~IsReady
           /\ HasWorker => worker \in Worker /\ (Waiting <=> ~IsReady)
           /\ Waiting => HasWorker
           /\ IsReady => HasWorker
BY DEF Worker, None, HasWorker, Waiting, IsReady

(* A new worker is a worker, and its start is pending.                      *)
LEMMA NewWorkerFacts ==
    /\ NewWorker \in Worker
    /\ NewWorker.pc = "starting" /\ NewWorker.counted = FALSE
BY Limits, Waits DEF NewWorker, Worker

(* The ends of the ranges.                                                  *)
LEMMA Ends ==
    /\ 0 \in 0 .. AliveLimit /\ 0 \in 0 .. CliTimeout /\ 0 \in 0 .. Len(Backoff)
    /\ 0 \in 0 .. IdleLimit + 1 /\ IdleLimit + 1 \in 0 .. IdleLimit + 1
    /\ 0 \in 0 .. MaxRetries /\ 0 \in 0 .. MaxFaults
    /\ 0 \in 0 .. GcEvery /\ 0 .. GcEvery - 1 \subseteq 0 .. GcEvery
    /\ 0 \in 0 .. Cooldown /\ Cooldown \in 0 .. Cooldown
    /\ 0 \in 0 .. MaxRetries + 2 /\ 0 \in 0 .. 1 /\ 1 \in 0 .. 1
BY Limits, Waits

(* The initial states satisfy the invariant.                                *)
LEMMA InitIInv == Init => IInv
<1> SUFFICES ASSUME Init PROVE IInv
    OBVIOUS
<1>0. /\ closed = FALSE
      /\ needs \in CliTime /\ outage = 0 /\ faults = 0
  BY DEF Init
<1>1. CASE Created
  <2>1. /\ count \in 0 .. MaxRetries /\ lastRetry \in 0 .. Cooldown
        /\ fruitless = count + 1 /\ fruitless \in 0 .. MaxRetries + 2
        /\ idle = 0 /\ gcAge \in 0 .. GcEvery - 1
    BY <1>1, Limits DEF Created
  <2>2. CASE status = "SPAWNING" /\ worker = NewWorker /\ uncounted = 0 /\ sinceSpawn = 0
    <3>1. TypeOK
      BY <1>0, <2>1, <2>2, Ends, NewWorkerFacts DEF TypeOK
    <3>2. Waiting /\ ~IsReady /\ Pending = 1
      BY <2>2, NewWorkerFacts DEF Waiting, IsReady, Pending
    <3>3. Budget
      BY <2>1, <2>2, <3>2, Limits DEF Budget, Spared, Exact, Clocked, Capped
    <3> QED BY <3>1, <3>3 DEF IInv
  <2>3. CASE status = "RECOVERING" /\ worker = None /\ uncounted = 1 /\ sinceSpawn = lastRetry
    <3>1. TypeOK
      BY <1>0, <2>1, <2>3, Ends DEF TypeOK
    <3>2. ~Waiting /\ ~IsReady /\ Pending = 0
      BY <2>3 DEF None, Waiting, IsReady, Pending
    <3>3. Budget
      BY <2>1, <2>3, <3>2, Limits DEF Budget, Spared, Exact, Clocked, Capped
    <3> QED BY <3>1, <3>3 DEF IInv
  <2> QED BY <1>1, <2>2, <2>3 DEF Created
<1>2. CASE Restored
  <2>1. TypeOK
    BY <1>0, <1>2, Ends DEF Restored, TypeOK
  <2>2. ~Waiting /\ ~IsReady /\ Pending = 0
    BY <1>2 DEF Restored, None, Waiting, IsReady, Pending
  <2>3. Budget
    BY <1>2, <2>2, Limits DEF Restored, Budget, Spared, Exact, Clocked, Capped
  <2> QED BY <2>1, <2>3 DEF IInv
<1> QED BY <1>1, <1>2 DEF Init

(* The monitor does not touch a worker whose start is pending: whatever it   *)
(* starts, the starts before have all been counted.                          *)
LEMMA SpawnOnlyCounted ==
    ASSUME TypeOK, Budget, SpawnDue
    PROVE  /\ Pending = 0
           /\ count = Capped(fruitless - uncounted, MaxRetries)
           /\ fruitless - uncounted >= MaxRetries => sinceSpawn >= Cooldown
<1>1. Pending = 0
  BY WorkerKinds DEF TypeOK, Budget, Spared, SpawnDue, NeedsSpawn, IsAlive, Pending
<1>2. count = Capped(fruitless - uncounted, MaxRetries)
  BY <1>1, Limits DEF TypeOK, Budget, Exact
<1>3. ASSUME fruitless - uncounted >= MaxRetries PROVE sinceSpawn >= Cooldown
  <2>1. count = MaxRetries
    BY <1>2, <1>3, Limits DEF TypeOK, Capped
  <2>2. lastRetry >= Cooldown /\ lastRetry <= sinceSpawn
    BY <1>1, <2>1, Limits DEF SpawnDue, CoolingDown, Budget, Clocked, TypeOK
  <2> QED BY <2>2, Limits DEF TypeOK
<1> QED BY <1>1, <1>2, <1>3

-----------------------------------------------------------------------------
(* The steps, one lemma each                                                *)

LEMMA SpawnStep == IInv /\ Spawn => IInv'
<1> SUFFICES ASSUME IInv, Spawn PROVE IInv'
    OBVIOUS
<1>1. TypeOK'
  BY Limits, NewWorkerFacts DEF IInv, Spawn, TypeOK, Capped, envVars
<1>2. count = Capped(fruitless - uncounted, MaxRetries)
  BY SpawnOnlyCounted DEF IInv, Spawn
<1>3. Budget'
  BY <1>2, Limits, NewWorkerFacts
     DEF IInv, Spawn, TypeOK, Budget, Spared, Exact, Clocked, Pending, Waiting,
         IsReady, Capped
<1> QED BY <1>1, <1>3 DEF IInv

LEMMA SpawnFailsStep == IInv /\ SpawnFails => IInv'
<1> SUFFICES ASSUME IInv, SpawnFails PROVE IInv'
    OBVIOUS
<1>1. TypeOK'
  BY Limits DEF IInv, SpawnFails, recordSpawnFailure, TypeOK, Capped
<1>2. count = Capped(fruitless - uncounted, MaxRetries)
  BY SpawnOnlyCounted DEF IInv, SpawnFails
<1>3. Budget'
  BY <1>2, Limits
     DEF IInv, SpawnFails, recordSpawnFailure, TypeOK, Budget, Spared, Exact,
         Clocked, Pending, Waiting, IsReady, Capped, None
<1> QED BY <1>1, <1>3 DEF IInv

(* Counting a failed start makes the count that of all starts.               *)
LEMMA CountingIsExact ==
    ASSUME TypeOK, Budget, HasWorker, CountStartupFailure
    PROVE  /\ count' = Capped(fruitless - uncounted, MaxRetries)
           /\ count' \in 0 .. MaxRetries
           /\ lastRetry' \in 0 .. Cooldown
           /\ count' > 0 => lastRetry' <= sinceSpawn
<1>1. CASE MayCount
  <2>1. Pending = 1 /\ fruitless > uncounted
    BY <1>1, WorkerKinds DEF TypeOK, MayCount, Pending, Budget, Spared
  <2>2. count' = Capped(count + 1, MaxRetries) /\ lastRetry' = 0
    BY <1>1 DEF CountStartupFailure, recordSpawnFailure
  <2> QED BY <2>1, <2>2, Limits DEF TypeOK, Budget, Exact, Capped
<1>2. CASE ~MayCount
  <2>1. Pending = 0
    BY <1>2, WorkerKinds DEF TypeOK, MayCount, Pending
  <2>2. count' = count /\ lastRetry' = lastRetry
    BY <1>2 DEF CountStartupFailure, budgetVars
  <2> QED BY <2>1, <2>2, Limits DEF TypeOK, Budget, Exact, Clocked
<1> QED BY <1>1, <1>2

LEMMA ReadyTimesOutStep == IInv /\ ReadyTimesOut => IInv'
<1> SUFFICES ASSUME IInv, ReadyTimesOut PROVE IInv'
    OBVIOUS
<1>0. Waiting /\ HasWorker /\ worker \in Worker
  BY WorkerKinds DEF IInv, TypeOK, ReadyTimesOut, ReadyDue
<1>1. /\ count' = Capped(fruitless - uncounted, MaxRetries)
      /\ count' \in 0 .. MaxRetries
      /\ lastRetry' \in 0 .. Cooldown
      /\ count' > 0 => lastRetry' <= sinceSpawn
  BY <1>0, CountingIsExact DEF IInv, ReadyTimesOut
<1>2. /\ worker' \in Worker /\ worker'.pc = worker.pc
      /\ worker'.counted = TRUE
  BY <1>0 DEF ReadyTimesOut, Worker
<1>3. TypeOK'
  BY <1>1, <1>2 DEF IInv, ReadyTimesOut, TypeOK, historyVars, envVars
<1>4. Budget'
  BY <1>0, <1>1, <1>2, Limits
     DEF IInv, ReadyTimesOut, TypeOK, Budget, Spared, Exact, Clocked, Pending,
         Waiting, IsReady, historyVars
<1> QED BY <1>3, <1>4 DEF IInv

(* The end of the current worker, for whatever reason.                       *)
LEMMA ExitStep ==
    ASSUME IInv, ~closed, HasWorker, Exit,
           needs' = needs, outage' = outage, faults' \in 0 .. MaxFaults
    PROVE  IInv'
<1>1. /\ count' = Capped(fruitless - uncounted, MaxRetries)
      /\ count' \in 0 .. MaxRetries
      /\ lastRetry' \in 0 .. Cooldown
      /\ count' > 0 => lastRetry' <= sinceSpawn
  BY CountingIsExact DEF IInv, Exit
<1>2. TypeOK'
  BY <1>1 DEF IInv, Exit, TypeOK, historyVars
<1>3. Budget'
  BY <1>1, Limits
     DEF IInv, Exit, TypeOK, Budget, Spared, Exact, Clocked, Pending, Waiting,
         IsReady, None, historyVars
<1> QED BY <1>2, <1>3 DEF IInv

LEMMA BecomeReadyStep ==
    ASSUME IInv, ~closed, HasWorker, BecomeReady
    PROVE  IInv'
<1>1. worker \in Worker
  BY WorkerKinds DEF IInv, TypeOK
<1>2. worker' \in Worker /\ worker'.pc = "serving"
  <2>1. worker' = [worker EXCEPT !.pc = "serving", !.age = 0, !.watched = FALSE,
                                 !.hb = 0, !.dials = 0, !.wait = 0, !.left = 0]
    BY DEF BecomeReady
  <2>3. worker' \in Worker
    BY <1>1, <2>1, Ends DEF Worker
  <2>4. worker'.pc = "serving"
    BY <1>1, <2>1 DEF Worker
  <2> QED BY <2>3, <2>4
<1>3. /\ status' = "READY" /\ count' = 0 /\ lastRetry' = Cooldown
      /\ idle' = 0 /\ fruitless' = 0 /\ uncounted' = 0
      /\ UNCHANGED <<closed, gcAge, sinceSpawn, needs, outage, faults>>
  BY DEF BecomeReady, clearSpawnFailure, envVars
<1>4. TypeOK'
  BY <1>2, <1>3, Ends DEF IInv, TypeOK
<1>5. Budget'
  <2>1. ~Waiting' /\ IsReady' /\ Pending' = 0
    BY <1>2 DEF Waiting, IsReady, Pending
  <2> QED BY <1>3, <2>1, Limits DEF Budget, Spared, Exact, Clocked, Capped
<1> QED BY <1>4, <1>5 DEF IInv

(* Steps of a worker that leave the kind of worker it is.                    *)
LEMMA SameKindStep ==
    ASSUME IInv, ~closed, HasWorker,
           worker' \in Worker, worker'.counted = worker.counted,
           Waiting' <=> Waiting, IsReady' <=> IsReady,
           outage' \in Nat, faults' \in 0 .. MaxFaults,
           idle' \in 0 .. IdleLimit + 1,
           UNCHANGED <<status, closed, gcAge, budgetVars, historyVars, needs>>
    PROVE  IInv'
<1>1. TypeOK'
  BY DEF IInv, TypeOK, budgetVars, historyVars
<1>2. Pending' = Pending
  BY DEF Pending
<1>3. Budget'
  BY <1>2 DEF IInv, Budget, Spared, Exact, Clocked, budgetVars, historyVars
<1> QED BY <1>1, <1>3 DEF IInv

LEMMA HeartbeatStep == IInv /\ Heartbeat => IInv'
<1> SUFFICES ASSUME IInv, Heartbeat PROVE IInv'
    OBVIOUS
<1>1. IsReady /\ HasWorker /\ worker \in Worker
  BY WorkerKinds DEF IInv, TypeOK, Heartbeat, IsReady
<1>2. /\ worker' \in Worker /\ worker'.pc = worker.pc
      /\ worker'.counted = worker.counted
  <2>1. worker' = [worker EXCEPT !.hb = 0]
    BY DEF Heartbeat
  <2>3. worker' \in Worker
    BY <1>1, <2>1, Ends DEF Worker
  <2> QED BY <1>1, <2>1, <2>3 DEF Worker
<1> QED BY <1>1, <1>2, SameKindStep DEF Heartbeat, IInv, TypeOK, Waiting, IsReady, envVars

LEMMA DisconnectStep ==
    ASSUME IInv, NEW length \in Outage, Disconnect(length) PROVE IInv'
<1>1. HasWorker /\ worker \in Worker
  BY WorkerKinds DEF IInv, TypeOK, Disconnect, Waiting, IsReady
<1>2. length \in Nat
  BY EnvironmentAssumption
<1>5. /\ ~closed /\ outage' \in Nat /\ faults' \in 0 .. MaxFaults
      /\ idle' \in 0 .. IdleLimit + 1
      /\ UNCHANGED <<status, closed, gcAge, budgetVars, historyVars, needs>>
  BY <1>2, Limits DEF Disconnect, IInv, TypeOK
<1>3. CASE worker.pc = "starting"
  <2>1. /\ worker' \in Worker /\ worker'.pc = "severed"
        /\ worker'.counted = worker.counted
    <3>1. worker' = [worker EXCEPT !.pc = "severed"]
      BY <1>3 DEF Disconnect
    <3>2. worker' \in Worker
      BY <1>1, <3>1 DEF Worker
    <3> QED BY <1>1, <3>1, <3>2 DEF Worker
  <2>2. (Waiting' <=> Waiting) /\ (IsReady' <=> IsReady)
    BY <1>3, <2>1 DEF Waiting, IsReady
  <2> QED BY <1>1, <1>5, <2>1, <2>2, SameKindStep
<1>4. CASE worker.pc = "serving"
  <2>1. /\ worker' \in Worker /\ worker'.pc = "cut"
        /\ worker'.counted = worker.counted
    <3>1. worker' = [worker EXCEPT !.pc = "cut", !.dials = 1,
                                   !.wait = Backoff[1], !.left = length]
      BY <1>4 DEF Disconnect
    <3>2. 1 \in 0 .. Len(Backoff) /\ 1 \in 1 .. Len(Backoff) /\ Backoff[1] \in Nat
      BY Waits
    <3>3. worker' \in Worker
      BY <1>1, <1>2, <3>1, <3>2 DEF Worker
    <3> QED BY <1>1, <3>1, <3>3 DEF Worker
  <2>2. (Waiting' <=> Waiting) /\ (IsReady' <=> IsReady)
    BY <1>4, <2>1 DEF Waiting, IsReady
  <2> QED BY <1>1, <1>5, <2>1, <2>2, SameKindStep
<1> QED BY <1>3, <1>4 DEF Disconnect

LEMMA RedialFailsStep == IInv /\ RedialFails => IInv'
<1> SUFFICES ASSUME IInv, RedialFails PROVE IInv'
    OBVIOUS
<1>1. IsReady /\ HasWorker /\ worker \in Worker
  BY WorkerKinds DEF IInv, TypeOK, RedialFails, DialDue, IsReady
<1> DEFINE n == Capped(worker.dials + 1, Len(Backoff))
<1>2. n \in 1 .. Len(Backoff)
  BY <1>1, Waits DEF Worker, Capped
<1>3. worker' = [worker EXCEPT !.dials = n, !.wait = Backoff[n]]
  BY DEF RedialFails
<1>4. /\ worker' \in Worker /\ worker'.pc = worker.pc
      /\ worker'.counted = worker.counted
  <2>1. n \in 0 .. Len(Backoff) /\ Backoff[n] \in Nat
    BY <1>2, Waits
  <2> HIDE DEF n
  <2>2. worker' \in Worker
    BY <1>1, <1>3, <2>1 DEF Worker
  <2> QED BY <1>1, <1>3, <2>2 DEF Worker
<1> QED BY <1>1, <1>4, SameKindStep DEF RedialFails, IInv, TypeOK, Waiting, IsReady, envVars

LEMMA ActivityStep == IInv /\ Activity => IInv'
<1> SUFFICES ASSUME IInv, Activity PROVE IInv'
    OBVIOUS
<1>1. HasWorker /\ worker \in Worker
  BY WorkerKinds DEF IInv, TypeOK, Activity, IsReady
<1> QED BY <1>1, Limits, SameKindStep DEF Activity, IInv, TypeOK, Waiting, IsReady, envVars

LEMMA GcStep == IInv /\ (GcCloses(TRUE) \/ GcCloses(FALSE) \/ GcSpares) => IInv'
<1> SUFFICES ASSUME IInv, GcCloses(TRUE) \/ GcCloses(FALSE) \/ GcSpares PROVE IInv'
    OBVIOUS
<1>1. CASE GcCloses(TRUE) \/ GcCloses(FALSE)
  <2>1. /\ closed' = TRUE /\ status' = "CLOSED" /\ worker' = None /\ gcAge' = 0
        /\ UNCHANGED <<idle, count, lastRetry, fruitless, uncounted, sinceSpawn, needs,
                       outage, faults>>
    BY <1>1 DEF GcCloses, CloseSession, budgetVars, historyVars, envVars
  <2> QED BY <2>1, Limits DEF IInv, TypeOK
<1>2. CASE GcSpares
  <2>1. TypeOK'
    BY <1>2, Limits DEF IInv, TypeOK, GcSpares, budgetVars, historyVars, envVars
  <2>2. Budget'
    BY <1>2 DEF GcSpares, IInv, Budget, Spared, Exact, Clocked, Pending, Waiting,
                IsReady, budgetVars, historyVars
  <2> QED BY <2>1, <2>2 DEF IInv
<1> QED BY <1>1, <1>2

(* Time passes only while nothing is due: so a worker that waits is younger  *)
(* than CliTimeout, and one that is ready is alive, as a ready worker has no  *)
(* failure behind it and the monitor would not have cooled down.              *)
LEMMA TickStep == IInv /\ Tick => IInv'
<1> SUFFICES ASSUME IInv, Tick PROVE IInv'
    OBVIOUS
<1>1. TypeOK /\ Budget /\ ~closed /\ ~Due
  BY DEF IInv, Tick
<1>2. CASE ~HasWorker
  <2>1. worker' = worker
    BY <1>2 DEF Tick, HasWorker
  <2>2. TypeOK'
    BY <1>1, <2>1, Limits DEF Tick, TypeOK, Older, Capped, Due, GcDue, envVars
  <2>3. Budget'
    BY <1>1, <2>1, Limits
       DEF Tick, TypeOK, Budget, Spared, Exact, Clocked, Pending, Waiting, IsReady,
           Older, Capped
  <2> QED BY <2>2, <2>3 DEF IInv
<1>3. CASE HasWorker
  <2>0. worker \in Worker /\ (Waiting <=> ~IsReady) /\ worker' = Aged
    BY <1>1, <1>3, WorkerKinds DEF TypeOK, Tick
  <2>1. Waiting => worker.age + 1 \in 0 .. CliTimeout
    BY <1>1, <2>0, Limits DEF Due, CliDue, TypeOK, Worker
  <2>2. IsReady => worker.hb + 1 \in 0 .. AliveLimit
    <3> SUFFICES ASSUME IsReady PROVE worker.hb + 1 \in 0 .. AliveLimit
        OBVIOUS
    <3>1. ~Waiting /\ Pending = 0 /\ fruitless = 0 /\ uncounted = 0
      BY <1>1, <2>0 DEF Budget, Spared, Exact, Pending, TypeOK
    <3>2. count = 0
      BY <1>1, <3>1, Limits DEF Budget, Exact, Capped
    <3>3. ~NeedsSpawn
      BY <1>1, <3>2, Limits DEF Due, SpawnDue, CoolingDown
    <3>4. worker.hb < AliveLimit
      BY <1>1, <3>3 DEF NeedsSpawn, IsAlive, Budget, Spared
    <3> QED BY <2>0, <3>4, Limits DEF Worker
  <2>3. worker' \in Worker
    <3> DEFINE age  == IF Waiting THEN worker.age + 1 ELSE worker.age
               hb   == IF IsReady THEN worker.hb + 1 ELSE worker.hb
               wait == IF worker.wait > 0 THEN worker.wait - 1 ELSE 0
               left == IF worker.left > 0 THEN worker.left - 1 ELSE 0
    <3>1. age \in 0 .. CliTimeout /\ hb \in 0 .. AliveLimit
      BY <2>0, <2>1, <2>2 DEF Worker
    <3>2. wait \in Nat /\ left \in Nat
      BY <2>0 DEF Worker
    <3>3. worker' = [worker EXCEPT !.age = age, !.hb = hb, !.wait = wait, !.left = left]
      BY <2>0 DEF Aged
    <3> HIDE DEF age, hb, wait, left
    <3> QED BY <2>0, <3>1, <3>2, <3>3 DEF Worker
  <2>4. worker'.pc = worker.pc /\ worker'.counted = worker.counted
    BY <2>0 DEF Aged, Worker
  <2>5. TypeOK'
    BY <1>1, <2>3, Limits DEF Tick, TypeOK, Older, Capped, Due, GcDue, envVars
  <2>6. Pending' = Pending
    BY <2>4 DEF Pending, Waiting
  <2>7. Budget'
    BY <1>1, <2>4, <2>6, Limits
       DEF Tick, TypeOK, Budget, Spared, Exact, Clocked, Waiting, IsReady,
           Older, Capped
  <2> QED BY <2>5, <2>7 DEF IInv
<1> QED BY <1>2, <1>3

(* Every step keeps the invariant.                                          *)
LEMMA StepIInv == IInv /\ [Next]_vars => IInv'
<1> SUFFICES ASSUME IInv, [Next]_vars PROVE IInv'
    OBVIOUS
<1>0. CASE UNCHANGED vars
  BY <1>0 DEF vars, IInv, TypeOK, Budget, Spared, Exact, Clocked, Pending, Waiting,
              IsReady, budgetVars, historyVars, envVars
<1>1. CASE Tick
  BY <1>1, TickStep
<1>2. CASE Spawn
  BY <1>2, SpawnStep
<1>3. CASE SpawnFails
  BY <1>3, SpawnFailsStep
<1>4. CASE ReadyTimesOut
  BY <1>4, ReadyTimesOutStep
<1>5. CASE CliReady
  BY <1>5, WorkerKinds, BecomeReadyStep DEF CliReady, CliDue, IInv, TypeOK
<1>6. CASE HandshakeFails
  BY <1>6, WorkerKinds, ExitStep DEF HandshakeFails, CliDue, IInv, TypeOK, envVars
<1>7. CASE CliTimesOut
  BY <1>7, WorkerKinds, ExitStep DEF CliTimesOut, CliDue, IInv, TypeOK, envVars
<1>8. CASE Crash
  <2>1. faults' \in 0 .. MaxFaults
    BY <1>8, Limits DEF Crash, IInv, TypeOK
  <2> QED BY <1>8, <2>1, ExitStep DEF Crash
<1>9. CASE Heartbeat
  BY <1>9, HeartbeatStep
<1>10. CASE \E length \in Outage : Disconnect(length)
  BY <1>10, DisconnectStep
<1>11. CASE Redial
  BY <1>11, WorkerKinds, BecomeReadyStep DEF Redial, DialDue, IsReady, IInv, TypeOK
<1>12. CASE RedialFails
  BY <1>12, RedialFailsStep
<1>13. CASE Activity
  BY <1>13, ActivityStep
<1>14. CASE GcCloses(TRUE) \/ GcCloses(FALSE) \/ GcSpares
  BY <1>14, GcStep
<1> QED BY <1>0, <1>1, <1>2, <1>3, <1>4, <1>5, <1>6, <1>7, <1>8, <1>9, <1>10,
           <1>11, <1>12, <1>13, <1>14 DEF Next

(* In every reachable state the invariant holds.                            *)
LEMMA SpecIInv == Spec => []IInv
BY InitIInv, StepIInv, PTL DEF Spec

-----------------------------------------------------------------------------
(* The theorems                                                             *)

(* No age, count or wait passes the limit whose handler should have stopped  *)
(* it; in particular a ready worker whose heartbeats stay away is replaced   *)
(* the moment IsAlive turns false, the cool-down never holds that up.        *)
THEOREM SupervisionTypeOK == Spec => []TypeOK
BY SpecIInv, PTL DEF IInv

(* The budget is exactly the number of failed starts since the last READY,   *)
(* without one that failed in NewSession.                                    *)
THEOREM BudgetIsExact == Spec => []EachFailureCountedOnce
<1>1. IInv => EachFailureCountedOnce
  BY DEF IInv, Budget, Exact, EachFailureCountedOnce
<1> QED BY <1>1, SpecIInv, PTL

(* After MaxRetries fruitless starts, not counting one that failed in        *)
(* NewSession, there is one per Cooldown, for all values of the limits.      *)
THEOREM NoStormWithoutReady == Spec => NoSpawnStorm
<1>1. IInv /\ [Next]_vars
      => [Spawn /\ fruitless - uncounted >= MaxRetries => sinceSpawn >= Cooldown]_vars
  BY SpawnOnlyCounted DEF IInv, Spawn
<1> QED BY <1>1, SpecIInv, PTL DEF Spec, NoSpawnStorm

-----------------------------------------------------------------------------
(* Short breaks                                                            *)

(* A worker that serves has sent a heartbeat in time.  One that dials again  *)
(* after a short break is on its schedule: passed is the time since the      *)
(* break, the dials before the one it waits for have failed, and its last    *)
(* heartbeat is no older than the break and one heartbeat's interval.        *)
Follows(n, dial, passed) ==
    /\ DialsUntil(outage, n, dial)
    /\ worker.dials \in 1 .. n
    /\ passed + worker.wait = dial[worker.dials]
    /\ worker.hb <= HbEvery + passed
    /\ worker.left + passed <= outage \/ worker.left = 0

OnSchedule ==
    \E n \in 1 .. Len(Backoff) : \E dial \in [1 .. n -> 0 .. Grace] :
        \E passed \in Nat : Follows(n, dial, passed)

InTouch ==
    /\ worker.pc = "serving" => worker.hb <= HbEvery
    /\ ShortBreak => OnSchedule

(* A worker on schedule is neither dead to the monitor nor stale to the      *)
(* garbage collector.                                                       *)
LEMMA OnScheduleIsFresh ==
    ASSUME TypeOK, HasWorker, OnSchedule PROVE worker.hb <= HbLimit /\ worker.hb < AliveLimit
<1>1. worker \in Worker
  BY DEF TypeOK, HasWorker
<1>2. PICK n \in 1 .. Len(Backoff) : \E dial \in [1 .. n -> 0 .. Grace] :
        \E passed \in Nat : Follows(n, dial, passed)
  BY DEF OnSchedule
<1>3. PICK dial \in [1 .. n -> 0 .. Grace] : \E passed \in Nat : Follows(n, dial, passed)
  BY <1>2
<1>4. PICK passed \in Nat :
        /\ worker.dials \in 1 .. n
        /\ passed + worker.wait = dial[worker.dials] /\ worker.hb <= HbEvery + passed
  BY <1>3 DEF Follows
<1>5. dial[worker.dials] \in 0 .. Grace
  BY <1>4
<1>6. worker.wait \in Nat /\ worker.hb \in Nat
  BY <1>1, Limits DEF Worker
<1>7. worker.hb <= HbLimit
  BY <1>4, <1>5, <1>6, Limits DEF Grace
<1> QED BY <1>6, <1>7, Limits, GraceAssumption

(* The connection breaks: the schedule begins.                              *)
LEMMA DisconnectInTouch ==
    ASSUME IInv, InTouch, NEW length \in Outage, Disconnect(length) PROVE InTouch'
<1>1. HasWorker /\ worker \in Worker /\ length \in Nat /\ outage' = length
  BY WorkerKinds, EnvironmentAssumption
     DEF IInv, TypeOK, Disconnect, Waiting, IsReady
<1>2. CASE worker.pc = "starting"
  <2>1. worker' = [worker EXCEPT !.pc = "severed"]
    BY <1>2 DEF Disconnect
  <2>2. worker'.pc = "severed"
    BY <1>1, <2>1 DEF Worker
  <2> QED BY <2>2 DEF InTouch, ShortBreak
<1>3. CASE worker.pc = "serving"
  <2>1. worker' = [worker EXCEPT !.pc = "cut", !.dials = 1,
                                 !.wait = Backoff[1], !.left = length]
    BY <1>3 DEF Disconnect
  <2>2. /\ worker'.pc = "cut" /\ worker'.dials = 1 /\ worker'.wait = Backoff[1]
        /\ worker'.left = length /\ worker'.hb = worker.hb
    BY <1>1, <2>1 DEF Worker
  <2>3. worker.hb <= HbEvery
    BY <1>3 DEF InTouch
  <2>4. SUFFICES ASSUME length <= Grace PROVE OnSchedule'
    BY <1>1, <2>2 DEF InTouch, ShortBreak
  <2>5. PICK n \in 1 .. Len(Backoff) : \E d \in [1 .. n -> 0 .. Grace] : DialsUntil(length, n, d)
    BY <2>4, GraceAssumption
  <2>6. PICK d \in [1 .. n -> 0 .. Grace] : DialsUntil(length, n, d)
    BY <2>5
  <2>7. DialsUntil(outage, n, d)'
    BY <1>1, <2>6 DEF DialsUntil, Grace
  <2>8. worker'.dials \in 1 .. n /\ 0 + worker'.wait = d[worker'.dials]
    BY <2>2, <2>6, Waits DEF DialsUntil
  <2>9. worker'.hb <= HbEvery + 0 /\ worker'.left + 0 <= outage'
    BY <1>1, <2>2, <2>3, Limits DEF Worker
  <2>10. Follows(n, d, 0)'
    BY <2>7, <2>8, <2>9 DEF Follows
  <2> QED BY <2>10 DEF OnSchedule, Grace
<1> QED BY <1>2, <1>3 DEF Disconnect

(* A dial that fails is not the last of the schedule.                        *)
LEMMA RedialFailsInTouch == IInv /\ InTouch /\ RedialFails => InTouch'
<1> SUFFICES ASSUME IInv, InTouch, RedialFails PROVE InTouch'
    OBVIOUS
<1>1. HasWorker /\ worker \in Worker /\ worker.pc = "cut" /\ worker.wait = 0 /\ worker.left > 0
  BY WorkerKinds DEF IInv, TypeOK, RedialFails, DialDue, IsReady
<1> DEFINE m == Capped(worker.dials + 1, Len(Backoff))
<1>2. worker' = [worker EXCEPT !.dials = m, !.wait = Backoff[m]]
  BY DEF RedialFails
<1>3. /\ outage' = outage /\ worker'.dials = m /\ worker'.wait = Backoff[m]
      /\ worker'.hb = worker.hb /\ worker'.left = worker.left
      /\ worker'.pc = worker.pc
  <2> HIDE DEF m
  <2> QED BY <1>1, <1>2 DEF Worker, RedialFails, envVars
<1> HIDE DEF m
<1> SUFFICES ASSUME ShortBreak' PROVE OnSchedule'
  BY <1>1, <1>3 DEF InTouch
<1>4. OnSchedule
  BY <1>1, <1>3 DEF InTouch, ShortBreak, Grace
<1>5. PICK n \in 1 .. Len(Backoff) : \E dial \in [1 .. n -> 0 .. Grace] :
        \E passed \in Nat : Follows(n, dial, passed)
  BY <1>4 DEF OnSchedule
<1>6. PICK dial \in [1 .. n -> 0 .. Grace] : \E passed \in Nat : Follows(n, dial, passed)
  BY <1>5
<1>7. PICK passed \in Nat : Follows(n, dial, passed)
  BY <1>6
<1>8. /\ DialsUntil(outage, n, dial)
      /\ worker.dials \in 1 .. n
      /\ passed + worker.wait = dial[worker.dials]
      /\ worker.hb <= HbEvery + passed
      /\ worker.left + passed <= outage \/ worker.left = 0
  BY <1>7 DEF Follows
<1>9. worker.left \in Nat /\ outage \in Nat /\ n \in Nat /\ n <= Len(Backoff)
  BY <1>1, Waits DEF Worker, IInv, TypeOK
<1>10. dial[worker.dials] = passed /\ passed < outage
  BY <1>1, <1>8, <1>9
<1>11. worker.dials # n
  <2>1. outage <= dial[n]
    BY <1>8 DEF DialsUntil
  <2> QED BY <1>9, <1>10, <2>1
<1>12. m = worker.dials + 1 /\ m \in 2 .. n /\ m - 1 = worker.dials
  <2>1. worker.dials \in Nat /\ worker.dials >= 1 /\ worker.dials + 1 <= n
    BY <1>8, <1>9, <1>11
  <2>2. m = worker.dials + 1
    BY <1>9, <2>1, Waits DEF Capped, m
  <2> QED BY <1>9, <2>1, <2>2
<1>13. dial[m] = passed + Backoff[m]
  BY <1>8, <1>10, <1>12 DEF DialsUntil
<1>14. DialsUntil(outage, n, dial)'
  BY <1>3, <1>8 DEF DialsUntil, Grace
<1>15. worker'.dials \in 1 .. n /\ passed + worker'.wait = dial[worker'.dials]
  BY <1>3, <1>12, <1>13, <1>9
<1>16. worker'.hb <= HbEvery + passed /\ (worker'.left + passed <= outage' \/ worker'.left = 0)
  BY <1>3, <1>8
<1>17. Follows(n, dial, passed)'
  BY <1>14, <1>15, <1>16 DEF Follows
<1> QED BY <1>17 DEF OnSchedule, Grace

(* Time passes only while no dial and no heartbeat is due.                   *)
LEMMA TickInTouch == IInv /\ InTouch /\ Tick => InTouch'
<1> SUFFICES ASSUME IInv, InTouch, Tick PROVE InTouch'
    OBVIOUS
<1>1. ~Due /\ outage' = outage
  BY DEF Tick, envVars
<1>2. CASE ~HasWorker
  BY <1>2 DEF Tick, HasWorker, None, InTouch, ShortBreak
<1>3. CASE HasWorker
  <2>1. worker \in Worker /\ worker' = Aged
    BY <1>3 DEF IInv, TypeOK, HasWorker, Tick
  <2>2. /\ worker'.pc = worker.pc /\ worker'.dials = worker.dials
        /\ IsReady => worker'.hb = worker.hb + 1
        /\ worker.wait > 0 => worker'.wait = worker.wait - 1
        /\ worker'.left = IF worker.left > 0 THEN worker.left - 1 ELSE 0
    BY <2>1 DEF Aged, Worker
  <2>3. worker.hb \in Nat /\ worker.wait \in Nat /\ worker.left \in Nat /\ outage \in Nat
    BY <2>1, Limits DEF Worker, IInv, TypeOK
  <2>4. worker'.pc = "serving" => worker'.hb <= HbEvery
    BY <1>1, <2>2, <2>3, Limits DEF Due, BeatDue, IsReady
  <2>5. ASSUME ShortBreak' PROVE OnSchedule'
    <3>1. worker.pc = "cut" /\ worker.wait > 0 /\ OnSchedule
      BY <1>1, <2>2, <2>3, <2>5 DEF Due, DialDue, ShortBreak, InTouch
    <3>2. PICK n \in 1 .. Len(Backoff) : \E dial \in [1 .. n -> 0 .. Grace] :
            \E passed \in Nat : Follows(n, dial, passed)
      BY <3>1 DEF OnSchedule
    <3>3. PICK dial \in [1 .. n -> 0 .. Grace] : \E passed \in Nat : Follows(n, dial, passed)
      BY <3>2
    <3>4. PICK passed \in Nat : Follows(n, dial, passed)
      BY <3>3
    <3>5. /\ DialsUntil(outage, n, dial)
          /\ worker.dials \in 1 .. n
          /\ passed + worker.wait = dial[worker.dials]
          /\ worker.hb <= HbEvery + passed
          /\ worker.left + passed <= outage \/ worker.left = 0
      BY <3>4 DEF Follows
    <3>6. worker'.hb = worker.hb + 1 /\ worker'.wait = worker.wait - 1
      BY <2>2, <3>1 DEF IsReady
    <3>7. /\ passed + 1 \in Nat
          /\ (passed + 1) + worker'.wait = dial[worker'.dials]
          /\ worker'.hb <= HbEvery + (passed + 1)
      <4>1. (passed + 1) + (worker.wait - 1) = passed + worker.wait
        BY <2>3
      <4>2. (passed + 1) + worker'.wait = dial[worker'.dials]
        BY <2>2, <3>5, <3>6, <4>1
      <4>3. worker'.hb <= HbEvery + (passed + 1)
        BY <2>3, <3>5, <3>6, Limits
      <4> QED BY <4>2, <4>3
    <3>8. worker'.left + (passed + 1) <= outage' \/ worker'.left = 0
      <4>1. CASE worker.left = 0
        BY <2>2, <4>1
      <4>2. CASE worker.left > 0
        <5>1. worker'.left = worker.left - 1 /\ worker.left + passed <= outage
          BY <2>2, <2>3, <3>5, <4>2
        <5> QED BY <1>1, <2>3, <5>1
      <4> QED BY <2>3, <4>1, <4>2
    <3>9. DialsUntil(outage, n, dial)' /\ worker'.dials \in 1 .. n
      BY <1>1, <2>2, <3>5 DEF DialsUntil, Grace
    <3>10. Follows(n, dial, passed + 1)'
      BY <3>7, <3>8, <3>9 DEF Follows
    <3> QED BY <3>7, <3>10 DEF OnSchedule, Grace
  <2> QED BY <2>4, <2>5 DEF InTouch
<1> QED BY <1>2, <1>3

(* A worker that has just become ready has just been heard of.               *)
LEMMA BecomeReadyInTouch ==
    ASSUME IInv, HasWorker, BecomeReady PROVE InTouch'
<1>1. worker \in Worker
  BY DEF IInv, TypeOK, HasWorker
<1>2. worker' = [worker EXCEPT !.pc = "serving", !.age = 0, !.watched = FALSE,
                               !.hb = 0, !.dials = 0, !.wait = 0, !.left = 0]
  BY DEF BecomeReady
<1>3. worker'.pc = "serving" /\ worker'.hb = 0
  BY <1>1, <1>2 DEF Worker
<1> QED BY <1>3, Limits DEF InTouch, ShortBreak

(* Nothing changes for a worker that is left alone.                          *)
LEMMA SameWorkerInTouch ==
    ASSUME InTouch, UNCHANGED <<worker, outage>> PROVE InTouch'
BY DEF InTouch, ShortBreak, OnSchedule, Follows, DialsUntil, Grace

(* Every step keeps InTouch.                                                *)
LEMMA StepInTouch == IInv /\ InTouch /\ [Next]_vars => InTouch'
<1> SUFFICES ASSUME IInv, InTouch, [Next]_vars PROVE InTouch'
    OBVIOUS
<1>0. ASSUME worker' = None PROVE InTouch'
  BY <1>0 DEF None, InTouch, ShortBreak
<1>1. CASE Tick
  BY <1>1, TickInTouch
<1>2. CASE Spawn
  BY <1>2, NewWorkerFacts DEF Spawn, InTouch, ShortBreak
<1>3. CASE SpawnFails \/ HandshakeFails \/ CliTimesOut \/ Crash
           \/ GcCloses(TRUE) \/ GcCloses(FALSE)
  BY <1>0, <1>3 DEF SpawnFails, HandshakeFails, CliTimesOut, Crash, Exit, GcCloses,
                    CloseSession
<1>4. CASE ReadyTimesOut
  <2>1. Waiting /\ worker \in Worker
    BY <1>4, WorkerKinds DEF IInv, TypeOK, ReadyTimesOut, ReadyDue
  <2>2. worker'.pc = worker.pc
    BY <1>4, <2>1 DEF ReadyTimesOut, Worker
  <2> QED BY <2>1, <2>2 DEF Waiting, InTouch, ShortBreak
<1>5. CASE CliReady \/ Redial
  BY <1>5, WorkerKinds, BecomeReadyInTouch
     DEF CliReady, CliDue, Redial, DialDue, IsReady, IInv, TypeOK
<1>6. CASE Heartbeat
  <2>1. worker \in Worker /\ worker.pc = "serving" /\ worker' = [worker EXCEPT !.hb = 0]
    BY <1>6, WorkerKinds DEF Heartbeat, IsReady, IInv, TypeOK
  <2>2. worker'.pc = "serving" /\ worker'.hb = 0
    BY <2>1 DEF Worker
  <2> QED BY <2>2, Limits DEF InTouch, ShortBreak
<1>7. CASE \E length \in Outage : Disconnect(length)
  BY <1>7, DisconnectInTouch
<1>8. CASE RedialFails
  BY <1>8, RedialFailsInTouch
<1>9. CASE Activity \/ GcSpares \/ UNCHANGED vars
  BY <1>9, SameWorkerInTouch DEF Activity, GcSpares, vars, envVars
<1> QED BY <1>1, <1>2, <1>3, <1>4, <1>5, <1>6, <1>7, <1>8, <1>9 DEF Next

(* A worker that can dial again in time is neither replaced nor closed: the  *)
(* waits of reconnectToDaemon fit runGC's hbLimit, and that IsAlive's.       *)
THEOREM ShortBreaksAreHarmless == Spec => ShortBreakHarmless
<1>1. Init => InTouch
  BY NewWorkerFacts DEF Init, Created, Restored, None, InTouch, ShortBreak
<1>2. IInv /\ InTouch => ~((Spawn \/ GcCloses(TRUE)) /\ ShortBreak)
  <2> SUFFICES ASSUME IInv, InTouch, ShortBreak PROVE ~Spawn /\ ~GcCloses(TRUE)
      OBVIOUS
  <2>1. IsReady /\ HasWorker
    BY WorkerKinds DEF IInv, TypeOK, ShortBreak, IsReady
  <2>2. worker.hb <= HbLimit /\ worker.hb < AliveLimit
    BY <2>1, OnScheduleIsFresh DEF IInv, InTouch
  <2>3. ~Spawn
    BY <2>1, <2>2 DEF Spawn, SpawnDue, NeedsSpawn, IsAlive
  <2>4. ~GcCloses(TRUE)
    <3>1. worker.hb \in Nat
      BY <2>1, Limits DEF IInv, TypeOK, HasWorker, Worker
    <3> QED BY <2>2, <3>1, Limits DEF GcCloses, HeartbeatStale
  <2> QED BY <2>3, <2>4
<1>3. IInv /\ InTouch /\ [Next]_vars => [Spawn \/ GcCloses(TRUE) => ~ShortBreak]_vars
  BY <1>2
<1> QED BY <1>1, <1>3, SpecIInv, StepInTouch, PTL DEF Spec, ShortBreakHarmless
=============================================================================
