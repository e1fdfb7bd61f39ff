------------------------------ MODULE Supervision ------------------------------
(***************************************************************************)
(* The time limits under which one session is served: how long its worker  *)
(* may take to get ready, how often it is started again when it does not,   *)
(* when the worker of a broken connection dials again, and when the monitor *)
(* replaces it or the garbage collector closes the session instead.         *)
(*                                                                         *)
(* Time is counted in ticks.  A handler whose time has come runs before the *)
(* next tick, and those that are due at one tick run in any order.  The     *)
(* steps inside a handler, and workers that were displaced, are in          *)
(* SessionLifecycle.                                                        *)
(***************************************************************************)
EXTENDS Integers, Sequences

CONSTANTS
    MaxRetries,     \* maxSpawnRetries (5)
    Cooldown,       \* spawnRetryCooldown (60 s)
    ReadyTimeout,   \* monitorReady's timer (10 s)
    CliTimeout,     \* waitForCLIReady's timer (45 s)
    HbEvery,        \* heartbeatInterval (5 s)
    HbLimit,        \* runGC's hbLimit (20 s)
    AliveLimit,     \* IsAlive's limit (30 s)
    GcEvery,        \* periodicGC's ticker (30 s)
    IdleLimit,      \* runGC's idleLimit (15 min)
    Backoff,        \* the waits before the first dials; the last one repeats
    CliTime,        \* how long the CLI takes to get ready; CliTimeout: for ever
    Outage,         \* for how long a broken connection cannot be made again
    LeftBehind,     \* budgets that earlier sessions of the ID have left
    MaxFaults       \* bound: failed starts, crashes and broken connections

Positive == Nat \ {0}

ASSUME LimitAssumption ==
    /\ {MaxRetries, Cooldown, ReadyTimeout, CliTimeout, HbEvery, HbLimit,
        AliveLimit, GcEvery, IdleLimit} \subseteq Positive
    /\ HbEvery <= AliveLimit
    /\ ReadyTimeout <= CliTimeout
ASSUME BackoffAssumption == Backoff \in Seq(Positive) /\ Backoff # <<>>
ASSUME EnvironmentAssumption ==
    /\ CliTime \subseteq 0 .. CliTimeout /\ Outage \subseteq Nat /\ MaxFaults \in Nat
    /\ LeftBehind \subseteq [count : 0 .. MaxRetries, age : 0 .. Cooldown]

(* What is left of the garbage collector's limit after a heartbeat that was  *)
(* almost due.  dial says when the first n dials come, counted from the      *)
(* break: within that time, and the last not before the connection can be    *)
(* made again.  In the code they come after 1, 3, 7 and 15 s, and 15 = 20 - 5. *)
Grace == HbLimit - HbEvery

DialsUntil(length, n, dial) ==
    /\ dial \in [1 .. n -> 0 .. Grace]
    /\ dial[1] = Backoff[1]
    /\ \A k \in 2 .. n : dial[k] = dial[k - 1] + Backoff[k]
    /\ length <= dial[n]

ASSUME GraceAssumption ==
    /\ HbLimit < AliveLimit
    /\ \A length \in Outage : length <= Grace =>
        \E n \in 1 .. Len(Backoff) : \E dial \in [1 .. n -> 0 .. Grace] :
            DialsUntil(length, n, dial)

VARIABLES
    status, closed, \* the session's Status and Closed
    idle,           \* time since lastActive
    worker,         \* the current handle and its process, or None
    count,          \* spawnFailures of the ID: failed starts since the last
    lastRetry,      \* READY, and the time since lastRetry
    gcAge,          \* time since runGC
    needs,          \* how long this session's CLI takes to get ready
    outage,         \* of the connection that broke last
    faults,
    fruitless,      \* history: starts since the last READY, those included
                    \* that the session found counted when it was created
    uncounted,      \* history: of them, those that failed in NewSession (0, 1)
    sinceSpawn      \* history: time since the last of the others

budgetVars  == <<count, lastRetry>>
historyVars == <<fruitless, uncounted, sinceSpawn>>
envVars     == <<needs, outage, faults>>
vars == <<status, closed, idle, worker, gcAge, budgetVars, historyVars, envVars>>

None == [pc |-> "none"]

(* The process waits for its CLI over a connection that is sound ("starting") *)
(* or broken ("severed"); it serves; or it dials again ("cut").             *)
Worker == [pc : {"starting", "severed", "serving", "cut"},
           age     : 0 .. CliTimeout,   \* while it waits for its CLI
           watched : BOOLEAN,           \* monitorReady waits for it
           counted : BOOLEAN,           \* startupFailureRecorded
           hb      : 0 .. AliveLimit,   \* time since hbSeen
           dials   : 0 .. Len(Backoff),
           wait    : Nat,               \* time to the next dial
           left    : Nat]               \* for how long dials will fail

NewWorker == [pc |-> "starting", age |-> 0, watched |-> TRUE, counted |-> FALSE,
              hb |-> 0, dials |-> 0, wait |-> 0, left |-> 0]

HasWorker == worker # None
Waiting   == worker.pc \in {"starting", "severed"}
IsReady   == worker.pc \in {"serving", "cut"}    \* so h.Conn is set

Capped(n, cap)  == IF n > cap THEN cap ELSE n
Older(age, cap) == Capped(age + 1, cap)

TypeOK ==
    /\ status \in {"CREATED", "SPAWNING", "READY", "RECOVERING", "CLOSED"}
    /\ closed \in BOOLEAN
    /\ idle \in 0 .. IdleLimit + 1
    /\ worker \in Worker \cup {None}
    /\ count \in 0 .. MaxRetries
    /\ lastRetry \in 0 .. Cooldown
    /\ gcAge \in 0 .. GcEvery
    /\ needs \in CliTime
    /\ outage \in Nat
    /\ faults \in 0 .. MaxFaults
    /\ fruitless \in 0 .. MaxRetries + 2
    /\ uncounted \in 0 .. 1
    /\ sinceSpawn \in 0 .. Cooldown

(* A session that was just created, with the garbage collector anywhere in  *)
(* its period.  spawnFailures is kept by ID and outlives its session.  When  *)
(* NewSession cannot start the worker it returns the error; the session      *)
(* stays for the monitor, and the failure is not counted.                   *)
Created ==
    /\ idle = 0
    /\ gcAge \in 0 .. GcEvery - 1
    /\ \E left \in LeftBehind : count = left.count /\ lastRetry = left.age
    /\ fruitless = count + 1
    /\ \/ /\ status = "SPAWNING" /\ worker = NewWorker
          /\ uncounted = 0 /\ sinceSpawn = 0
       \/ /\ status = "RECOVERING" /\ worker = None
          /\ uncounted = 1 /\ sinceSpawn = lastRetry

(* One that the daemon has just restored.                                   *)
Restored ==
    /\ status = "CREATED" /\ worker = None
    /\ idle \in {0, IdleLimit + 1}
    /\ gcAge = 0
    /\ count = 0 /\ lastRetry = Cooldown
    /\ fruitless = 0 /\ uncounted = 0 /\ sinceSpawn = Cooldown

Init ==
    /\ closed = FALSE
    /\ needs \in CliTime
    /\ outage = 0 /\ faults = 0
    /\ Created \/ Restored

-----------------------------------------------------------------------------
(* The retry budget                                                         *)

recordSpawnFailure == count' = Capped(count + 1, MaxRetries) /\ lastRetry' = 0

clearSpawnFailure == count' = 0 /\ lastRetry' = Cooldown

(* A generation is counted once, and not when it was ready.  The guard of   *)
(* markStartupFailure and the count that depends on it.                     *)
(* Mutant: startupFailureRecorded is not looked at.                         *)
MayCountAgain == ~IsReady

MayCount == ~IsReady /\ ~worker.counted

CountStartupFailure ==
    IF MayCount THEN recordSpawnFailure ELSE UNCHANGED budgetVars

-----------------------------------------------------------------------------
(* The monitor                                                              *)

IsAlive == IsReady /\ worker.hb < AliveLimit

(* Mutant: a worker that is being started has no connection, so it is dead. *)
NeedsSpawnAlways == ~HasWorker \/ ~IsAlive

NeedsSpawn == ~HasWorker \/ (~IsAlive /\ status # "SPAWNING")

(* Mutant: no cool-down.                                                    *)
NeverCoolingDown == FALSE

CoolingDown == count >= MaxRetries /\ lastRetry < Cooldown

SpawnDue == NeedsSpawn /\ ~CoolingDown

(* Mutant: starting a worker is activity.                                   *)
SpawnTouches ==
    /\ ~closed /\ SpawnDue
    /\ status' = "SPAWNING"
    /\ worker' = NewWorker
    /\ count' = count /\ lastRetry' = 0
    /\ fruitless' = Capped(fruitless + 1, MaxRetries + 2) /\ sinceSpawn' = 0
    /\ idle' = 0
    /\ UNCHANGED <<closed, gcAge, uncounted, envVars>>

(* reconcileSessions starts a worker, or replaces the one that is there.    *)
Spawn ==
    /\ ~closed /\ SpawnDue
    /\ status' = "SPAWNING"
    /\ worker' = NewWorker
    /\ count' = count /\ lastRetry' = 0
    /\ fruitless' = Capped(fruitless + 1, MaxRetries + 2) /\ sinceSpawn' = 0
    /\ UNCHANGED <<closed, idle, gcAge, uncounted, envVars>>

(* cmd.Start fails after the old worker was displaced.                      *)
SpawnFails ==
    /\ ~closed /\ SpawnDue
    /\ faults < MaxFaults /\ faults' = faults + 1
    /\ status' = "RECOVERING"
    /\ worker' = None
    /\ recordSpawnFailure
    /\ fruitless' = Capped(fruitless + 1, MaxRetries + 2) /\ sinceSpawn' = 0
    /\ UNCHANGED <<closed, idle, gcAge, uncounted, needs, outage>>

(* monitorReady's timer goes off.                                           *)
ReadyDue == Waiting /\ worker.watched /\ worker.age >= ReadyTimeout

ReadyTimesOut ==
    /\ ~closed /\ ReadyDue
    /\ status' = "RECOVERING"
    /\ worker' = [worker EXCEPT !.watched = FALSE, !.counted = TRUE]
    /\ CountStartupFailure
    /\ UNCHANGED <<closed, idle, gcAge, historyVars, envVars>>

(* waitWorkerExit of the current worker.                                    *)
Exit ==
    /\ status' = "RECOVERING"
    /\ worker' = None
    /\ CountStartupFailure
    /\ UNCHANGED <<closed, idle, gcAge, historyVars>>

-----------------------------------------------------------------------------
(* The worker                                                               *)

(* What routeMessage does with READY.                                       *)
BecomeReady ==
    /\ status' = "READY"
    /\ worker' = [worker EXCEPT !.pc = "serving", !.age = 0, !.watched = FALSE,
                                !.hb = 0, !.dials = 0, !.wait = 0, !.left = 0]
    /\ clearSpawnFailure
    /\ idle' = 0
    /\ fruitless' = 0 /\ uncounted' = 0
    /\ UNCHANGED <<closed, gcAge, sinceSpawn, envVars>>

(* waitForCLIReady returns and the worker shakes hands with the daemon.  It  *)
(* does not dial again when the connection broke meanwhile, but ends.       *)
CliDue == Waiting /\ worker.age >= needs

CliReady ==
    /\ ~closed /\ CliDue /\ needs < CliTimeout
    /\ worker.pc = "starting"
    /\ BecomeReady

HandshakeFails ==
    /\ ~closed /\ CliDue /\ needs < CliTimeout
    /\ worker.pc = "severed"
    /\ Exit /\ UNCHANGED envVars

CliTimesOut ==
    /\ ~closed /\ CliDue /\ needs = CliTimeout
    /\ Exit /\ UNCHANGED envVars

Crash ==
    /\ ~closed /\ HasWorker
    /\ faults < MaxFaults /\ faults' = faults + 1
    /\ Exit /\ UNCHANGED <<needs, outage>>

BeatDue == worker.pc = "serving" /\ worker.hb >= HbEvery

Heartbeat ==
    /\ ~closed /\ worker.pc = "serving" /\ worker.hb > 0
    /\ worker' = [worker EXCEPT !.hb = 0]
    /\ UNCHANGED <<status, closed, idle, gcAge, budgetVars, historyVars, envVars>>

(* The connection breaks; the reader or a heartbeat of the worker notices    *)
(* and starts reconnectToDaemon, unless the worker is not that far.         *)
Disconnect(length) ==
    /\ ~closed /\ worker.pc \in {"starting", "serving"}
    /\ faults < MaxFaults /\ faults' = faults + 1
    /\ outage' = length
    /\ worker' = IF worker.pc = "starting"
                 THEN [worker EXCEPT !.pc = "severed"]
                 ELSE [worker EXCEPT !.pc = "cut", !.dials = 1,
                                     !.wait = Backoff[1], !.left = length]
    /\ UNCHANGED <<status, closed, idle, gcAge, budgetVars, historyVars, needs>>

(* reconnectToDaemon dials.  The daemon takes the worker back, as READY.    *)
DialDue == worker.pc = "cut" /\ worker.wait = 0

Redial ==
    /\ ~closed /\ DialDue /\ worker.left = 0
    /\ BecomeReady

RedialFails ==
    /\ ~closed /\ DialDue /\ worker.left > 0
    /\ LET n == Capped(worker.dials + 1, Len(Backoff))
       IN worker' = [worker EXCEPT !.dials = n, !.wait = Backoff[n]]
    /\ UNCHANGED <<status, closed, idle, gcAge, budgetVars, historyVars, envVars>>

(* An input or an output touches lastActive.                                *)
Activity ==
    /\ ~closed /\ worker.pc = "serving" /\ idle > 0
    /\ idle' = 0
    /\ UNCHANGED <<status, closed, worker, gcAge, budgetVars, historyVars, envVars>>

-----------------------------------------------------------------------------
(* The garbage collector                                                    *)

GcDue == gcAge >= GcEvery

(* Mutant: stale at the limit.                                              *)
HeartbeatStaleAtLimit == IsReady /\ worker.hb >= HbLimit

HeartbeatStale == IsReady /\ worker.hb > HbLimit

Idle           == idle > IdleLimit

CloseSession ==
    /\ closed' = TRUE /\ status' = "CLOSED"
    /\ worker' = None

GcCloses(stale) ==
    /\ ~closed /\ GcDue
    /\ stale = HeartbeatStale
    /\ stale \/ Idle
    /\ CloseSession
    /\ gcAge' = 0
    /\ UNCHANGED <<idle, budgetVars, historyVars, envVars>>

GcSpares ==
    /\ ~closed /\ GcDue
    /\ ~HeartbeatStale /\ ~Idle
    /\ gcAge' = 0
    /\ UNCHANGED <<status, closed, idle, worker, budgetVars, historyVars, envVars>>

-----------------------------------------------------------------------------
(* Time                                                                     *)

Due == SpawnDue \/ ReadyDue \/ CliDue \/ BeatDue \/ DialDue \/ GcDue

Aged == [worker EXCEPT !.age  = IF Waiting THEN @ + 1 ELSE @,
                       !.hb   = IF IsReady THEN @ + 1 ELSE @,
                       !.wait = IF @ > 0 THEN @ - 1 ELSE 0,
                       !.left = IF @ > 0 THEN @ - 1 ELSE 0]

Tick ==
    /\ ~closed /\ ~Due
    /\ idle' = Older(idle, IdleLimit + 1)
    /\ worker' = IF HasWorker THEN Aged ELSE None
    /\ lastRetry' = Older(lastRetry, Cooldown)
    /\ sinceSpawn' = Older(sinceSpawn, Cooldown)
    /\ gcAge' = gcAge + 1
    /\ UNCHANGED <<status, closed, count, fruitless, uncounted, envVars>>

Handler ==
    \/ Spawn \/ ReadyTimesOut
    \/ CliReady \/ HandshakeFails \/ CliTimesOut \/ Redial \/ RedialFails
    \/ BeatDue /\ Heartbeat
    \/ GcCloses(TRUE) \/ GcCloses(FALSE) \/ GcSpares

Next ==
    \/ Tick
    \/ Spawn \/ SpawnFails \/ ReadyTimesOut
    \/ CliReady \/ HandshakeFails \/ CliTimesOut \/ Crash
    \/ Heartbeat \/ (\E length \in Outage : Disconnect(length))
    \/ Redial \/ RedialFails \/ Activity
    \/ GcCloses(TRUE) \/ GcCloses(FALSE) \/ GcSpares

Spec == Init /\ [][Next]_vars

(* The clock runs, and timers and the goroutines they wake are served.      *)
FairSpec == Spec /\ WF_vars(Tick) /\ WF_vars(Handler)

-----------------------------------------------------------------------------
(* Properties                                                               *)

(* The budget says how many starts have failed since the last READY, each    *)
(* of them once: whether monitorReady gave the worker up, the worker exited, *)
(* both, or the monitor could not start it at all.  The one that is still    *)
(* waited for is not among them, nor the one that failed in NewSession, and  *)
(* a worker that is ready has none behind it.                               *)
Pending == IF Waiting /\ ~worker.counted THEN 1 ELSE 0

EachFailureCountedOnce ==
    ~closed => /\ count = Capped(fruitless - Pending - uncounted, MaxRetries)
               /\ IsReady => fruitless = 0

(* A session whose workers do not get ready has MaxRetries of them started   *)
(* one after the other, less what it found counted, one more if NewSession   *)
(* could not start the first, and from then on one per Cooldown.             *)
NoSpawnStorm ==
    [][Spawn /\ fruitless - uncounted >= MaxRetries => sinceSpawn >= Cooldown]_vars

(* A worker that can dial again in time is not replaced, and its session is  *)
(* not closed under it: the worker's Backoff fits the garbage collector's    *)
(* limit, a heartbeat that was almost due included.                          *)
ShortBreak == worker.pc = "cut" /\ outage <= Grace

ShortBreakHarmless == [][Spawn \/ GcCloses(TRUE) => ~ShortBreak]_vars

(* A CLI that needs longer than ReadyTimeout, though less than CliTimeout,   *)
(* gets ready in the end: the session's workers are replaced too early until *)
(* the budget is spent, and the cool-down lets one of them live.             *)
SlowStartServed == (idle = 0 /\ needs < CliTimeout) => <>(status = "READY")

(* A CLI that never gets ready is not tried for ever: that its workers are   *)
(* started is no activity, and the idle session is closed.                   *)
HopelessSessionCloses == needs = CliTimeout => <>closed

-----------------------------------------------------------------------------
(* Properties the code does not have (README, section 4)                    *)

(* A session that lost its worker gets another one (v3-architecture.md:17). *)
(* The garbage collector closes it first when its turn comes between the     *)
(* two limits.                                                              *)
LostWorkerReplaced == [][~GcCloses(TRUE)]_vars

(* A worker that can dial again is not replaced (v2-architecture.md:302).   *)
(* It is when its last Backoff is longer than what is left of AliveLimit.    *)
ReconnectBeforeReplace == [][Spawn => worker.pc # "cut" \/ worker.left > 0]_vars

=============================================================================
