# A TLA+ verification of botmux-go

botmux-go keeps command-line agents (Codex, Aiden, any program behind a PTY or
tmux) running in the background. A *daemon* owns the sessions; each session has
one *worker process*, started from the same executable, which runs the agent
through an *adapter* and talks to the daemon over TCP with one JSON message per
line. Clients reach the daemon over the same TCP port or over HTTP.

This directory holds TLA+ modules that model the daemon's concurrent core, TLC
configurations that check them, and machine-checked proofs. `PROJECT.json`
relates every definition to the lines it models, and lists the runs, the
mutants that show each property can fail, the hazards and the theorems.

## 1. The system

### Components, their state and their operations

| Component | State | Operations |
|---|---|---|
| Session registry (`internal/daemon/daemon.go`) | `sessions`: ID to `*SessionMeta`; per meta `Closed`, `Status` | `NewSession`, `rollbackNewSession`, `CloseSession`, `PurgeSession`, `restoreSessions` |
| Worker registry (`daemon.go`, `worker_handle.go`) | `workers`: ID to `*WorkerHandle`; `workerOwners`: handle to meta; per handle connection, `closed`, `isReady`, `Ready`, `ExitDone`, heartbeat | `spawnWorkerForSession`, `waitWorkerExit`, `monitorReady`, `handleConn`, `routeMessage` |
| Session file locks (`daemon.go`) | one counted mutex per session ID in use | `lockSessionFile` and the unlock function it returns |
| Session store (`session_store.go`) | `<id>.json`, written to a temporary file and renamed | `save`, `remove`, `MarkClosed`, `UpdateOutput`, `UpdateLastActive`, `UpdateWorkerPID`, `UpdateCliSessionID`, `list` |
| Monitor (`session_monitor.go`) | retry budget per ID, spawn semaphore | `reconcileSessions` every second |
| Turn gate (`session_meta.go`, `daemon.go`) | `turnActive`, `turnCancelling`, `turnToken`; `pendingRestart` | `SendInput`, `forwardClientMessage`, `CancelTurnMeta`, `watchCancelledTurn`, `restartWorkerForSession` |
| Output and terminals (`session_meta.go`) | rings with sequence numbers, notification channels | `AddOutput`, `SnapshotOutputSince`, the forwarder of `forwardClientMessage` |
| GC, HTTP API, TCP front end (`daemon.go`, `http_server.go`) | none of their own | requests on the above |
| Worker (`internal/worker/worker.go`) | connection, turn gate of its own, adapter | `readyHandshake`, `readDaemonMessages`, `handleInput`, `interruptTurn`, `reconnectToDaemon`, `cleanup` |
| Codex adapter (`internal/adapter/codex*.go`) | active send, transcript cursor | `Send`, `Interrupt`, `watchTranscript` |
| Aiden adapter (`aiden.go`) | `sendMu`, output counter | chunked `Send` confirmed by output, `NotifyOutput`, `Close` |
| mock, pty, tmux adapters; screen text; configuration; wire format; CLI | little or none | |

### How they interact

* **Shared state.** The registries are guarded by `workersMu` and `sessionsMu`,
  inside of the file lock of a session and of `closeMu`, always in that order. Many functions decide under the locks, release them,
  and act later on what they saw. The design answers this with *generations*:
  an ID is reused, a pointer (`*SessionMeta`, `*WorkerHandle`) is not, and
  almost every step re-checks that its pointer is still the registered one.
* **Files.** Writes are keyed by ID. `lockSessionFile` is held from the check
  of the registry to the end of the write.
* **Processes.** The daemon starts workers, learns of their end from
  `Cmd.Wait`, and kills them. A worker outlives a crashed daemon and reconnects
  to the next one; a nonce per handle (`WorkerInstanceID`) tells it apart.
* **Messages.** READY, output, terminals and heartbeats go up; input, cancel,
  restart and close go down. A connection breaks at any time, with what was
  under way on it.

### What is hard, and what makes each part correct

* *Session file locks*: the mutex of an ID is made and deleted around its users.
  Correct: exclusion per ID, nobody is locked out, nothing leaks.
* *Nesting of locks*: `RWMutex`es whose waiting writers keep readers out, inside
  file locks. Correct: no circle of waiting goroutines, every call returns.
* *Registries*: create, close, purge, spawn, exit, timeout, connect and Stop
  overlap. Correct: the registered worker belongs to the registered session,
  no worker process escapes, displaced generations stay detached, a closed
  session stays closed.
* *Files*: the registry changes first, the file later, and a crash may come
  between; a write is a temporary file and a rename, of which any step may fail.
  Correct: outside an operation the file says what the registry says;
  after a restart exactly the open sessions come back; no update by ID reaches
  another session's file; a failure concerns the session it happened to.
* *Shutdown*: Stop runs against spawns and creations. Correct: it returns, and
  leaves no worker behind.
* *Turns*: input, cancellation, watchdog, worker exits and late terminals race.
  Correct: a turn ends once, a cancel is answered, a session becomes usable
  again.
* *Output*: readers with cursors on a ring that is trimmed; nothing is repeated,
  and nothing within the window is lost.
* *Retry budget and timeouts*: limits of 3, 10, 20, 30, 45 s and 15 min that
  pre-empt each other. Correct: failed starts are counted once and limited, a
  short break of the connection and a slow CLI are survived, a hopeless session
  is closed.
* *Codex*: a turn is confirmed and ended by two files that another program
  appends to while they are read. Correct: no input is submitted twice, an
  answer belongs to the input it is sent for, every turn ends.
* *Aiden*: inputs have goroutines of their own, writes to the PTY fail half-way or
  block, and any output may confirm a submit. Correct: a text arrives once, whole
  and alone before its Enter; only later output confirms it; nobody hangs when the
  worker ends.

The full list, with lines, is under `hazards` in `PROJECT.json`.

## 2. The modules

### `KeyedMutex` and `SessionFileLock`

`KeyedMutex` is what the daemon wants: every session ID has a mutex.
`SessionFileLock` is `lockSessionFile`: the two critical sections of
`sessionFileLocksMu` are the actions `Request` and `Drop`; taking and releasing
the entry's own mutex are `Lock` and `Unlock`, so that goroutines may sit
between any two of them. `Entry` is the allocator's memory: an entry nobody
points to may be handed out again.

### `LockOrder`

The locks of the daemon together: `closeMu`, `workersMu`, `sessionsMu` and the
file locks, these in all the steps of `SessionFileLock`, which the module extends.
A function is the sequence of its lock operations (`NewSession`,
`spawnWorkerForSession`, `markSessionMetaClosed`, ...; the set `Program`); a
goroutine calls one function after another (`Call`) and may stop before any
operation.

| Source | Actions |
|---|---|
| `sync.RWMutex` and `sync.Mutex` | `ReadLock`, `ReadUnlock`, `WriteLock`, `WriteUnlock` |
| `lockSessionFile` and the function it returns | `FileRequest`, `FileLock`, `FileUnlock`, `FileDrop` |

Choices a reader should know of:

* A writer that waits keeps new readers out, as Go's does; they are let in before
  the next writer. So a read lock taken twice in one function may block itself,
  and a circle may go through a goroutine that holds nothing yet.
* A path that returns early is the same sequence with its middle left out, which
  is another member of `Program` or unlocks in the same order; only the longest
  path of a function is there.
* Mutexes inside of which nothing else is taken (of a meta, of a handle, of the
  store, `monitorMu`, `connMapMu`, `sessionFileLocksMu`) cannot be part of a circle
  and are left out. `handleConn` writes its acknowledgement inside the locks, into
  the empty buffer of a new connection.

### `SessionStore`

The files behind `SessionLifecycle`'s one-step updates: the registry changes under
the file lock, then the store works on `<id>.json` by way of `<id>.json.tmp`.

| Source | Actions |
|---|---|
| `NewSession`, `markSessionMetaClosed`, `PurgeSession`, `rollbackNewSession`, `persistCurrentSession`: up to the call of the store | `Register`, `Close`, `Purge`, `Rollback`, `Persist`; `Decline` when their check fails |
| `SessionStore.mu` | `Enter` |
| `loadLocked`, the field updates, `MarkClosed` | `Load`, `LoadClosed`, `LoadFails` |
| `saveLocked` | `Create`, `Fill`, `Rename` |
| `removeLocked` | `Remove` |
| a file operation returns an error | `IOFails` |
| a crash, then `list` and `restoreSessions` | `Crash` |

Choices a reader should know of:

* `os.WriteFile` empties or creates the file and then fills it; `Torn` is what lies
  between. A rename is atomic; that data reaches the disk before the rename
  although nothing is synced is assumed, as is that the machine does not lose power.
* The daemon only logs a store error. `failed` holds the sessions whose creation or
  end was not written, and those whose file a starting daemon could not read; the
  properties say how far that reaches.
* `list` passes over a file that it cannot read, and `restoreSessions` restores
  nothing when `list` fails as a whole: `Crash` takes one fault to hide any number of
  files. A hidden session is not served, but its file is still there, and comes back
  with a later start, is overwritten by the next session of its ID, or is removed.
* `mu` and the file lock are released in one step, and the registry changes in the
  step that takes the file lock; each is inside of the other lock.
* A session is a number and a record has only its session and its closed flag: the
  other fields come and go with the record.

### `SessionLifecycle`

The core. Actors are `Caller`s (HTTP and TCP requests and the GC), `Spawner`s
(the goroutines of `reconcileSessions`) and one `handleConn` goroutine per
handle. Every actor has a program counter and its local variables (`aid`,
`ameta`, `ahandle`, `aold`); a step is one stretch of code under a lock, or one
call. The file lock is held over several steps, and is taken here as the
`KeyedMutex` that `SessionFileLock` is proved to implement.

| Source | Actions |
|---|---|
| `handleCreateSession`, `NewSession` | `CreateStart`, `NewCheck`, `Insert`, `Save`, then `Spawn` |
| `rollbackNewSession` | `Rollback`, `Unsave` |
| `spawnWorkerForSession` | `Spawn` (with `Install` or `StartFails`), `StopOld`, `Persist`, `Update`; the last of them starts the two goroutines of the handle |
| `persistCurrentSession` and the `Update...` operations of the store | `Persist`, `Update` |
| `CloseSession`, `handleCloseSession`, `runGC`, `httpCloseSession` | `CloseStart`, `Mark`, `MarkDisk`, `SendClose` |
| `PurgeSession` | `Purge`, `Remove`, `KillOld` |
| `reconcileSessions` | `Snapshot`, `ReconcileCheck`, `ReconcileLook`, then `Spawn` |
| `handleConn`, `routeMessage` (READY) | `Connect`, `Route`, `Ready`, `Persist`, `Update` |
| worker process, `waitWorkerExit` | `Exit`, `WatchExit` |
| `monitorReady` | `TimeoutCheck`, `TimeoutMark` |
| `Stop`, `Wait`, the end of the process | `StopBegin`, `StopWait`, `StopEnd`, `Leave` |
| a crash, and `restoreSessions` | `Crash`, `Restart` |

Choices a reader should know of:

* Metas and handles are never reused. This makes "stale" visible, and bounds
  the runs: when the pool is empty nothing new is created, so these runs do not
  check for deadlock.
* The session a meta stands for is its `origin`: a session restored from a file
  has a new meta with the old origin. `disk[id]` keeps origin and closed flag.
* A process is `doomed` once it was killed, told to close or restart, or
  rejected by `handleConn` (a rejected worker cleans up and exits). Killing is
  eventual: a doomed process may still connect and send READY.
* `Connect` may happen when the process is already dead, because its READY may
  be in the socket.
* A pass of the monitor may begin during Stop: `stopSessionMonitor` sets
  `d.monitorStop` to nil, and the loop then waits on a nil channel until the
  context ends.
* A restart reads all the files (`Restart`); that it may fail to is in
  `SessionStore`.
* `Leave` waits for what `d.wg` counts: the monitor and `handleConn`, not HTTP
  requests, which the end of the process cuts off.
* A failed `cmd.Start` uses up no handle, since nothing ever refers to it again.
* `ReconcileLook` may give up although a spawn is needed: the retry budget,
  which is not state of this module, may say so.
* Not here: turns, output, the fence of `pendingRestart`, `removeSessionMeta`
  (reached by a MsgClose from a worker, which no worker sends), the second
  `handleConn` goroutine of a worker that reconnects.

### `TurnRecovery`

The turns of one Codex session that stays registered, over the generations of
its workers. The daemon's turn gate (`active`, `cancelling`, `token`) and its
restart fence (`pending`) meet the worker's own gate (`inflight`, `turnID`,
`asked`, `fence`) through messages that name no turn. The module attaches to
every message the turn it is about, so that properties can tell when it is
applied to another; no action decides by it. Actors are `Sender`s, and per turn
the two goroutines that `CancelTurnMeta` starts.

| Source | Actions |
|---|---|
| `reconcileSessions`, `spawnWorkerForSession` | `Spawn` |
| `handleConn`, `routeMessage` | `Connect`, then `Route` (the identity check), then `RouteReady` and `MarkReady`, or `RouteTerminal` |
| `SendInput`, `forwardClientMessage` | `SendStart`, `SendGiveUp`, `SendBegin`, `SendWrite`, `SendFail` |
| `CancelTurnMeta` | `CancelCheck`, `CancelBegin` |
| `sendCancelToCurrentWorker`, `commitCancelSendFailureIfCurrent`, `finishCancelWithFailure` | `CancelLook`, `CancelWrite`, `CancelFailed`, `CancelRecheck`, `CancelGiveUp` |
| `watchCancelledTurn`, `restartWorkerForSession`, `restartWorkerAfterGrace` | `WatchFire`, `RestartMark`, `RestartWrite`, `RestartCheck`, `KillAfterGrace` |
| `waitWorkerExit`, `monitorReady`, `closeSessionMeta` | `WatchExit` and `Discard`, `StartTimeout`, `Close` |
| the worker: `readDaemonMessages` | `WorkerInput`, `WorkerCancel`, `WorkerRestart` |
| the worker: adapter events, `failCurrentTurn` | `WorkerTurnEnds` |
| the worker: `interruptTurn` | `InterruptCheck`, `InterruptEsc`, `InterruptFinish` |
| the network and the process | `Break`, `Exit` |

Choices a reader should know of:

* `link[h] = "broken"` is a handle whose `Conn` is set and dead: a write may
  fail or may be swallowed by the socket, and the handle counts as alive until
  30 s pass without a heartbeat (`Spawn(FALSE)`).
* `isReady` of a handle is never reset by the code, nor here.
* The turn gate of the session is untouched by `Spawn`, `WatchExit` and
  `Close`, as in the code.
* A worker that stops (`"stopping"`) may hang, as `cliAdapter.Close` may; only
  the timer of `KillAfterGrace` ends it for certain. A close message is dealt
  with like a restart message, which is what the worker does.
* Every turn has its own goroutines in the code too, since a turn is cancelled
  at most once; that is part of `CancelTypes` in the proofs.
* A worker ends its turn and sends the terminal in one step here, and in two in the
  code and in `CodexTurns`. In between the daemon's gate is closed, so no input comes,
  unless a cancel has failed or timed out; and then a terminal that is late in being
  sent is as late as one that waits in `up`.
* Of a daemon that stops, nothing is modelled here.

### `OutputLog` and `OutputStream`

`OutputLog` is what a reader of a session's output is promised: one log that
only grows, of which every read gives all that was written since the last one,
as far as it is among the last `Window` entries. `OutputStream` is
`SessionMeta`'s two rings with their sequence numbers and notification channels,
and those who add to them and read them. Here one session is `codex` (its inputs
are turns) or is not.

| Source | Actions |
|---|---|
| `AddOutput`, `publishTerminalLocked`, `finishTurnLocked` | operators of those names, part of the actions below |
| `forwardClientMessage` | `Subscribe`, `SubscribeTerminals`, `BeginTurn`, `SendInput` or `SendFails`, `Register` |
| its goroutine | `ForwardOutput`, `ForwardTerminal`, `ForwardStopped`, `ForwardEnds` |
| `SendInput` | `Post`, `BeginTurn`, `UserLine`, `SendInput` or `SendFails` |
| `routeMessage` | `WorkerOutput`, `WorkerTerminal`, `WorkerReady` |
| cancel, its watchdog, `waitWorkerExit` | `BeginTurnCancel`, `FailCancellingTurn`, `WorkerExit` |

Choices a reader should know of:

* A channel is the number of channels made before it: it is closed when the
  current one has a higher number. A `select` over closed channels takes any of
  them, as Go's does.
* The n-th output is the number n and a terminal is the turn it is about. What
  the client was given, and what was trimmed before it could read it, is history.
* Each of the two subscriptions takes cursor and channel under one lock, and
  there is a step between them, as in the code.
* A session is restored with what its file has kept (`MaxRestored`, 5000 lines), which
  is more than the ring holds (`MaxLines`, 2000). The ring is cut to its size by the
  next output, and may until then give a reader more than its window; `missed` then
  gets all that is cut off at once (`Trimmed`).
* The goroutine that reads one byte of the client, and the 130 s, are
  `ForwardEnds`.

### `CodexTurns`

The worker's side of a Codex session: its turn gate, `handleInput` with the
adapter's `Send`, `interruptTurn` with `Interrupt`, the watcher of the transcript
and `readAdapterEvents`. Codex is external: a composer, tasks that run one after
another, and two files, of which the history is shared with other Codex
processes (`Foreign`). Each of `Send`'s writes is a step, so that a cancel, Codex
and other processes act between any two.

| Source | Actions |
|---|---|
| `beginTurnWithID`, `requestTurnInterrupt` | `Input`, `Cancel` |
| `completeTurn` | `EndTurn` in the step that ends a turn; its terminal is a later step |
| `interruptTurn`, `Interrupt` | `InterruptCheck`, `InterruptEsc`, `InterruptFails`, then `InterruptReport` |
| `Send` | `SendBegin`, `SendBase`, `SendPaste`, `SendEnter`, `SendConfirm`, `WriteFails` |
| `waitForCodexHistory`, `matchCodexHistoryDelta` | `SendTimeout`, `SendInterrupted`, `Matches` |
| `handleInput`, `failCurrentTurn` | `SendReturns`, `SendFails`, then `SendReport` |
| `watchTranscript`, `ReadNew`, `parseLine` | `ReadNew`, `WatchFails` |
| `readAdapterEvents` | `TakeEvent`, then `SendTaken` |
| external | `Enter`, `LogTask`, `BeginTask`, `CompleteTask`, `AbortTask`, `Foreign` |

Choices a reader should know of:

* `completeTurn` ends a turn under `turnMu` (`finishTurnWithID`) and sends the terminal
  when the lock is released. Whoever has ended a turn, the reader of events, the
  failed submission or the failed interrupt, is one of its `Reporters` until then; the
  next turn may begin, and even fail and be reported, in between.
* A structured failure (line 252 of the adapter's design) is not among the records:
  `parseLine` does not know one, so that a turn whose task ended with nothing else
  would not end.
* Inputs are compared as `normalizeCodexInput` makes them; the values of `Text`
  are normalised inputs, and `Blank` is what is blank after it.
* Codex may take an Enter for something else and leave the composer as it is.
  Two inputs in the composer make one task with the text `NoText`, which equals
  no input.
* The history is kept only as what was appended since the baseline of the `Send`
  that runs, because nobody looks at the rest.
* The channel of adapter events has room for eight and a watcher publishes at
  most two, so that publishing never waits.
* MsgCliSessionBound and the restart of a worker are not here; that a resumed
  session has old records in its rollout is (`Init`).

### `AidenSubmit`

A worker that runs Aiden. Every input has a goroutine (`Sender`), since for this
adapter the worker's gate refuses none, and `sendMu` lets one `Send` at a time type.

| Source | Actions |
|---|---|
| `readDaemonMessages`, `handleInput` | `Receive` |
| `Send` | `Begin`, `NextChunk`, `Subscribe` |
| `writeAllWithRetry` | `WriteBegins`, `TakeText` or `TakeEnter`, `WriteFails`, `PauseEnds` |
| `waitForOutput`, `waitContext` | `Confirmed`, `NotConfirmed`, `SendCancelled` |
| `normalizeAidenInput`, `splitUTF8Chunks` | the operators `Normalise`, `ChunkEnd` |
| `readCliOutput`, `NotifyOutput` | `NotifyOutput`, `ReaderEnds` |
| `cleanup`, `Close` | `CloseBegins`, `CloseInput`, `CloseAdapter` |
| external: the CLI | `CliExits` |

Choices a reader should know of:

* An input is a sequence of kinds of bytes: carriage return, line feed, blank, other
  ASCII, first and following byte of a longer character. It is valid UTF-8, being a
  decoded JSON string.
* The PTY takes the bytes of a write in any portions, each a step, so that whatever
  else happens comes between; `os.File` returns short only with an error. An Enter
  has, among the bytes of its `Send`, the number after those before.
* A line is read by `readCliOutput` any time after the CLI has output it. An echo of
  the text that is read late therefore confirms, as in the code; `ConfirmedByOutput`
  says what the subscription guarantees beyond that.
* The goroutines take `sendMu` in any order, so inputs may overtake each other.
* `cleanup` is called by the reader of messages and once more at the end of the
  worker; the second call finds everything closed and is left out.

### `Supervision`

One session over time: the clock is discrete, a tick is 2.5 s in the run, and a
handler whose time has come runs before the next tick. The variables are ages
(of the last heartbeat, the last activity, the last start, the last GC). The
steps inside a handler and displaced workers are in `SessionLifecycle`.

| Source | Actions |
|---|---|
| `reconcileSessions`, `spawnWorkerForSession` | `Spawn`, `SpawnFails` |
| `recordSpawnFailure`, `clearSpawnFailure`, `markStartupFailure` | operators of those names; `CountStartupFailure` |
| `monitorReady`, `waitWorkerExit` | `ReadyTimesOut`, `Exit` |
| `waitForCLIReady`, `readyHandshake` | `CliReady`, `CliTimesOut`, `HandshakeFails` |
| `sendHeartbeats`, `readDaemonMessages`, `reconnectToDaemon` | `Heartbeat`, `Disconnect`, `Redial`, `RedialFails` |
| `routeMessage` (READY) | `BecomeReady` in `CliReady` and `Redial` |
| `runGC`, `closeSessionMeta` | `GcCloses`, `GcSpares` |
| input or output | `Activity` |

Choices a reader should know of:

* A session begins in one of three ways: `NewSession` has started its worker; it could
  not, and has returned the error, but the session stays registered, `RECOVERING`, for
  the monitor to serve; or the daemon has restored it (`Created`, `Restored`).
  `NewSession` does not call `recordSpawnFailure`, so that the budget does not know of
  its failure; the variable `uncounted` does, until a worker is ready.
* The budget is kept by session ID. Neither `PurgeSession` nor a close clears it, and
  a start of an earlier session of the ID may be given up after the purge: a new
  session may find any count that is among `LeftBehind`.
* The monitor's period of one second is less than a tick: it acts as soon as a
  start is due.
* A new worker is connected at once: its first dial is to its parent on the same
  machine. It gives READY when its CLI is ready. When the connection breaks
  before that, the handshake fails and the worker ends: only `reconnectToDaemon`
  dials again.
* The worker notices a break at once. `Outage` is for how long the break lasts.
* A request to close, the restart fence, and the hundred-attempt limit of
  `reconnectToDaemon` are left out; the daemon replaces such a worker long before.

## 3. What the runs check

Metas, handles, callers and senders are symmetric in the runs that check no
liveness. Constants not mentioned are one ID, no Stop, no crash.

| Run | Instance | Shows |
|---|---|---|
| `Locks` | 3 goroutines, 1 ID, 2 entries, all functions, fair | no circle of waiting goroutines; file locks leak no entry and implement `KeyedMutex`; every call returns |
| `Generations` | 2 metas, 2 handles, 1 caller, `?force` or not, 1 Stop, 1 crash | what the files bring back; updates by ID reach their own session; registries and workers fit; orphans of an earlier daemon are kept out; no worker survives Stop |
| `Live` | 1 caller, 1 spawner, 1 meta, 1 handle, 1 Stop, fair | Stop returns; workers of closed sessions go |
| `Store` | 3 goroutines, 1 ID, 3 sessions, 2 failing file operations or unreadable files, 2 crashes | only an unreadable file loses a written session, no ended one comes back, a failure stays with its session |
| `TurnRaces` | 1 handle, 2 senders, 2 turns, 2 tries, 1 fault | one terminal per turn, in order; a failed cancel ends its own turn; no Esc into a later turn |
| `TurnFence` | 2 handles, 1 sender, 1 turn, 2 tries, 1 fault | the restart fence belongs to the current worker, and holds |
| `TurnLive` | 1 handle, 1 sender, 1 turn, 2 tries, 2 faults, fair | cancels are answered; a worker told to restart goes |
| `Output` | 1 client, 1 HTTP request, ring of 2 lines and 1 terminal, 4 outputs, up to 3 of them restored, 2 turns, 1 exit, fair | everything is read once and in order, no wake-up is lost, implements `OutputLog` |
| `Codex` | 2 texts and a blank one, 2 turns, 2 Enters, 1 fault, fresh or resumed, fair | no input twice, answers to their own inputs, one terminal for each end of a turn; turns end |
| `Aiden` | 2 inputs, chunks of 2 bytes, 2 tries and 2 Enters, 2 failing writes, 2 lines of output, fair | what is typed arrives whole and in order; what confirms it; the worker ends |
| `Supervision` | the limits of the code in ticks; a new ID, or one whose budget was spent 20 s ago; CLIs of 2.5 s, 25 s and never; breaks of 0, 15 and 22.5 s; 2 faults, fair | the retry budget is exact and limits starts; breaks and slow starts are survived; a hopeless session closes |
| `Repeated` | 2 turns, 1 Enter, no faults | see section 4 |

**Bounds.** Two metas are what it takes for an ID to be purged and created
again while somebody still holds the old pointer; two handles, for a worker to
be replaced while the goroutines of the old one run. One Stop and one crash: a second daemon
run starts from files only, and the orphans of the first are what it can see of
the past. `Generations` has one caller, whose request meets the workers' goroutines,
Stop, a crash and the work of the requests before it; two callers with a Stop and a
crash would be tens of millions of states. Requests that compete for the file are in
`Store` and `Locks`; the monitor's spawns, which displace a worker, are in `Live` with
its own questions, and for these invariants in the theorems alone; that they keep the invariants of `SessionLifecycle`, the theorems
of section 5 show for any number of callers, as they do for larger instances of all
the invariants.

In `LockOrder` a third goroutine is what it takes for a reader to be kept out by a
writer that waits for a reader. File locks of two IDs have different entries, and
are one level of the order; one ID makes goroutines meet. Two entries are one in use
and one that is allocated while the first is about to be dropped. In `SessionStore`
three goroutines are one in the file, one that waits for it and one that looked up
its session earlier; three sessions use one ID twice again. Two failures and two
crashes let a failure be followed by a crash, and a crash by another before the
file is repaired.

In `TurnRecovery` `MaxTurns` caps the turns begun, `MaxTries` is
`maxCurrentWorkerSendTries` (3 in the code), and `MaxFaults` caps broken
connections, crashes, missed heartbeats and failed starts together. Two turns
are what it takes for a message about one to meet the other; two handles, for
the worker to change under a cancel, a restart or a READY; two tries, for the
loop to go round once. No run has two handles, two senders and two turns at
once: the races of senders do not need a second worker, and those of generations
do not need a second sender. The theorems make no such choice.

In `OutputStream` two lines in the ring and four outputs let a reader fall behind
by more than the ring holds, and three restored ones are more than that from the
start; one terminal in the ring is trimmed by the second turn's. In `CodexTurns` two turns are what it takes for the records of one to meet
the other, two Enters for a retry. In `Supervision` all limits are those of the
code, a tick being 2.5 s; the `Backoff` of 1, 2, 4, 8, 16, 30 s is rounded up, and
`MaxFaults` caps crashes, failed starts and breaks together. A CLI of 25 s is
slower than `monitorReady` and faster than the worker's own limit; a break of 15 s
is the longest that must be harmless, one of 22.5 s need not be. `IdleLimit` is 100
ticks (250 s) in place of 360: it must only be longer than five starts and a
cool-down, and the states grow with it. An ID that is new and one whose budget was
spent 20 s before the session began are the ends of what may be left behind.

In `AidenSubmit` the input has a line end of every kind and a character of two bytes
at the edge of a chunk of two; the other one is blank. Two inputs let one wait for
`sendMu` while the other types, is retried or is cut off. The limits are
`aidenInputChunkBytes` (4096), `aidenWriteRetryAttempts` (3) and
`aidenMaxEnterAttempts` (3) in the code; two is what it takes to go round each loop.

**Fairness** (`Fairness` in each module). Goroutines are scheduled, hence weak
fairness of their steps. `sync.Mutex` hands itself to a waiter that has starved
for a millisecond, hence strong fairness of the steps that take the file lock.
A worker process connects or exits: its dial and its handshake are bounded, and
otherwise it gives up. A doomed process exits: it was killed, or is killed 2 or
3 s later. Stop goes on. Not assumed: that a request arrives, that a timeout
expires, that the monitor spawns, that a worker left alone exits.
In `LockOrder` a goroutine that can go on often enough does (strong fairness, by
the same hand-over), while nobody has to call anything (`SystemFairness`).
In `TurnRecovery` the goroutines of cancel, watchdog and senders go on, their
timers fire, the monitor spawns for a session without a live worker (it looks
every second, and the retry budget only delays it), and a worker connects and
reads. Not assumed: that the CLI ever ends a turn, that a worker told to stop
manages to, that anybody sends or cancels, that a READY timeout expires.
In `OutputStream` a `select` does not pass over a ready case for ever; nothing else
is fair. In `CodexTurns` the goroutines of the worker go on, and Codex logs, begins
and ends what was submitted. Not assumed: that an Enter is understood, that a
timeout comes before the confirmation, that Codex reacts to Esc. In `AidenSubmit`
goroutines and timers go on, `sendMu` comes to whoever waits for it, a write fails
once the PTY is closed or the CLI gone, and a CLI whose context is done is killed.
Not assumed: that the PTY takes a byte, that the CLI outputs anything. In `Supervision`
the clock runs and due handlers are served.

**Mutants.** For every property of every passing run `PROJECT.json` names a
definition and a mutated form (defined before it in the module, marked
`Mutant`): dropping the wait for the file lock, checking an ID where the code
checks a pointer, not comparing the nonce, starting the exit goroutine only
after a successful write, and so on. Each breaks its property.

## 4. Where the code and its documents differ

One run is expected to find a violation, because the disagreement is an error of
the code within one module.

* `Repeated`: the Codex adapter's design says that the rollout is read from the
  offset before the submission, so that historical records cannot close the new
  turn. `Send` looks the offset up only if the adapter was made with a session ID
  (`codex.go:208`); the ID it finds itself it returns and does not keep. In a
  fresh session every watcher therefore starts at byte 0. An input that repeats an
  earlier one ("continue") is armed by the earlier record, and is at once given
  the earlier answer and a terminal, while its own task still runs. `AnswersOwnInput`
  says what remains true: the answer is one to the same text, and one to the very
  turn unless it repeats an earlier one.

The other disagreements are stated as properties at the end of the modules. They
are not among the runs; TLC refutes each with the constants given here.

In `OutputStream`, within seconds, in place of the properties of `MCOutput.cfg`:

* `WholeTurnDelivered`: the v5 document (line 23) says that the client keeps
  printing all the output of its turn. When output and terminal are both there,
  `select` takes either, and the terminal ends the goroutine: the end of the
  answer is not sent.
* `OwnVerdict`: the terminal a client is given may be that of an earlier turn, one
  that was published after its subscription and before its own turn began.

In `CodexTurns`, in place of those of `MCCodex.cfg`:

* `AbortEndsTurn`: the turn-cancel design (lines 70-72) says that the watcher's
  abort record ends the cancelled turn. A cancel during the submission ends
  `Send` before there is a watcher: Codex runs and aborts the task, the worker's
  turn stays in flight, and only the daemon's watchdog ends it.
* `EveryTurnEnds`: a blank input, which the HTTP API refuses and TCP does not,
  begins a turn that nothing ends.
* `TerminalsInOrder`: terminals come in the order of the turns. No document says so,
  but a reader of `completeTurn` may expect it. Its end and its terminal are two
  steps, and the next turn can begin, fail and be reported first (17 states). What
  holds is `EachEndReportedOnce`.
* `NothingAfterTerminal`: an output that has passed the check of
  `readAdapterEvents` may follow the terminal of a failed interrupt.
* `TurnEnds` and `WatchedTurnEnds` have the exception `Sound`: in a resumed session
  an input that repeats one that was never confirmed may be confirmed by the late
  entry of that one, and wait for a user record that has been passed already.

In `AidenSubmit`, in place of those of `MCAiden.cfg`:

* `SubmittedAlone`: an Enter submits only the input of its own `Send`. No document
  says so, but a reader may expect it. `Send` gives up after failed writes without
  clearing what it has typed; that stays in the CLI and goes with the next input
  (15 steps).

In `Supervision`, in place of those of `MCSupervision.cfg`:

* `LostWorkerReplaced`: the v3 document (line 17) says that after 30 s without a
  heartbeat the worker is started again. The garbage collector looks every 30 s
  and closes the session for good when the heartbeat is more than 20 s old: it
  depends on its phase which comes first (18 steps).
* `ReconnectBeforeReplace`: the v2 document (line 302) prefers reconnecting to
  restarting. A break between 15 and 31 s is over before the worker's dial at 31 s,
  and the monitor replaces the worker at 30 s (22 steps).

What the run also makes visible, though no document says otherwise: the dials at
1, 3, 7 and 15 s plus a heartbeat of 5 s leave the 20 s of the garbage collector no
margin; a CLI that needs between 10 and 45 s is replaced four times, until the
cool-down lets the fifth worker live (`SlowStartServed`); a session whose first start
fails in `NewSession` is given one start more before the cool-down; a new session under
an ID whose last one used up its budget gets its first worker at once, but if that
one fails, the next not before a cool-down; a session restored after
more than 15 minutes whose CLI needs more than 30 s is closed before it is READY;
a CLI that crashes right after READY is started without limit, since READY clears
the budget.

In `SessionLifecycle` and `TurnRecovery`:

* `ConflictWithoutForce`: the v4 document promises 409 for a session that exists
  and is not closed. `handleCreateSession` looks at one session and purges by ID
  (`MCGenerations.cfg` with two callers, one handle, `Forces = {FALSE}`, no Stop, no
  crash and no symmetry; 19 steps).
* `LateTerminalsIgnored`: the turn-cancel design says that late terminals of an old
  worker are ignored. The identity check of `routeMessage` is over when
  `CompleteTurn` runs, and `CompleteTurn` takes whatever turn is active: after
  25 steps the terminal of a replaced worker ends a turn of its replacement
  (`MCTurnFence.cfg` with two turns, one try, no faults).
* `ExitEndsTurn`: the adapter design says that a worker exit in the middle of a
  turn clears the gate and emits a failure. `waitWorkerExit` does neither; the
  session answers "already has an active turn" until somebody cancels it
  (`MCTurnFence.cfg` with one try, `FairSpec` and no symmetry).
* `FencedWorkerGoes`: the design says that after a timed-out cancel the session can
  be resumed. The watchdog fences whatever worker is registered, and
  `restartWorkerForSession` restarts only a ready one: a replacement that was
  still starting is fenced and never restarted, and its READY is refused (the same
  constants).

TLC refutes the first three of the following within seconds when they take the place
of the properties of `MCLive.cfg` with two handles and `Spec`, and the others in
`MCTurnRaces.cfg`.

* `ClosedNotSpawned`: the v3 document says a closed session is not spawned
  because `reconcileSessions` skips it. It reads `Closed` before the spawn and not
  again. The extra worker is rejected by `handleConn`; that it goes away is
  `ClosedWorkersGo`.
* `TimeoutOfCurrentWorker`: the v5 document says that timeouts of an old worker
  verify their generation so as not to disturb the new one. `monitorReady`
  verifies, releases the lock and then changes the status.
* `ReadyIsConnected`: the v3 document says that the worker of a READY session is
  connected. `routeMessage` verifies, releases the locks and sets READY; a
  worker that exits in between leaves a READY session without a worker, until
  the monitor's next pass.
* `GateUntilTerminal`: the turn-cancel design says that `turnActive` means an
  accepted input without a terminal. `FinishTurn` after a failed write takes no
  token; when its own turn has been failed by a cancel meanwhile and another
  sender has begun the next one, it opens the gate of that turn.
* `CancelHitsOwnTurn`: the design speaks of a cancel for the active turn. The
  message names no turn; sent late, it interrupts the next one.

## 5. What is proved

The theorems of `LockOrderProofs` (which has those of `SessionFileLock` too),
`SessionLifecycleProofs`, `SessionStoreProofs`, `TurnRecoveryProofs`,
`OutputStreamProofs`, `SupervisionProofs`, `CodexTurnsProofs` and `AidenSubmitProofs` hold for every number of IDs, goroutines,
metas, handles, sessions, senders, clients, turns and inputs, for every length of
inputs, chunks and rings and every value of the limits, and for all values of the bounds, those on faults and crashes
included. They assume what the modules `ASSUME`: that `Nil` is none of the other
constants, that callers, spawners and handles are different actors, that the set of
goroutines is finite (`SessionFileLock`), that inputs are sequences of bytes, or in
`CodexTurns` any non-empty set in which neither a blank nor a missing text is, that a
record is not `Nil`, that no handle is called "daemon", that the bounds are natural
numbers and the limits positive; of the limits only that a heartbeat is sent within
the 30 s of `IsAlive`, that `monitorReady` waits no longer than the CLI may take, and,
for short breaks alone, `GraceAssumption` (below).

*File locks.* `IInv` says that a captured entry stays the registered one, that
`refs` counts the users of an entry, that a registered entry has a user and
belongs to one ID, and that the entry's mutex is held by the one goroutine
inside. Exclusion alone is not inductive: if the count could be wrong, the last
user's delete could take away an entry somebody has captured. From `IInv`:
`MutualExclusion`, `NoEntryLeaked`, and the refinement of `KeyedMutex`, where
`Lock` and `Unlock` map to `Enter` and `Leave` and the rest to stuttering.

*Nesting of locks.* Every step of `LockOrder` is one of `SessionFileLock` or leaves
its variables alone, so that the above holds in the whole daemon. For
`NoCircularWait` a function is first shown to be `Orderly`: what it asks for rises
in `Level`, what it gives back falls, and it gives back all it asked for (`Nest`,
once for each way to put a lock around a body). `LocksHeld` then says that a
goroutine holds exactly what is left in its sequence to give back and not left to
ask for, and that a writer or reader that waits for a mutex holds nothing above
it. From that, whoever waits for somebody waits lower than that somebody does
(`WaitsRise`): file, then writer, then readers, mutex by mutex. Eight places are too
few for a circle.

*Lifecycle.* Two inductive invariants. `Core` is about registry, locks and
files: actors hold the file lock exactly at the places `Locked`
(`Locking`), a down daemon is quiet (`Quiet`), and `Held` says for each such
place what the file looks like while the registry is already ahead: that an
`insert` has put the meta there and the file is not written yet, that a `mark`
has closed the meta and the file is still open, and so on. `DiskAgrees` is not
inductive without `Held`, since it says nothing while the lock is taken.
`Workers` is about generations and is inductive relative to `Core`:
`Generations` (a registered handle is owned, used, and filed under the ID of
its meta), `ShutUnused` and `ShutHandleDetached` (a handle that is shut has left
the registry for good, so `Connect` cannot reach it), `RollbackOnlyClosing`
(a session is taken out of the registry without its worker only when the
daemon is closing, which is why `WorkerOfCurrentSession` speaks of a running
daemon), `NoStrayWorker`, `OwnConnection`, `ClosedNeverReady`. Every conjunct
has a lemma with one step per action; the theorems listed in `PROJECT.json`
follow from the two invariants by temporal reasoning. `StoppedLeavesNoWorker` needs
a third, `Stopping`, relative to both: it follows Stop from the flag that no spawn
passes over the handles it collects to the wait for their exits.

*Files.* `Working` says for each operation of the store what registry, file and
image look like between the change of the registry and that of the file; `Agrees`
what holds when nobody is in the file. `Harmless` is the part that is not in
any property and carries the induction: an open record of another session than the
registered one is left only by a session whose end could not be written. A step
concerns one goroutine and one file (`Frame`), so each action is shown for its own
only; `Crash` keeps `Saved` and `Ended` because both speak of registry and file, and
the sessions it cannot read are `failed` from then on.

*Turns.* `Types` is `TypeOK` by parts, with the addition that the cancelling
goroutine of a turn that was not cancelled has not started; without it a second
cancel could restart a goroutine that has used up its tries. `GateSteps` reduces
all the actions to three things a step can do to the session's gate: begin a
turn when none is active, complete the active one (and if the daemon makes the
terminal, for the turn it is about), or leave `token` and `terminals` alone.
`TerminalsOfThePast` says that a terminal is of an earlier turn than `token`, or
of that turn when it is over; with it `OneTerminalPerTurn` and
`FailureOfOwnTurn` are inductive. Both hold although late terminals may end the
wrong turn (section 4): even then no turn ends twice. `InterruptFenced` says
that while an interrupt runs, no input is accepted and its turn is not
interrupted again; `EscBeforeNextTurn` follows. `FenceOfCurrentWorker` is
inductive by itself, and `FencedNeverReopens` rests on the only step that sets
READY.

*Output.* `IsRing` says that the ring holds the last `Len(lines)` of the numbers up
to `outputSeq`, which a restored one, longer than `MaxLines`, does too; `Follows`, that a reader's cursor is behind `outputSeq` and its
channel behind the current one, and strictly whenever there is something unread;
`Given`, that what it was given and what it missed add up. `OutputSteps` and
`TerminalSteps` reduce all actions to four things a step can do to a ring and its
readers. `NoLostWakeup` and `ReadsEverythingOnce` follow. For the refinement of
`OutputLog`, `AddOutput` maps to `Write`, `Subscribe` to `Join`, `ForwardOutput` to
`Read`, the ends of a client to `Quit`, and the rest to stuttering; that the ring's
`Since` is the log's `Entries` after `Before` is the lemma it rests on.

*Supervision.* The count of the budget is inductive only with `Spared`: a worker
that may still be counted as a failed start is one the monitor leaves alone,
because the session is `SPAWNING`; were it displaced, its failure would be lost. It
also says that an `uncounted` start is among the fruitless ones, and is not the one
that is waited for. `Exact` is then the count itself: the fruitless starts without the
one that is pending and the one that `NewSession` could not make; what earlier sessions
of the ID have left is among them from the start. `Clocked` says that, when no start
is pending, the budget's clock is not ahead of the last start; while the first start
of a new session is pending it may be, if there is a count of an earlier session.
`NoSpawnStorm` follows: when `MaxRetries` counted starts were fruitless and none is
pending, the budget is spent, and a start is due only after `Cooldown`.

`ShortBreakHarmless` depends on how the dials fall: they must come no later than
`Grace`, what a heartbeat that was almost due leaves of the garbage collector's limit,
and the last of them not before the connection can be made again. `GraceAssumption`
says so of the constants (TLC evaluates it for those of the run; in the code the fourth
dial comes after 1 + 2 + 4 + 8 = 15 s, and 20 s - 5 s is just that: beyond the strict
comparison of `runGC` there is no slack for a slow dial), together with the
order of the two limits (20 s before 30 s). `InTouch` says that a worker that serves has
beaten within `HbEvery`, and that one that dials again is on that schedule
(`OnSchedule`): the time since the break is that of its next dial less the wait for it,
its last heartbeat is at most `HbEvery` older, and the dials before have failed because
it was too early. A dial that fails is therefore not the last one of the schedule, and
none comes after `Grace`.

*Codex.* Three arguments, one for each side of the worker. What it types: a text is in
the composer, in one task, or, as long as nothing of its turn was written (`Early`),
nowhere, and tasks share no turn (`Placed`); pressing Enter with an empty composer
makes no task, hence `SubmittedOnce`. What confirms it: an entry of its own Codex is
that of a task which came from this worker (`OwnEntries`), and the search looks at
its own entries only, hence `ConfirmedHere`. What it reads: the rollout is made of
pairs, the user record of a task and its end, in the order of the tasks (`Paired`,
`Last`), with one exception, the task that a resumed session was cut off in. A
watcher that is armed has read the user record with its text last (`Watching`), so
that the first end it finds is that of the task whose user record armed it
(`FirstEnd`): whether record and end were read at once or the watcher was
armed by an earlier read. The event then names a task with the text of its turn; and
if that task is of another turn, Codex had not begun it when this one was sent
(`Answers`), which later steps cannot change because offset, tasks and the records
before an offset stay (`AnswersStay`). `Published`, `Passed` and `Answered` follow
the event to the daemon, and `AnswersOwnInput` is a consequence. That the answer
is not that of a *later* turn (`InTime`) is known only once the event is let through,
the turn being in flight. For `EachEndReportedOnce`, `OneReport` says of a turn that
it has no terminal and no reporter while it has not ended, and then one of either:
`EndTurn` makes a reporter of who ends a turn in flight, and that reporter's next step
is the terminal (`FailureReported`, `TerminalsAppend`). That the counts of the property
are these sets' is the lemma `ReportedOnce`.
`Moves` says which actions change what, `Grows` that rollout, tasks and sent events
only grow; with both each part of the invariant has few actions to be shown for.

*Aiden.* `Typing` says that who has typed nothing is not in `typed`, and that who is
at work has typed last, up to `LastByte`; `Exclusive`, that who is at work holds
`sendMu`. `SubmittedWhole` alone would not be inductive: it does not say whose turn
it is to type. The PTY's steps are reduced to one, taking the `n` bytes that follow
`LastByte` (`TypeMore`); all others leave `typed` alone (`OthersSame`).
`ConfirmedByOutput` follows from `InOrder`: the text comes before the subscription,
and that before the Enter.

## 6. What is only model-checked

* `CancelAnswered`, `CondemnedWorkerGoes`, `StopReturns`, `ClosedWorkersGo`,
  `EveryCallReturns`, `WaitingClientServed`, `TurnEnds`, `WatchedTurnEnds`,
  `SlowStartServed`, `HopelessSessionCloses`, `WorkerEnds`: liveness under fairness,
  which the prover does not do.
* The violation of section 4 is a counterexample and needs no proof.

`MutualExclusion` of the file locks, `ClosedNeverReady` (a closed session is never
READY), `ShutHandleDetached`, and the `TypeOK` of every module that has one are
proved and not checked again by a run.

## 7. Plan

In this order; a star marks what is done.

1. `KeyedMutex`, `SessionFileLock` *, refinement proved *.
2. `SessionLifecycle` *, its safety proved *.
3. `TurnRecovery` *, its safety proved *; left: an abstract specification of
   the gate (a turn ends at most once, with one terminal) that it refines, and
   its composition with `SessionLifecycle` (reused IDs, Stop).
4. `OutputLog`, `OutputStream` *, refinement proved *.
5. `Supervision` *, the retry budget and the short breaks proved *.
6. `CodexTurns` *, its safety proved *; left: its composition with `TurnRecovery`.
7. `SessionStore` *: temporary file, rename, crash, I/O errors; its safety proved *.
8. `AidenSubmit` *: chunked writes and their confirmation by output; its safety
   proved *.
9. `LockOrder` *: nesting of the daemon's locks; freedom from deadlock proved *.
10. Pure algorithms against reference definitions: line deduper, idle observer.

## 8. What is not modelled, and why

Adapters for mock, pty and tmux are thin wrappers around a process. The wire
format is one JSON object per line, read by library code; message kinds are
values here. Configuration is read once. Listing, history and the dashboard only
read. The rest of the components without a module is in the plan, and listed
with status `not_modelled` in `PROJECT.json`.
