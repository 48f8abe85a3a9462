# SuperWin: verification of its processes

SuperWin is a desktop workspace for coding agents. Its terminals must outlive
windows, restarts of the back end and updates of the program, and that is the
part of it where concurrency, crashes and hand-over decide whether users lose
work. Around it, the desktop application starts and watches the back end and
runs git in a pool of worker threads. This project models these parts in TLA+,
checks them with TLC and proves some of their properties with TLAPS.

1. [The system](#1-the-system)
2. [The modules](#2-the-modules)
3. [What each run checks](#3-what-each-run-checks)
4. [Fairness](#4-fairness)
5. [What is proved](#5-what-is-proved)
6. [Where code and documents disagree](#6-where-code-and-documents-disagree)
7. [What is not modelled](#7-what-is-not-modelled)
8. [Plan](#8-plan)

Run everything from this directory: `tlc -config X.cfg M` for a run of
section 3, `tlapm M.tla` for a module of section 5.

## 1. The system

A terminal pane in the renderer talks to a *host-service* over a WebSocket.
There is one host-service per organization; it talks over one socket to a
*pty-daemon*, a detached process that owns the PTYs. The socket path is a
function of the organization, so every daemon of an organization binds the
same path, one after the other. The desktop application (Electron's main
process) starts and watches the host-service; host-service starts and watches
the daemon. Each of the three outlives the one before it and is found again
through a manifest file that names its pid.

    Electron main --spawn / adopt / SIGTERM--> host-service
      | HostServiceCoordinator                  | DaemonSupervisor
      | WorkerTaskRunner --> git threads        +--spawn / adopt / SIGTERM--+
      |                                         | DaemonClient              |
    renderer ----------------ws---------------> + ------unix socket--> pty-daemon --pty--> shells
                                                                       | spawns its successor
                                                                       | on prepare-upgrade

| Component | State it keeps | Operations | What is hard | What makes it correct | Module |
|---|---|---|---|---|---|
| pty-daemon (`packages/pty-daemon/src`) | sessions, ring buffer and kill timer of each, connections and their subscriptions | handshake, open, input, resize, close, list, subscribe, unsubscribe, PTY data and exit, shutdown | clients come and go and fall behind while PTYs produce and exit; ids are used again | a subscriber sees a stream without gaps, its end, and nothing after it; buffers hold the running session only; closed sessions end | `PtyDaemon` |
| Handoff (`Server.prepareUpgrade`, `main.ts`, `snapshot.ts`) | snapshot, inherited descriptors, acknowledgement | snapshot, spawn, adopt, acknowledge, refuse, exit, bind | two processes share the PTYs and the socket path; either can die or be late | every shell ends up in exactly one daemon, the one clients reach | `Handoff`, `SessionSurvival` |
| Daemon supervision (`packages/host-service/src/daemon`) | current instance, pending start, update in flight, stop flag, crash window, circuit, liveness timer, manifest on disk, bootstrap promise | ensure, adopt, spawn, exit handler, poll, restart, update, auto-update | all of these are asynchronous and run between each other's awaits; host-service itself dies | the socket path leads to the daemon that is supervised; crashes are counted; restarts are fresh; nobody ends a daemon that is coming up | `DaemonSupervisor` |
| Terminal sessions and DaemonClient (`packages/host-service/src/terminal`), the transport of the renderer | database row, record with its sockets and buffer, connection, callbacks; socket and xterm of a pane | attach, create, adopt and its fallback, output, exit, dispose, disconnect, reconnect | attach, create, dispose and disconnect of one terminal overlap; answers are matched by id only | output is shown or kept; a pane that is attached is served; record and shell agree; no call waits for ever | `TerminalSession` |
| Host-service coordinator (`src/main/lib/host-service-coordinator.ts`) | instance, pending start, liveness timer, manifest on disk | start, adopt, spawn, stop, restart, reset, release, quit, discover | the same races one level up, with updates of the application | one host-service per organization, found again and noticed when it dies | `HostServiceCoordinator` |
| Worker task runner (`src/lib/trpc/workers`) | queue, slots, tasks, promises by key | run, abort, time out, result, failure of a thread, dispose | late results and ends of threads, tasks that share or supersede a run | every task is in one place and settles; dispose leaves nothing | `WorkerTaskRunner` |
| Git status (`src/lib/trpc/routers/changes`) | cache and promise in flight of a worktree | get, invalidate, expire | invalidation while a task reads the repository | no cached status is older than the last invalidation | `GitStatus` |
| Event bus, git watcher (`packages/host-service/src/events`) | subscriptions, watches, timers | subscribe, rescan, broadcast | a rescan races an unsubscribe | no watch without a subscriber, no change lost | |
| Port scanner (`packages/port-scanner`) | sessions, ports, scan in flight | register, hint, scan | a scan result is stale when applied | ports belong to live sessions | |
| workspace-fs (`packages/workspace-fs`) | watches, pending events, search index | watch, coalesce, search | events of one path cancel each other | the index follows the disk | |
| Panes (`packages/panes`) | tree of panes, active ids | split, move, close | long sequences of edits | the tree stays well formed and the active pane exists | |
| Workspace initialisation, editor coordinator | jobs; document states | start and cancel; save and reload | cancellation; a change on disk during a save | a cancelled job leaves nothing; nothing is overwritten silently | |
| Legacy terminal host | sessions and subprocesses | create, attach, kill | as pty-daemon | as pty-daemon | |
| Everything else | none, or the data of a library | views, settings, GitHub calls | | | |

The hazards that follow from this, each with the line where it bites and the
property that would catch it, are listed in `PROJECT.json`.

## 2. The modules

| Module | What it is |
|---|---|
| `PtyDaemon`, `MCPtyDaemon`, `PtyDaemonProofs` | one daemon process and its clients; its instances for TLC; theorems about it |
| `SessionSurvival` | what daemons promise for the shells they run, an abstract specification |
| `Handoff`, `MCHandoff`, `HandoffProofs` | the upgrade of a daemon, which implements `SessionSurvival`; its instance for TLC; theorems about it |
| `DaemonSupervisor`, `MCDaemonSupervisor`, `DaemonSupervisorProofs`, `DaemonSupervisorUpdateProofs` | the supervisor of one organization, the daemons as processes, the socket path, the manifest; its instances for TLC; theorems about it, and those that hold while no restart is asked for |
| `TerminalSession`, `MCTerminalSession`, `TerminalSessionProofs` | one terminal from the renderers to the shell; its instance for TLC; theorems about it |
| `WorkerTaskRunner`, `WorkerTaskRunnerProofs` | the pool of worker threads |
| `GitStatus`, `MCGitStatus`, `GitStatusProofs` | the git status of a worktree, composed with the runner |
| `HostServiceCoordinator`, `MCHostServiceCoordinator`, `HostServiceCoordinatorProofs` | the coordinator of one organization and its services as processes; its instance for TLC; theorems about it |

The modules of the back end meet at the socket: `PtyDaemon` describes what a
daemon does while it is the one that listens, `Handoff` how another becomes
that one, `DaemonSupervisor` which process it is and `TerminalSession` what a
user sees of it. What one of them details the others abstract: in
`DaemonSupervisor` a daemon is a process state and a flag that says whether it
has sessions, in `TerminalSession` it runs one shell and may be gone for a
while. `GitStatus` EXTENDS `WorkerTaskRunner`: its steps are steps of the
runner with what the callers of a task do in the same callback.

Operators whose comment begins with "mutant:" are not part of a model. Each is
a plausible mistake in the definition that follows it, and a property that
holds of the model is known to fail when the mistake is made.

Some variables are history: no action depends on them, and they record what a
property is conditional on. `Handoff.breach` and `gap`,
`TerminalSession.breach`, `heard` and `lost`, `GitStatus.joined`,
`HostServiceCoordinator.strays`, and `PtyDaemon.fresh` and `recv`.

### PtyDaemon

The daemon is single threaded, so an action is a callback: `Hello`,
`HandleOpen`, `HandleClose`, `HandleSubscribe` and so on are the cases of
`Server.dispatch` with the handler each calls; `OnData` and `OnExit` are the
PTY callbacks that `wireSession` installs; `Escalate` is the kill timer of
`Pty.ts`; `SocketClosed` is the close event of a socket, whoever caused it.
`Send` is `writeMessage` for a set of receivers: a reader whose queue is full
is destroyed and what was queued is lost, and the others get the frame.

Bytes are positions. `total[i]` is how much the PTY of session id `i` ever
produced, `base[i]` where its current session began, an output frame carries
the positions `from` and `to`, and `chunks[i]` has the start positions of the
chunks in the ring buffer. This is all that continuity of a stream needs.
`fresh` and `recv` are history: subscriptions that have sent nothing yet and
what a client has read.

Differences from the code, all deliberate: the outbound cap counts frames
instead of bytes; a window size and the bytes of an input change nothing the
daemon keeps and have no action beyond their error answers; a list reply has
no content; a crash of the daemon and its orderly shutdown have the same
effect on clients and sessions and are both `Stop`. A killed shell is a state
of `term`; that SIGKILL ends a process and is reported is fairness. The branch
of `handleOpen` that recycles an exited entry cannot be reached, because
`onExit` deletes the entry in the same callback that marks it.

### DaemonSupervisor

The supervisor's maps are keyed by organization and no operation mixes two
keys, so the model has one organization and each map is a variable:
`instance`, `timer`, `stopping`, `crashes`, `circuitOpen`, `start` (the
pending start and where in `start()` it is), `upd` (`runUpdate()`), `restart`
(each call of `forceRestart()`), `auto` (each `runAutoUpdate()`), `boot` (the
bootstrap promise of `singleton.ts`). JavaScript runs to completion between
awaits; an action is such a stretch. What runs in the same tick is in the same
action: the exit handler of a child up to the first await of the `ensure()` it
calls is `ExitCrash`.

| Code | Actions |
|---|---|
| `startDaemonBootstrap`, `waitForDaemonReady` | `Bootstrap` |
| `ensure` up to its first await | `Ensure`, used by `Bootstrap`, `ExitCrash`, `RestartEnsure` |
| `start`, `tryAdopt` | `AdoptConnect`, `Adopt`, `AdoptProbeFails`, `AdoptKilled` |
| `spawn` | `Launch`, `SpawnReady`, `SpawnTimeout`, `SpawnAborted` |
| exit handlers of a child | `ExitIgnored`, `ExitExpected`, `ExitCrash` |
| `startAdoptedLivenessCheck` | `LivenessPoll` |
| `restart`, `forceRestart`, `stop` | `RestartBegin`, `RestartGo`, `RestartKilled` |
| `terminateProcessTreeAndGroups` | `Signalled`, `Escalate` |
| `update`, `runUpdate` | `UserUpdate`, `UpdateBegin`, `HandoffRefused`, `HandoffLost`, `UpdateEscalate`, `UpdateExited`, `UpdateProbe` |
| `kickoffAutoUpdate`, `runAutoUpdate`, `forceRestartAfterAutoUpdateFailure` | `AutoList`, `RunAutoUpdate`, `UpdateEnds`, `RestartBegin` |
| daemon: `prepareUpgrade`, `finalizeHandoff`, `runHandoffReceiver` | `HandoffSpawn`, `HandoffAck`, `HandoffNak`, `Leave`, `BindSuccessor` |
| daemon: `runFresh`, `wireShutdown` | `Bind`, `Terminated` |

The operating system is part of the model, because the code depends on it in
places that are easy to get wrong. A socket path leads to the last listener
that bound it, dead or alive (`sock`), and is unlinked by any listener that
closes, its own or not (`Die`). `connect()` succeeds on a daemon that hangs,
a probe does not (`Connectable`, `Reachable`). `kill(pid, 0)` succeeds on a
zombie, so a child is `Gone` only after its exit event. A signal to a daemon's
process tree reaches a successor that has not detached (`Tree`).

Nondeterminism stands for time: a wait that may time out has an action for
the answer and one for the time-out. The crash window is the choice of `n` in
`ExitCrash`: any number of earlier crashes may have left it.

### Handoff, SessionSurvival

`Handoff` is the predecessor, its clients and its successors: `PrepareUpgrade`
is `Server.prepareUpgrade` up to the wait for an answer, `Acked` and `Refused`
are the two ways `waitForHandoffAck` ends (refused, exit, disconnect and
time-out have one effect), `Close` and `Exit` are `finalizeHandoff`, `Adopt`,
`AdoptFails`, `Bind` and `BindEarly` are `runHandoffReceiver` in `main.ts`,
`OnData` and `OnExit` the callbacks of an adopted or spawned PTY. `store[d]` is
the session store of a process (of a successor that has not adopted: the
snapshot and the descriptors), `ring[d]` its ring buffers, `wait` and `ipc` the
answer that is awaited and the one that was sent, `told` the reply to the
supervisor, `path` what the socket path leads to. Bytes are positions again: `made`
is what a shell wrote, `read` what was taken from the kernel, and each position
goes to one reader.

Differences from the code, all deliberate: a session is one PTY, so that an id
opened again is another session, and each is opened once. Connections are not
variables: whoever serves may be asked to open, because a connection outlives a
change of the path. A snapshot that cannot be written changes nothing and has
no action. Caps of ring buffers are left out here (`PtyDaemon` has them).

`SessionSurvival` is the promise behind all this, in four variables: a shell
that runs goes on until it exits or is closed, unless a process fails or is
late, or the shell was started during an upgrade and missed the snapshot. The
refinement mapping reads `held` off the shells, `upgrading` off the processes
and `failures` off the faults; a successor that binds while its predecessor is
still there counts as late. A session is `late` when no process is safe with it
(`Safe`): a process is when it has the session and is not to be given up by a
parent that awaits its answer, and when no successor of its own was left
without the session.

### TerminalSession

One terminal id. A *call* is the handling of one attach (one WebSocket) or one
create request, and `step[k]` says which await it is at. host-service runs one
callback at a time, and everything promises settle on the way before the next
(`NextCallback`); a chunk from the socket may carry several frames, so frames
may be handled before a continuation runs, as they are in the code.

| Code | Actions |
|---|---|
| `onOpen`, `resolveSessionForAttach` | `OnOpen`, `ClientReady`, `ClientFails`, `Continue` with `Fallback` |
| `createTerminalSessionInternal`, adoption and its relisting | `Create`, `ClientReady`, `Continue` with `Register` |
| `attachSocketToSession`, `replayBuffer`, `broadcastBytes`, `bufferOutput` | `Attach`, `Broadcast` |
| `DaemonClient`: answers, output and exit, time-outs, `onClose` | `OnReply`, `OnOutput`, `OnExit`, `Timeout`, `Disconnected` |
| `disposeSessionAndWait`, `closeDaemonSessionById`, `unsubscribe` | `Dispose`, `KillById`, `Unsubscribe` |
| `terminal-ws-transport.ts` of the renderer | `Connect`, `Drop`, `Reject` and `OnClose` as it sees them |
| pty-daemon: list, open, close, subscribe, unsubscribe; crash and handoff | `Serve`, `Output`, `ShellExits`, `Lost`, `DaemonBack` |

A session record is named after the call that made it, since two calls may each
make one; `cur` is the one in the map, and the others live on through their
callbacks in the client. `up` and `down` are the two directions of the socket,
in order; frames carry the id of the terminal and nothing of the request, so
`OnReply` answers whoever waits for one of its kind.

Deliberate differences: `getDaemonClient` makes one connection at a time
(section 7); output is chunks numbered by the shell; the buffers have no cap; a
client error, an exit message and a close are what makes a transport stop
(`ended`); a socket whose other side has left without a close is `half`.

### WorkerTaskRunner, GitStatus

Each action of the runner is one callback of `WorkerTaskRunner.ts` up to and
including the `finally` of the promises it settles: `RunTask` is `runTask` with
`dropQueuedTasksByKey` and `drainQueue`, `AbortTask`, `HandleWorkerMessage`,
`HandleTaskTimeout` and `HandleWorkerFailure` are the methods of that name,
`WorkerError` and `WorkerExit` the events of a thread, `Dispose` and
`DisposeGoesOn` the stretches of `dispose` between its awaits. Tasks are
numbered in the order of the calls and slots by `workerCounter`, which are the
orders of the queue and of the map, so that both can be sets: the first
task of the queue is its smallest element. `Commit` is what `drainQueue` does
to all of the state, given the queue, the slots and the fate of tasks that the
callback leaves to it; `Finally` removes the entries of the keys of settled tasks.

`GitStatus` adds the callers: `GetStatus` with its cache and its promise in
flight, `ExecuteGitTask` in the worker, `ClearStatusCache` at the end of an
operation that changed the worktree, `Expire`. A status is the version of the
repository that was read. `Continue` is what the callers do when their task is
settled, in the same callback. Results are posted by `git-task-worker`, which
answers a task once. `waiting` are the tasks that calls of `getStatus` wait
for; `joined` those that a later call came to share through the dedupe key
although an invalidation had let go of their promise.

### HostServiceCoordinator

The maps are keyed by organization, and the model has one, as in
`DaemonSupervisor`. Start is single-flight and `phase` is the await it is at;
`check` is a health check and its answer, which is delivered later than given
and may be stale. `Begin` is `start` up to its first await, part of every
action that calls it. The windows and the tray come after `discoverAll` and stay
until Electron is gone (`Ready`): a start, stop, restart or reset may come
between the steps of a quit, and a plain quit during `discoverAll`. A complete
quit may not: it is asked for in the tray, or by an update, which is looked for
later. The version of the application may go up or, for a prerelease, back.

| Code | Actions |
|---|---|
| `start`, `tryAdopt`, `killManifestProcess` | `Start`, `Answer`, `Adopt`, `Replace`, `Disown` |
| `spawn` and the exit event of its child | `PortFound`, `PortFails`, `EnvFails`, `SpawnFails`, `SpawnChild`, `Healthy`, `HealthTimeout`, `ExitEvent` |
| `startAdoptedLivenessCheck` | `Poll` |
| `stop`, `restart`, `reset` | `Stop`, `Restart`, `Reset` |
| `releaseAll`; `teardownKnownManifests` with `stopAll` | `Release`; `QuitCompletely`, `TearDown` |
| start of the application, `discoverAll` | `Relaunch` |
| host-service: `serve`, the SIGTERM handler | `Listen`, `Terminate` |

A service is a process state: `boot` has no SIGTERM handler and no manifest
yet, `wedged` is alive with a blocked event loop, so that it is found alive and
does not answer. `strays` are services the code lets go of on purpose or by
overwriting the one record of them: one of another version that does not
answer, one that still boots when Electron ends, one whose manifest a second
one overwrites, one removed by the poll of another.

## 3. What each run checks

Runs of `PtyDaemon` (the constants are in the `.cfg` files):

| Run | Properties | Instance and why it is enough |
|---|---|---|
| `PtyDaemonFanOut` | `TypeOK`, `NoDanglingSubscription`, `ReplayBounded`, `SubscribersToldOfExit` | two connections and one id, outbound queue of one frame: one reader behind while the other is not, ids used again, replay after eviction |
| `PtyDaemonStream` | `StreamContiguous`, `ExitIsFinal`, `CloseTerminates` | one connection with a deeper queue, so that replay, live output, exit, a new session and its output meet in it; one id closed repeatedly, with either signal |

The run of `Handoff`:

| Run | Properties | Question |
|---|---|---|
| `Handoff` | `TypeOK`, `SoleCustodian`, `ReplayKept`, `UpgradeKeepsPromise`, `ReportedServes` | three processes and a shell: two upgrades in a row or at the same time, each acknowledged, refused, timed out or late, and a process that crashes at any point. Do running shells survive, with their replay, in the process that clients reach? |

`UpgradeKeepsPromise` is `Survival!Spec`: every step of a handoff is a step of
the abstract specification or leaves its variables alone. Two upgrades need
three processes; instances with four processes, and with two shells, were
checked once and pass, and section 5 proves the safety properties for any
numbers of either. `SoleCustodian` and
`ReportedServes` are about upgrades that did not overlap and in which no
successor bound before its predecessor had gone (`breach`), because they fail
otherwise: nothing in the daemon stops a second `prepare-upgrade`, and a
predecessor that closes after the successor has bound unlinks the path of the
successor. `ReplayKept` leaves out positions that were read while two processes
had the master: each of them is in the ring buffer of one. The refinement has
none of these conditions: overlapping upgrades end no shell but one that missed
a snapshot.

Runs of `DaemonSupervisor`. An instance bounds the processes (`Pid`), restart
requests (`User`), updates, spontaneous daemon faults and deaths of
host-service; three to five processes allow a daemon that is adopted, its
successor, and the one spawned in their place.

| Run | Properties | Question |
|---|---|---|
| `SupervisorUpdates` | `ManifestNamesInstance`, `SocketIsInstances`, `SessionsReachable`, `InstanceWatched`, `CrashCounted` | two updates that succeed, are refused or get stuck, and two daemons that crash or hang at any point: do the manifest, the poll, the stop flag and the path agree on the daemon that survives? |
| `SupervisorRestart` | `RestartFresh` | one restart beside an update, a fault and a death of host-service: can it end with the old daemon? |
| `SupervisorAll` | `TypeOK`, `BreakerTrips`, `OpenCircuitIdle`, `StartingChildSpared` | a restart, an update, auto-updates, a fault and a death of host-service together, with a budget that the first crash exceeds |
| `SupervisorLive` | `RestartEnds`, `StaleInstanceCleared` | do two concurrent restarts end when a daemon hangs, and does the supervisor let go of a dead daemon? |
| `HandoffHostCrash` | `SuccessorReachable`, violated | section 6 |

Three of the properties carry the condition under which they hold, because
TLC shows that they fail outside it:

- `SocketIsInstances` is about daemons that took over from no one. After a
  handoff whose acknowledgement comes when the supervisor has stopped waiting,
  the path leads to the successor while the predecessor is still the instance,
  until the poll finds it dead.
- `SessionsReachable` is about runs without faults. A daemon that hangs when
  it is adopted is given up, and whoever is spawned next takes its path.
- `InstanceWatched` allows one failure, of a daemon or of host-service. With
  two, a child that dies before its socket is ready, while a successor of an
  earlier daemon answers on the path, becomes the instance although its exit
  handler was attached too late to see it die (`DaemonSupervisor.ts:987-1016`).

A restart or a death of host-service beside an update breaks the properties
about the settled state (section 6), which is why `SupervisorUpdates` has
neither; the theorems of section 5 say what remains of each condition. None of
the bounds on `Pid` is what makes a property hold: when processes run out a
spawn fails, which the code handles.

Runs of `TerminalSession`:

| Run | Properties | Question |
|---|---|---|
| `TerminalSession` | `TypeOK`, `AttachedIsServed`, `OutputAccounted`, `RecordFollowsShell`, `CallsAnswered` | three attaches and creates by two renderers, a shell and the one after it, output, a dispose, and one fault, which is a request that times out, a connection lost by a crash or a handoff of the daemon, or the death of host-service |
| `ReplayDoubled` | `NoDoubledOutput`, violated | section 6 |

Three calls are a create, an attach and one that comes between their steps or
after a loss. `CallsAnswered` and `OutputAccounted` hold of whatever
interleaves. `AttachedIsServed` and `RecordFollowsShell` are about runs in which
calls did not meet (`breach`): two overlapping attaches, or a dispose during a
create, leave two records for one terminal or a record over a row that says
disposed; a request that times out may have opened a shell; a dispose while
nobody listens leaves the shell; and a shell that ends before it is subscribed
to ends unnoticed. Each of the conditions was added for a counterexample.

The run of `GitStatus`, and with it of `WorkerTaskRunner`:

| Run | Properties | Question |
|---|---|---|
| `GitStatus` | `StatusTypeOK`, `Custody`, `NothingStranded`, `SharedIsPending`, `DisposeComplete`, `StaleOnlyIfJoined`, `Settles` | three tasks of two keys for two slots, a status task that coalesces, one that supersedes and can be aborted, one whose signal is aborted already; time-outs, a thread that fails, a change of the repository, a dispose at any point |

Three tasks for two slots are one that waits while the others run, or one that
supersedes another. Six threads allow each slot to be replaced twice; a run
that would need a seventh stops there. `NothingStranded` and `Settles` exempt
runs with a signal that was aborted before the call (section 6);
`StaleOnlyIfJoined` states the only way in which a stale status gets cached.

The run of `HostServiceCoordinator`:

| Run | Properties | Question |
|---|---|---|
| `HostServices` | `TypeOK`, `OneService`, `NothingLost`, `DeathNoticed` | three services, two versions of the application, two ends of Electron, of any kind, and two services that crash or stall; starts, stops, restarts and resets without a bound |

Three services are one that is adopted or left behind, its replacement, and one
more that meets the two. `OneService` and `NothingLost` are about services that
the code did not let go of (`strays`): `OneService` says nothing of a service
that was told to end and has not yet, `NothingLost` that whoever is not told to
end is on record somewhere.

`CHECK_DEADLOCK FALSE` is set where the system really may stop: in
`DaemonSupervisor` when the circuit is open and no user asks for a restart, or
when an adopted daemon has died (section 6); in `Handoff` when the last process
has crashed, or the last upgrade is over and the shells have ended; in
`TerminalSession` when no renderer, request or fault is left; in `GitStatus`
when the runner is disposed.

## 4. Fairness

`PtyDaemonStream`, `SupervisorLive`, `Handoff` and `GitStatus` are the runs
under fairness. `PtyDaemon.FairSpec` assumes that the event loop runs a timer
that is due (`Escalate`) and that the kernel ends a process sent SIGKILL and the
PTY reports it (`Reap`). Nothing is assumed of clients or of shells.

`DaemonSupervisor.FairSpec` assumes weak fairness of

- what the event loop of host-service does: every wait of `start()`,
  `runUpdate()`, `forceRestart()` and the auto-update has a time-out, exits are
  reported, the poll is an interval timer. One fairness condition on a
  disjunction, as on `StartNext` and `UpdateNext`, says that the function goes
  on, not which way;
- what a live daemon does: bind, acknowledge or give up, leave, and end when
  it is told to. A daemon that hangs does nothing: `Resume` has no fairness.

Requests of users and clients, faults and failed spawns have no fairness.
`Bootstrap` is part of `StartNext` because a request that finds no bootstrap
promise makes one, and terminal panes reconnect until they succeed.

`Handoff.FairSpec` assumes that a process that has not crashed goes on: a
successor adopts or gives up, its predecessor reads the answer or times out,
closes and exits, and the successor binds, when its predecessor has gone or
after its second. Which of two ways is taken is open.

`WorkerTaskRunner.Fairness` assumes that while timers of tasks are due some
timer fires, that while threads were told to end some thread ends, and that
`dispose` goes on when the thread it awaits has ended. A worker that is at work
may never answer: `Settles` rests on the time-outs alone.

## 5. What is proved

Every theorem holds for all values of the constants that satisfy the
assumptions of its module: any numbers of ids, connections, processes, restart
requests, updates and faults, of renderers, calls and chunks of output, of
slots, tasks, threads and keys, any caps, any crash budget and any options of
tasks.

| Theorem | States |
|---|---|
| `PtyDaemonProofs!DaemonTypes` | `Spec => []TypeOK` |
| `PtyDaemonProofs!NoStaleSubscription` | `Spec => []NoDanglingSubscription` |
| `PtyDaemonProofs!ReplaySafety` | `Spec => []ReplayBounded` |
| `PtyDaemonProofs!StreamWhole`, `ExitLast` | `Spec => []StreamContiguous`, `[]ExitIsFinal` |
| `PtyDaemonProofs!ExitTold` | `Spec => SubscribersToldOfExit` |
| `DaemonSupervisorProofs!SupervisorTypes` | `Spec => []TypeOK` |
| `DaemonSupervisorProofs!BreakerSafety` | `Spec => []BreakerTrips` |
| `DaemonSupervisorProofs!OpenCircuitSafe` | `Spec => []OpenCircuitIdle` |
| `DaemonSupervisorProofs!StartingChildSafe` | `Spec => StartingChildSpared` |
| `DaemonSupervisorProofs!RestartEndsFresh` | `Spec /\ NoOverlap => RestartFresh` |
| `DaemonSupervisorProofs!OneUserAlone` | `Spec => NoOverlap`, with one user and no auto-updates |
| `DaemonSupervisorUpdateProofs!ManifestTrue`, `InstanceNoticed` | `Spec /\ NoRestarts => []ManifestNamesInstance`, `[]InstanceWatched` |
| `DaemonSupervisorUpdateProofs!PathTrue`, `SessionsKept` | `Spec /\ NoRestarts => [](hostCrashes = 0 => SocketIsInstances)`, and the same of `SessionsReachable` |
| `DaemonSupervisorUpdateProofs!CrashesCounted` | `Spec /\ NoRestarts => CrashCounted` |
| `DaemonSupervisorUpdateProofs!UnaskedUnlessAsked` | `Spec => NoRestarts`, with no user and no auto-updates |
| `WorkerTaskRunnerProofs!TypeCorrect`, `CustodyKeptForever`, `SharedStaysPending`, `DisposeCompletes`, `NoneStranded` | `Spec => []TypeOK`, `[]Custody`, `[]SharedIsPending`, `[]DisposeComplete`, `[]NothingStranded` |
| `HandoffProofs!HandoffTypes`, `ReplaySurvives`, `OneCustodian` | `Spec => []TypeOK`, `[]ReplayKept`, `[]SoleCustodian` |
| `HandoffProofs!UpgradeRefines` | `Spec => UpgradeKeepsPromise`, the specification of `SessionSurvival` |
| `HostServiceCoordinatorProofs!CoordinatorTypes`, `OneAtMost`, `KeptIsFound`, `InstanceWatched` | `Spec => []TypeOK`, `[]OneService`, `[]NothingLost`, `[]DeathNoticed` |
| `TerminalSessionProofs!SessionTypes`, `NoneWaitsForever`, `OutputKept` | `Spec => []TypeOK`, `[]CallsAnswered`, `[]OutputAccounted` |
| `TerminalSessionProofs!NoneTalksToNobody`, `RecordAtRest` | `Spec => []AttachedIsServed`, `[]RecordFollowsShell` |
| `GitStatusProofs!ImplementsRunner` | `StatusSpec => Spec`, the specification of the runner |
| `GitStatusProofs!StatusCustody`, `StatusShares`, `StatusDisposes`, `StatusNoneStranded` | the theorems of the runner for `StatusSpec` |
| `GitStatusProofs!StatusTypeCorrect` | `StatusSpec => []StatusTypeOK` |
| `GitStatusProofs!NotStale` | `StatusSpec => []StaleOnlyIfJoined` |

The assumptions are `DaemonAssumption` (caps are positive numbers),
`SupervisorAssumption` (`NoPid` is not a process, callers are not processes,
the bounds are numbers), `HandoffAssumption` (`NoDaemon` is not a process, the
bounds are numbers), `CoordinatorAssumption` (`NoProc` is not a process, the
bounds are numbers, there is a version), `TerminalAssumption` (`NoRenderer` is
not a renderer, the bounds are numbers), `RunnerAssumption` (options have the shape the code
gives them, there is a slot) and `StatusAssumption` (calls of `getStatus`, and
no others, use the key of the worktree).

*PtyDaemon.* The inductive invariant is `TypeOK`, `NoDanglingSubscription`,
`ReplayBounded` and `BaseBehind`, which says that a session never begins
beyond what its PTY has produced; without it `ReplayBounded` is not inductive,
since `OnData` adds a chunk that starts at `total[i]` and has to be at or
after `base[i]`. What `Send` does to the connections is a lemma of its own.

*The stream.* `StreamContiguous` and `ExitIsFinal` are about positions of a
queue, and neither is inductive: the first says nothing of output whose
subscription has ended, nor the second of what comes after the end of the
queue. `StreamInv` says of each queue and id, in terms of the queue alone, that
an output frame continues the one before it or is the first of its subscription
(`Contiguous`), that after an exit only a first frame may follow (`Final`),
and, while a subscription lasts and has sent output, that the queue ends where
the PTY has come to and that no exit is the last word in it (`Current`). Lemmas
about what an append and the removal of the head do to such a queue carry the
proof; the rest is that a slot which is free or broken leaves no frame to its
next connection (`LeavesNothing`). `SubscribersToldOfExit` is an action
property: of the steps that take a session away only `OnExit` leaves the
daemon up, and it sends to all who are subscribed.

*Breaker.* `BreakerTrips` is inductive given the types. The lemma
`BreakerMoves` sorts the steps into those that leave the count and the circuit
alone, those that reset both (a restart, a new host-service) and `ExitCrash`,
which opens the circuit in the step that exceeds the budget.

*Open circuit.* `OpenCircuitIdle` says that nothing comes up while the circuit
is open. It is not inductive: the circuit opens when the current daemon exits,
and a start could be under way at that moment. `StartedAlone` excludes this: a
spawned daemon is never the instance while a start is in progress, because
`ensure()` starts nothing when there is an instance, and a start ends in the
step that sets one. An update sets the instance too; `SuccessorsForeign` says
that a successor is not a child of host-service, so `StartedAlone` says nothing
of it. `OpenInv` is the conjunction of the three, and its proof uses the
invariant of the next paragraph, from which a recorded process is not one that
a later spawn could make a child (`OpenKept`).

*Starting children.* That a daemon coming up is signalled by its own start
only is not inductive: one has to know that none of the records processes are
signalled from, the manifest, the instance, the successor and the saved
manifest of an update, and the daemon that is being adopted, names such a
child. `RecordsKnown` says so; it needs in turn that the records name no
unused process (or a later spawn would make one of them name a starting
child), and `ChildrenSpawned`, that a successor is not a child of
host-service, since a signal to a daemon reaches its successor. `SparedInv` is
their conjunction. `StepMoves` shows what any step does to processes and
listeners, `RecordsLast` that what was known stays known, `StepRecords` that a
step records known processes only, and `SparedMove` that the processes a step
signals are in the tree of a recorded one.

*A restart that no other meets.* `NoOverlap` says that `forceRestart()` is not
called while another call is in progress; `OneUserAlone` shows that it is true
of what `SupervisorRestart` checks. It is needed: the second of two restarts
adopts the daemon that the first one is ending (section 6). `FreshInv` says
that nothing happens before the bootstrap (`BootInv`), that one restart is
busy (`OneBusy`), that the daemon in use, the one being started or adopted and
the successor of an update are different (`Apart`), and that the one a restart
has signalled is none of them (`Ending`). `StepRecordMoves` sorts all steps by
what they do to these records: a record is dropped, a start or an update ends
and passes its daemon on, a process that was unused is recorded, or the daemon
of the manifest is taken up again. The last is the one that could bring the
signalled daemon back, and only a bootstrap or another restart does it.

*Without restarts.* `NoRestarts` says that `forceRestart()` is not called, the
condition under which the run `SupervisorUpdates` checks these properties;
`UnaskedUnlessAsked` shows that it is true of that run. Updates, faults and, where
the theorem does not exclude them, deaths of host-service are unlimited.
`OneTask` is what such a supervisor remembers: it starts a daemon only while it
has none, an update is of the instance and is the only reason for the stop
flag (`TaskAlone`), and the manifest follows (`ManifestFollows`);
`ManifestNamesInstance` is part of it and `CrashCounted` a consequence, given that
an exit is reported once (`ReportedOnce`). For the path, `OnlyOne` says that
until a handoff begins every live daemon is in use, is being started, or waits
in the manifest for the bootstrap, and that the path leads to it. For the
sessions, `QuietState` says for every phase of a start and of an update which
daemons are alive and what they are doing, as long as nothing has failed; that
an update which fails leaves no successor behind, and one that succeeds no
predecessor, are two of its lines. `InstanceWatched` needs what happens to a
child before its exit handler is attached: nobody but a fault ends it
(`SpawnIntact`), and when a first fault does, nothing else is alive, by
`QuietState`, so that nobody answers in its place (`SpawnAlone`).

*Handoff.* `IInv` adds to the types: a running shell has its master in a live
process (`Held`); a process that has not been started has no child, and a
parent is neither unused nor a successor that is still to serve (`Family`); a
session that was not opened has no output (`Unopened`, without which opening
one would break `ReplayKept`); what was read is kept by every process that is
alive, the successors that have not adopted yet included (`Replay`); and, while
upgrades do not overlap and none binds early, at most one process serves or
leaves and at most one is to come, which is its child (`OneByOne`).
`SoleCustodian` follows from `Held` and `OneByOne` when nothing is under way.

For the refinement, `Leaving` says what holds as long as no process failed or
was late (`Calm`): a process that leaves has a successor that adopted and is no
longer awaited. It is what makes `Exit` a `Handover` and not a `Fail`: whatever
the process that exits was safe with, that successor is safe with
(`ExitRelies`). The other steps are sorted by what they do to the processes:
`MoveSurvives` for those in which one goes on, `GoneSurvives` for those in which
one ends, `FailStep` for crashes and early binds, and a step of a session is its
counterpart in the promise or leaves it alone (`SessionRefines`).

*The coordinator.* Neither `OneService` nor `NothingLost` is inductive, and they
follow from the same facts about services that were kept, that is neither told
to end nor let go of. `Recorded` says that such a service is awaited by the
start that spawned it until it listens, and is then the one in the manifest,
which is more than `NothingLost` says; `Single` that it is the one a pending
start asks and the one of the instance, if there are any: two kept services
would be the same. `Phases` and `Entry` say what the check and the entry of
`instances` can be at each await, `Booted` that a service which answered or is
named by the manifest has listened. `Watched` is `DeathNoticed` for services
that still run. `RestartInv` is the argument for `restart` and `reset`, which
stop and start in one step; `Closing` keeps the bound on quits.

*The runner.* `IInv` is `TypeOK`, `Custody`, `SharedIsPending`, `Numbered` and
`Closed`. `Numbered` says that slots carry numbers up to `workerCounter`, that
a thread is in a slot or has ended, and that the slots which `dispose` has
passed are idle with threads that have ended: it is why no thread is left when
the loop finds no further slot, although time-outs and aborts add slots while
it waits. `Closed` says that a runner being disposed has an empty queue and
takes no tasks. Every callback ends in `Commit`, so the argument is made once:
a callback owes it a queue, slots and fates that together have custody of what
stays pending (`CustodyBefore`), and `CommitCustody` shows that free slots, in
order, take the first tasks, in order, each task in one slot. That rests on
`PositionOnto`: in a finite set of numbers there is exactly one element at each
position below its cardinality. `CallbackStep` combines this with the types and
the keys, and each action has a lemma that shows what it owes. `NothingStranded`
needs `Staffed`, that the slots whose threads are not being ended are never
more than the pool and are all of it while a task is pending: it rests on the
slots that a callback adds filling the pool up (`MissingFills`).

*Terminal sessions.* `CallsAnswered` needs `LinkInv`: a connection that is cut
or gone carries no request and no subscription, and when it is gone no frame is
left, the map is empty and every request was rejected. Without it a request
could be handed to a connection whose end was already announced, and nobody
would answer. `OneCallStep` makes the argument once for the steps of a call,
which may only add requests; `ServeAnswers` shows that the request taken from
the connection puts a frame on it that the waiting call matches, and
`RejectRequests` does the rest. `OutputAccounted` is about the session in the
map and is not inductive, since it says nothing of the record that the next
registration puts there: `Accounted` says it of every record. It also needs `Wired`, that a socket open on both sides has a
transport: that is why output which `Broadcast` or the replay of an attach
writes to an open socket is shown, and why only one that is half open loses it.

`AttachedIsServed` and `RecordFollowsShell` are about calls that did not meet.
`Alone` says what that means for the state: at most one call may still make a
record, and none while the map has one; with `HeldOpen`, that the socket of a
transport is open and its own, this gives the first. For the second, requests
and frames come in few shapes then, and `Orderly` lists them: the phases of the
session in the map, from the subscription on its way to the exit
(`Running`), what the last one may have left when there is none (`Resting`), the
phases of a call (`Calling`), and that a shell outlives its terminal only while
it is told to end (`Ended`). At rest the phases leave what the property says.

*Git status.* `RunnerInside` shows that every step of the whole is a step of
the runner or leaves it alone, so `StatusSpec` implements `Spec` and inherits
its invariants. For the cache, `CacheInv` says of the promise in flight what
`StaleOnlyIfJoined` says of the cache, `FreshEnough`: its task, if nobody
joined it late and it has read the repository, read it after the last
invalidation. `ClearStatusCache` makes this true by letting go of the promise, and
`GetStatus` by making a task that has read nothing or by marking the task it
joins.

Only checked by TLC: the liveness properties, `CloseTerminates`, `RestartEnds`,
`StaleInstanceCleared`, `ReportedServes` and `Settles`, which TLAPS cannot
prove. Every other property of a run that passes is the statement of a theorem,
for `DaemonSupervisor` with the conditions given above.

## 6. Where code and documents disagree

Two runs that TLC must find violated; `PROJECT.json` quotes the lines that
promise the property.

1. `HandoffHostCrash`: the manifest names the predecessor until the update has
   ended. A host-service that starts in between spawns a daemon that takes the
   socket path from the successor, and the sessions are out of reach.
2. `ReplayDoubled`: a renderer that reconnects with `?replay=0` is shown its
   output again when the adoption fails and the fallback adopts after all,
   because the fallback does not pass the parameter on (`terminal.ts:1545`).

What follows was met while modelling and is visible in the models as steps or
as the condition of a property; it has no run of its own.

Daemon and handoff:

- a session opened between the snapshot of a handoff and its acknowledgement
  ends with the predecessor (`Server.ts:162`): `late` in `SessionSurvival`;
- a client that subscribes after the exit gets `ENOENT` and never learns the
  exit code (`Server.ts:506`);
- when `getMasterFd` throws after the spawn, the shell stays without a session
  (`Pty.ts:186`);
- a handoff uses the buffer cap of the new binary, its snapshot that of the old
  one (`main.ts:139`).

Supervision of daemons:

- the stop flag survives a restart, because `stop()` deletes the instance
  before the exit handler can look at it (`DaemonSupervisor.ts:473`); the next
  crash is not counted and the daemon not respawned;
- after the death of an adopted daemon nobody calls `ensure()`, because
  requests are given the first bootstrap promise (`singleton.ts:64`,
  `DaemonSupervisor.ts:490`);
- the second of two restarts adopts the daemon that the first one is ending
  (`DaemonSupervisor.ts:471`);
- a restart during an update leaves two daemons alive
  (`DaemonSupervisor.ts:389`);
- a daemon that does not answer the version probe in time is ended with its
  sessions when it is adopted (`DaemonSupervisor.ts:876-893`), where
  `DAEMON_SUPERVISION.md:71` does not take it for stale; the code does so
  knowingly;
- a session opened after the list that found none is ended by the restart of a
  failed auto-update (`DaemonSupervisor.ts:736`); `AutoList` and `RestartBegin`
  show the window;
- a daemon that comes up when host-service dies is in no manifest
  (`DaemonSupervisor.ts:994`), and a respawn that fails is only logged
  (`DaemonSupervisor.ts:1056`).

Worker task runner and git status:

- a status read after an invalidation joins the task that was running before
  it, through the dedupe key, and its stale result is cached: `joined`;
- the generation of a key starts at 1 again once the task that has the latest
  number is settled (`Finally`): a superseded task that still runs may then carry the
  number of a later one, and is resolved where it should be rejected;
- a task whose signal is aborted already is rejected in `drainQueue` after it
  has taken the turn of a slot, which stays idle while tasks wait: the
  condition of `NothingStranded` and `Settles`;
- a time-out or an abort adds slots while the runner is being disposed; `dispose` ends
  them too, as `DisposeComplete` shows.

Host-service coordinator:

- the liveness timer does not compare its pid with the instance
  (`host-service-coordinator.ts:604`): the death of a service that was replaced
  removes the instance and the manifest of its replacement;
- a restart while a start is pending returns the connection of that start, and
  the service it spawns is untracked until the next start adopts it;
- a service of the same version that does not answer is killed by the pid in
  its manifest, unverified;
- `HOST_SERVICE_LIFECYCLE.md` says that a service removes its manifest on
  shutdown; the handler of SIGTERM does not.

## 7. What is not modelled

- Development mode, in which daemons are killed instead of adopted and die
  with their host-service, and services are children of Electron restarted by a
  watcher; and Windows, where the socket is a named pipe without a path to
  unlink.
- In `DaemonSupervisor` a daemon gives up on its successor and kills it in one
  step (`HandoffNak`). An acknowledgement that has arrived by then is ignored, as
  in the code (`Server.ts:521`); the successor that sent it, and what it may do
  until it is killed, is in `Handoff`, and so is the bind after one second.
- The second wait of `terminateProcessTreeAndGroups`, after SIGKILL, is taken
  to succeed.
- Manifests are written with a plain write; a death in the middle of it, and
  a manifest that cannot be parsed, are not modelled. `handoffInProgress` in
  that of the daemon is never read.
- Reuse of process ids by the operating system.
- In `DaemonSupervisor`, the second after which a successor binds without
  having seen its predecessor leave; `Handoff` has it (`BindEarly`).
- Log events, and the pair that stops `update-pending` from being logged twice.
- The second connection that two callers of `getDaemonClient` can make, both of
  which have looked at the cached client before either has set the promise
  (`daemon-client-singleton.ts:66-68`).
- Of a terminal session: titles, the scanner for a ready shell, the initial
  command and queued ones, viewers and their sizes, the tail ring and the
  tracker of terminal modes, a terminal id used under another workspace.
- Removal of snapshot files: nothing reads one twice.
- Components that `PROJECT.json` lists as not modelled. Most of the repository
  is user interface, requests to git, GitHub and a database that keep no state,
  and a chat runtime that is a library; section 8 has the plan for those with a
  protocol of their own.

## 8. Plan

In this order, the behaviour users depend on most first:

1. Proofs: what of the settled state survives a restart that meets no update,
   for `DaemonSupervisor`; an abstract specification of a pool that the runner
   implements.
2. `Framing`: the frame decoder as a function of the chunks it is given, the
   same frames whatever the chunking.
3. `EditorCoordinator`, `PortManager`, `GitWatcher`, `FsWatch`, `Panes`,
   `WorkspaceLifecycle`, the tabs store, in this order; the legacy terminal
   host last.
