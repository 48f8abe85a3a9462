-------------------------- MODULE DaemonSupervisor --------------------------
(***************************************************************************)
(* The supervisor that host-service keeps for one organization's           *)
(* pty-daemon (packages/host-service/src/daemon): it adopts or spawns the  *)
(* daemon, respawns it after a crash, restarts it for the user and hands   *)
(* its sessions over to a new binary.  The supervisor's maps are keyed by  *)
(* organization and never mixed, so one organization is modelled.          *)
(*                                                                         *)
(* JavaScript runs to completion between two awaits; every action is one   *)
(* such stretch of an async function, one event handler, or one step of a  *)
(* daemon process or of the operating system.  A process id is not used    *)
(* again.  The model is of the production mode, where a daemon is spawned  *)
(* detached and adopted by the next host-service, on a POSIX system, where *)
(* the socket is a path and a dead child a zombie until it is waited for.  *)
(***************************************************************************)
EXTENDS Naturals

CONSTANTS
    Pid,            \* process ids of daemons
    NoPid,          \* the absence of one
    User,           \* restart requests of the user, each made at most once
    CrashBudget,    \* CRASH_BUDGET
    AutoUpdate,     \* opts.autoUpdate
    MaxUpdates,     \* bound: updates the user asks for
    MaxFaults,      \* bound: daemons that crash or hang of themselves
    MaxHostCrashes  \* bound: deaths of host-service itself

ASSUME SupervisorAssumption ==
    /\ NoPid \notin Pid
    /\ User \cap Pid = {}
    /\ CrashBudget \in Nat
    /\ AutoUpdate \in BOOLEAN
    /\ MaxUpdates \in Nat
    /\ MaxFaults \in Nat
    /\ MaxHostCrashes \in Nat

VARIABLES
    \* the operating system and the daemons
    proc,      \* proc[p]: state of the process
    ver,       \* ver[p]: version it runs, against the bundled one
    parent,    \* parent[q]: the daemon that spawned q as its successor
    doomed,    \* processes that were sent SIGTERM
    sock,      \* the process whose listener the socket path leads to
    sess,      \* sess[p]: p holds live sessions
    child,     \* child[p]: the exit listeners of this host-service on p
    manifest,  \* pid in the manifest file
    \* fields of the supervisor
    instance,  \* instances: pid of the current daemon
    pending,   \* its updatePending
    timer,     \* adoptedLivenessTimers: pid that is polled
    stopping,
    crashes,   \* crashTimes: crashes in the window
    circuitOpen,
    boot,      \* bootstrapPromise
    \* async functions in progress
    start,     \* pendingStarts: start()
    upd,       \* updateInFlight: runUpdate()
    restart,   \* restart[r]: forceRestart() of a user or an auto-update
    auto,      \* auto[p]: runAutoUpdate() of the daemon adopted as p
    updates, faults, hostCrashes

osVars == <<proc, ver, parent, doomed, sock, sess>>
memVars == <<instance, pending, timer, stopping, crashes, circuitOpen>>
taskVars == <<boot, start, upd, restart, auto>>
bounds == <<updates, faults, hostCrashes>>
vars == <<osVars, child, manifest, memVars, taskVars, bounds>>

PidOrNone == Pid \cup {NoPid}
Caller == User \cup Pid

StartIdle == [pc |-> "idle", pid |-> NoPid]
UpdIdle == [pc |-> "idle", pid |-> NoPid, succ |-> NoPid, saved |-> NoPid,
            owner |-> NoPid]
RestartIdle == [pc |-> "idle", pid |-> NoPid]

ProcState == {"unused", "starting", "adopting", "up", "hung", "leaving", "dead"}
ChildState == {"none", "spawning", "watched", "reaped"}
StartState == {StartIdle} \cup
    [pc : {"connect", "probe", "kill", "spawn", "abort"}, pid : Pid]
UpdState == {UpdIdle} \cup
    [pc : {"request", "ack", "exit", "probe"}, pid : Pid, succ : PidOrNone,
     saved : PidOrNone, owner : PidOrNone]
RestartState == [pc : {"kill"}, pid : Pid] \cup
    [pc : {"idle", "wait", "go", "done"}, pid : {NoPid}]
AutoState == {"idle", "list", "update", "updating", "relist", "restart"}

TypeOK ==
    /\ proc \in [Pid -> ProcState]
    /\ ver \in [Pid -> {"old", "new"}]
    /\ parent \in [Pid -> PidOrNone]
    /\ doomed \in SUBSET Pid
    /\ sock \in PidOrNone
    /\ sess \in [Pid -> BOOLEAN]
    /\ child \in [Pid -> ChildState]
    /\ manifest \in PidOrNone
    /\ instance \in PidOrNone
    /\ pending \in BOOLEAN
    /\ timer \in PidOrNone
    /\ stopping \in BOOLEAN
    /\ crashes \in Nat
    /\ circuitOpen \in BOOLEAN
    /\ boot \in {"none", "pending", "ok"}
    /\ start \in StartState
    /\ upd \in UpdState
    /\ restart \in [Caller -> RestartState]
    /\ auto \in [Pid -> AutoState]
    /\ updates \in Nat
    /\ faults \in Nat
    /\ hostCrashes \in Nat

\* A host-service starts with or without a daemon left by an earlier one.
Init ==
    /\ \E old \in PidOrNone, v \in {"old", "new"}, s \in BOOLEAN :
         /\ proc = [p \in Pid |-> IF p = old THEN "up" ELSE "unused"]
         /\ ver = [p \in Pid |-> IF p = old THEN v ELSE "new"]
         /\ sess = [p \in Pid |-> p = old /\ s]
         /\ sock = old
         /\ manifest = old
    /\ parent = [p \in Pid |-> NoPid]
    /\ doomed = {}
    /\ child = [p \in Pid |-> "none"]
    /\ instance = NoPid /\ pending = FALSE /\ timer = NoPid
    /\ stopping = FALSE /\ crashes = 0 /\ circuitOpen = FALSE
    /\ boot = "none"
    /\ start = StartIdle /\ upd = UpdIdle
    /\ restart = [r \in Caller |-> RestartIdle]
    /\ auto = [p \in Pid |-> "idle"]
    /\ updates = 0 /\ faults = 0 /\ hostCrashes = 0
-----------------------------------------------------------------------------
(***************************************************************************)
(* The operating system.                                                   *)
(***************************************************************************)
Alive(p) == proc[p] \notin {"unused", "dead"}

\* connect() to the socket path succeeds, even when the listener hangs.
Connectable == sock # NoPid /\ proc[sock] \in {"up", "hung"}
\* A connection is answered.
Reachable == sock # NoPid /\ proc[sock] = "up"

\* mutant: a process that was signalled counts as gone
GoneOnceSignalled(p) == p \in doomed \/ proc[p] = "dead"
\* kill(pid, 0) reports ESRCH: a child is a zombie until its exit event.
Gone(p) == proc[p] = "dead" /\ child[p] \notin {"spawning", "watched"}

\* The processes signalProcessTreeAndGroups reaches: a successor stays in
\* the tree of its predecessor while that lives.
Tree(p) == {p} \cup {q \in Pid : parent[q] = p /\ proc[q] = "adopting"}
Signalled(p) == IF Alive(p) THEN doomed \cup Tree(p) ELSE doomed

\* The processes of D die; one that closes its server unlinks the socket
\* path, whoever has bound it since.
Die(D, graceful) ==
    /\ proc' = [p \in Pid |-> IF p \in D THEN "dead" ELSE proc[p]]
    /\ sock' = IF graceful THEN NoPid ELSE sock
    /\ sess' = [p \in Pid |-> p \notin D /\ sess[p]]
-----------------------------------------------------------------------------
(***************************************************************************)
(* ensure() and start() up to its first await.                             *)
(***************************************************************************)
\* The end of start(): those who await it go on.
StartDone(ok) ==
    /\ start' = StartIdle
    /\ boot' = IF boot # "pending" THEN boot ELSE IF ok THEN "ok" ELSE "none"
    /\ restart' = [r \in Caller |-> IF restart[r].pc = "wait"
                                    THEN [restart[r] EXCEPT !.pc = "go"]
                                    ELSE restart[r]]

\* spawn() up to waitForSocket, the listeners on other children being c.
Launch(c) ==
    \E p \in Pid :
       /\ proc[p] = "unused"
       /\ proc' = [proc EXCEPT ![p] = "starting"]
       /\ child' = [c EXCEPT ![p] = "spawning"]
       /\ start' = [pc |-> "spawn", pid |-> p]

\* spawn() throws: no script, or no process.
LaunchFails(c) == child' = c /\ UNCHANGED <<proc, start>>

\* ensure(), when the manifest holds m and the listeners are c: refuse,
\* return the instance, join the start in progress, or start one.
Adoptable(m) == IF m = NoPid THEN FALSE ELSE ~Gone(m)
Refused(open, inst) == open \/ inst # NoPid \/ start.pc # "idle"
Ensure(m, c, open, inst) ==
    \/ /\ Refused(open, inst)
       /\ manifest' = m /\ child' = c
       /\ UNCHANGED <<proc, start>>
    \/ /\ ~Refused(open, inst)
       /\ Adoptable(m)
       /\ start' = [pc |-> "connect", pid |-> m]
       /\ manifest' = m /\ child' = c
       /\ UNCHANGED proc
    \/ /\ ~Refused(open, inst)
       /\ ~Adoptable(m)
       /\ manifest' = NoPid
       /\ Launch(c) \/ LaunchFails(c)

\* startDaemonBootstrap, by the boot sequence or by a request that finds no
\* promise.  A promise is kept for good unless it is rejected.
Bootstrap ==
    /\ boot = "none"
    /\ Ensure(manifest, child, circuitOpen, instance)
    /\ boot' = IF circuitOpen THEN "none"
               ELSE IF instance # NoPid THEN "ok"
               ELSE IF start'.pc = "idle" THEN "none" ELSE "pending"
    /\ UNCHANGED <<ver, parent, doomed, sock, sess, memVars, upd, restart,
                   auto, bounds>>
-----------------------------------------------------------------------------
(***************************************************************************)
(* start(): tryAdopt and spawn.                                            *)
(***************************************************************************)
\* mutant: start() goes on to a step it does not have
AdoptRejectMisnamed ==
    /\ doomed' = Signalled(start.pid)
    /\ start' = [start EXCEPT !.pc = "killed"]
\* The daemon is not adopted: it is told to end, and start() waits for it.
AdoptReject ==
    /\ doomed' = Signalled(start.pid)
    /\ start' = [start EXCEPT !.pc = "kill"]

\* isSocketConnectable
AdoptConnect ==
    /\ start.pc = "connect"
    /\ \/ /\ Connectable
          /\ start' = [start EXCEPT !.pc = "probe"]
          /\ UNCHANGED doomed
       \/ ~Connectable /\ AdoptReject
    /\ UNCHANGED <<proc, ver, parent, sock, sess, child, manifest, memVars,
                   boot, upd, restart, auto, bounds>>

\* probeDaemonVersionWithRetry: the daemon becomes the instance, is polled
\* for liveness and, when stale, updated in the background.
Adopt ==
    /\ start.pc = "probe" /\ Reachable
    /\ StartDone(TRUE)
    /\ instance' = start.pid
    /\ pending' = (ver[sock] = "old")
    /\ timer' = start.pid
    /\ auto' = [auto EXCEPT ![start.pid] =
                  IF AutoUpdate /\ ver[sock] = "old" /\ @ = "idle"
                  THEN "list" ELSE @]
    /\ UNCHANGED <<osVars, child, manifest, stopping, crashes, circuitOpen,
                   upd, bounds>>

\* No answer to the probe.
AdoptProbeFails ==
    /\ start.pc = "probe" /\ ~Reachable
    /\ AdoptReject
    /\ UNCHANGED <<proc, ver, parent, sock, sess, child, manifest, memVars,
                   boot, upd, restart, auto, bounds>>

\* The rejected daemon is gone: forget it and spawn.
AdoptKilled ==
    /\ start.pc = "kill" /\ Gone(start.pid)
    /\ manifest' = NoPid
    /\ \/ Launch(child) /\ UNCHANGED <<boot, restart>>
       \/ StartDone(FALSE) /\ UNCHANGED <<proc, child>>
    /\ UNCHANGED <<ver, parent, doomed, sock, sess, memVars, upd, auto,
                   bounds>>

\* mutant: no exit handler
WatchedNot == child
Watched == [child EXCEPT ![start.pid] = IF @ = "spawning" THEN "watched"
                                                          ELSE @]

\* waitForSocket succeeds, whoever answers.  The exit of the child is
\* handled from here on: one that came before was only noted.
SpawnReady ==
    /\ start.pc = "spawn" /\ Connectable
    /\ child' = Watched
    /\ manifest' = start.pid
    /\ instance' = start.pid
    /\ pending' = FALSE
    /\ StartDone(TRUE)
    /\ UNCHANGED <<osVars, timer, stopping, crashes, circuitOpen, upd, auto,
                   bounds>>

\* waitForSocket times out: end the child, then throw.
SpawnTimeout ==
    /\ start.pc = "spawn" /\ ~Connectable
    /\ doomed' = Signalled(start.pid)
    /\ start' = [start EXCEPT !.pc = "abort"]
    /\ UNCHANGED <<proc, ver, parent, sock, sess, child, manifest, memVars,
                   boot, upd, restart, auto, bounds>>

SpawnAborted ==
    /\ start.pc = "abort" /\ Gone(start.pid)
    /\ StartDone(FALSE)
    /\ UNCHANGED <<osVars, child, manifest, memVars, upd, auto, bounds>>
-----------------------------------------------------------------------------
(***************************************************************************)
(* Deaths of the daemon: the exit handler of a child and the poll of an    *)
(* adopted daemon.                                                         *)
(***************************************************************************)
Reaped(p) == [child EXCEPT ![p] = "reaped"]

\* The exit of a child that is not the instance, or has no handler yet.
ExitIgnored(p) ==
    /\ proc[p] = "dead" /\ child[p] \in {"spawning", "watched"}
    /\ child[p] = "spawning" \/ instance # p
    /\ child' = Reaped(p)
    /\ UNCHANGED <<osVars, manifest, memVars, taskVars, bounds>>

InstanceExits(p) ==
    /\ proc[p] = "dead" /\ child[p] = "watched" /\ instance = p
    /\ instance' = NoPid

\* The exit was asked for.
ExitExpected(p) ==
    /\ InstanceExits(p)
    /\ stopping
    /\ stopping' = FALSE
    /\ manifest' = NoPid /\ child' = Reaped(p)
    /\ UNCHANGED <<osVars, pending, timer, crashes, circuitOpen, taskVars,
                   bounds>>

\* mutant: one crash more than the budget
OverBudgetLate(n) == n > CrashBudget + 1
OverBudget(n) == n > CrashBudget

\* mutant: the handler does not return when the circuit is to open, and opens
\* it last
ExitCrashRespawns(p, n) ==
    /\ InstanceExits(p)
    /\ ~stopping
    /\ crashes' = n
    /\ Ensure(NoPid, Reaped(p), circuitOpen, NoPid)
    /\ circuitOpen' = (circuitOpen \/ OverBudget(n))
    /\ UNCHANGED <<ver, parent, doomed, sock, sess, pending, timer, stopping,
                   boot, upd, restart, auto, bounds>>
\* A crash: earlier ones may have left the window.
ExitCrash(p, n) ==
    /\ InstanceExits(p)
    /\ ~stopping
    /\ crashes' = n
    /\ \/ /\ OverBudget(n)
          /\ circuitOpen' = TRUE
          /\ manifest' = NoPid /\ child' = Reaped(p)
          /\ UNCHANGED <<proc, start>>
       \/ /\ ~OverBudget(n)
          /\ UNCHANGED circuitOpen
          /\ Ensure(NoPid, Reaped(p), circuitOpen, NoPid)
    /\ UNCHANGED <<ver, parent, doomed, sock, sess, pending, timer, stopping,
                   boot, upd, restart, auto, bounds>>

\* The poll finds the adopted daemon dead; the next ensure() spawns.
LivenessPoll(p) ==
    /\ timer = p /\ Gone(p)
    /\ timer' = NoPid
    /\ IF instance = p THEN instance' = NoPid /\ manifest' = NoPid
                       ELSE UNCHANGED <<instance, manifest>>
    /\ UNCHANGED <<osVars, child, pending, stopping, crashes, circuitOpen,
                   taskVars, bounds>>
-----------------------------------------------------------------------------
(***************************************************************************)
(* forceRestart(): by a user, or by an auto-update that failed (its caller *)
(* is then the daemon it was for).                                         *)
(***************************************************************************)
Busy(r) == restart[r].pc \in {"wait", "go", "kill"}

\* A finished request of a user is not made again; an auto-update may be.
Ended(r) == [pc |-> IF r \in User THEN "done" ELSE "idle", pid |-> NoPid]

\* clearCrashCircuit and ensure().
RestartEnsure(r, m) ==
    /\ restart' = [restart EXCEPT ![r] = Ended(r)]
    /\ circuitOpen' = FALSE /\ crashes' = 0
    /\ Ensure(m, child, FALSE, instance)

\* mutant: stop() leaves the instance in the map
ForgetNot == timer' = NoPid /\ UNCHANGED instance
Forget == timer' = NoPid /\ instance' = NoPid

\* stop(), and what follows at once when there is nothing to stop.
StopNow(r) ==
    \/ /\ instance = NoPid
       /\ Forget
       /\ RestartEnsure(r, manifest)
       /\ UNCHANGED <<stopping, doomed>>
    \/ /\ instance # NoPid
       /\ Forget
       /\ stopping' = TRUE
       /\ doomed' = Signalled(instance)
       /\ restart' = [restart EXCEPT ![r] = [pc |-> "kill", pid |-> instance]]
       /\ UNCHANGED <<proc, child, manifest, crashes, circuitOpen, start>>

RestartBegin(r) ==
    /\ IF r \in User THEN boot = "ok" /\ restart[r].pc = "idle" /\ UNCHANGED auto
                     ELSE /\ auto[r] = "restart" /\ ~Busy(r)
                          /\ auto' = [auto EXCEPT ![r] = "idle"]
    /\ IF start.pc # "idle"
         THEN /\ restart' = [restart EXCEPT ![r] = [pc |-> "wait", pid |-> NoPid]]
              /\ UNCHANGED <<proc, doomed, child, manifest, memVars, start>>
         ELSE StopNow(r) /\ UNCHANGED pending
    /\ UNCHANGED <<ver, parent, sock, sess, boot, upd, bounds>>

\* The start it awaited has settled.
RestartGo(r) ==
    /\ restart[r].pc = "go"
    /\ StopNow(r)
    /\ UNCHANGED <<ver, parent, sock, sess, pending, boot, upd, auto, bounds>>

\* terminateProcessTreeAndGroups has seen the process go.
RestartKilled(r) ==
    /\ restart[r].pc = "kill" /\ Gone(restart[r].pid)
    /\ RestartEnsure(r, NoPid)
    /\ UNCHANGED <<ver, parent, doomed, sock, sess, instance, pending, timer,
                   stopping, boot, upd, auto, bounds>>

\* mutant: a restart does not escalate to SIGKILL
AwaitedByStart ==
    {p \in Pid : start.pc \in {"kill", "abort"} /\ start.pid = p}
\* The processes someone waits for to end after SIGTERM.
Awaited ==
    {p \in Pid : \/ start.pc \in {"kill", "abort"} /\ start.pid = p
                 \/ \E r \in Caller : restart[r] = [pc |-> "kill", pid |-> p]}

\* SIGKILL after DAEMON_TERMINATE_TIMEOUT_MS.
Escalate(p) ==
    /\ p \in Awaited /\ Alive(p)
    /\ Die(Tree(p), FALSE)
    /\ UNCHANGED <<ver, parent, doomed, child, manifest, memVars, taskVars,
                   bounds>>
-----------------------------------------------------------------------------
(***************************************************************************)
(* runUpdate(), started by a user or by the auto-update of daemon owner.   *)
(***************************************************************************)
\* runAutoUpdate goes on when its own update has failed:
\* forceRestartAfterAutoUpdateFailure looks at the sessions again unless the
\* daemon is no longer current or no longer stale.
UpdateEnds(failed) ==
    /\ upd' = UpdIdle
    /\ auto' = [p \in Pid |->
                  IF p # upd.owner \/ auto[p] # "updating" THEN auto[p]
                  ELSE IF failed /\ instance = p /\ pending THEN "relist"
                  ELSE "idle"]

\* The owner is NoPid for a user.
UpdateBegin(owner) ==
    /\ upd.pc = "idle" /\ instance # NoPid
    /\ stopping' = TRUE
    /\ timer' = NoPid
    /\ upd' = [pc |-> "request", pid |-> instance, succ |-> NoPid,
               saved |-> manifest, owner |-> owner]
    /\ UNCHANGED <<osVars, child, manifest, instance, pending, crashes,
                   circuitOpen, boot, start, restart, faults, hostCrashes>>

UserUpdate ==
    /\ boot = "ok" /\ updates < MaxUpdates
    /\ updates' = updates + 1
    /\ UpdateBegin(NoPid)
    /\ UNCHANGED auto

\* mutant: the exit of the daemon goes on to be expected
RestoreStopping ==
    /\ UpdateEnds(TRUE)
    /\ manifest' = IF upd.saved # NoPid THEN upd.saved ELSE manifest
    /\ timer' = upd.pid
    /\ UNCHANGED <<instance, pending, stopping, crashes, circuitOpen>>
\* mutant: the poll is not armed again
RestoreUnpolled ==
    /\ UpdateEnds(TRUE)
    /\ stopping' = FALSE
    /\ manifest' = IF upd.saved # NoPid THEN upd.saved ELSE manifest
    /\ UNCHANGED <<instance, pending, timer, crashes, circuitOpen>>
\* restoreOnFailure
RestoreOnFailure ==
    /\ UpdateEnds(TRUE)
    /\ stopping' = FALSE
    /\ manifest' = IF upd.saved # NoPid THEN upd.saved ELSE manifest
    /\ timer' = upd.pid
    /\ UNCHANGED <<instance, pending, crashes, circuitOpen>>

\* The daemon spawns its successor and hands it the live sessions.
HandoffSpawn(q) ==
    /\ upd.pc = "request" /\ Reachable
    /\ proc[q] = "unused"
    /\ proc' = [proc EXCEPT ![q] = "adopting"]
    /\ parent' = [parent EXCEPT ![q] = sock]
    /\ sess' = [sess EXCEPT ![q] = sess[sock]]
    /\ upd' = [upd EXCEPT !.pc = "ack", !.succ = q]
    /\ UNCHANGED <<ver, doomed, sock, child, manifest, memVars, boot, start,
                   restart, auto, bounds>>

\* connect() or the request fails, or the daemon refuses (no snapshot, no
\* process).
HandoffRefused ==
    /\ upd.pc = "request"
    /\ RestoreOnFailure
    /\ UNCHANGED <<osVars, child, boot, start, restart, bounds>>

\* upgrade-ack: the daemon answers, whoever still listens, and leaves.
HandoffAck(q) ==
    /\ proc[q] = "adopting" /\ proc[parent[q]] = "up"
    /\ proc' = [proc EXCEPT ![parent[q]] = "leaving"]
    /\ upd' = IF upd.pc = "ack" /\ upd.succ = q
                THEN [upd EXCEPT !.pc = "exit"] ELSE upd
    /\ UNCHANGED <<ver, parent, doomed, sock, sess, child, manifest, memVars,
                   boot, start, restart, auto, bounds>>

\* upgrade-nak, exit of the successor, or HANDOFF_ACK_TIMEOUT_MS.
HandoffNak(q) ==
    /\ parent[q] # NoPid /\ proc[parent[q]] = "up"
    /\ \/ proc[q] = "adopting"
       \/ upd.pc = "ack" /\ upd.succ = q /\ proc[q] = "dead"
    /\ Die({q}, FALSE)
    /\ IF upd.pc = "ack" /\ upd.succ = q
         THEN RestoreOnFailure
         ELSE UNCHANGED <<manifest, memVars, upd, auto>>
    /\ UNCHANGED <<ver, parent, doomed, child, boot, start, restart, bounds>>

\* The daemon died over the request, or hangs.
HandoffLost ==
    /\ upd.pc = "ack" /\ proc[parent[upd.succ]] \in {"dead", "hung"}
    /\ RestoreOnFailure
    /\ UNCHANGED <<osVars, child, boot, start, restart, bounds>>

\* HANDOFF_PREDECESSOR_EXIT_TIMEOUT_MS: SIGKILL to the predecessor alone.
UpdateEscalate ==
    /\ upd.pc = "exit" /\ Alive(upd.pid)
    /\ Die({upd.pid}, FALSE)
    /\ UNCHANGED <<ver, parent, doomed, child, manifest, memVars, taskVars,
                   bounds>>

UpdateExited ==
    /\ upd.pc = "exit" /\ Gone(upd.pid)
    /\ upd' = [upd EXCEPT !.pc = "probe"]
    /\ UNCHANGED <<osVars, child, manifest, memVars, boot, start, restart,
                   auto, bounds>>

\* mutant: the manifest of before the update is written back
SuccessorManifestOld == upd.saved
SuccessorManifest == IF upd.saved # NoPid THEN upd.succ ELSE manifest

\* The successor becomes the instance, even when the probe gets no answer:
\* its version is then unknown and it is not pending.
UpdateProbe ==
    /\ upd.pc = "probe"
    /\ instance' = upd.succ
    /\ pending' = (Reachable /\ ver[sock] = "old")
    /\ stopping' = FALSE
    /\ timer' = upd.succ
    /\ manifest' = SuccessorManifest
    /\ UpdateEnds(FALSE)
    /\ UNCHANGED <<osVars, child, crashes, circuitOpen, boot, start, restart,
                   bounds>>

\* runAutoUpdate up to startUpdate: another update in flight is awaited and
\* its failure left to the user.
RunAutoUpdate(p) ==
    /\ auto[p] = "update"
    /\ \/ /\ UpdateBegin(p)
          /\ auto' = [auto EXCEPT ![p] = "updating"]
          /\ UNCHANGED updates
       \/ /\ upd.pc # "idle" \/ instance = NoPid
          /\ auto' = [auto EXCEPT ![p] = "idle"]
          /\ UNCHANGED <<osVars, child, manifest, memVars, boot, start, upd,
                         restart, bounds>>

\* The daemon answers the session list: go on when it has none alive.
AutoList(p) ==
    /\ auto[p] \in {"list", "relist"}
    /\ auto' = [auto EXCEPT ![p] =
                  IF instance = NoPid \/ ~Reachable \/ sess[sock] THEN "idle"
                  ELSE IF @ = "list" THEN "update" ELSE "restart"]
    /\ UNCHANGED <<osVars, child, manifest, memVars, boot, start, upd,
                   restart, bounds>>
-----------------------------------------------------------------------------
(***************************************************************************)
(* The daemons, the clients and the faults.                                *)
(***************************************************************************)
hostVars == <<child, manifest, memVars, taskVars>>

\* A spawned daemon unlinks what the path leads to and binds it.
Bind(p) ==
    /\ proc[p] = "starting"
    /\ proc' = [proc EXCEPT ![p] = "up"]
    /\ sock' = p
    /\ UNCHANGED <<ver, parent, doomed, sess, hostVars, bounds>>

\* mutant: the successor binds as soon as it has answered
BindSuccessorEarly(q) ==
    /\ proc[q] = "adopting" /\ proc[parent[q]] \in {"leaving", "dead"}
    /\ proc' = [proc EXCEPT ![q] = "up"]
    /\ sock' = q
    /\ UNCHANGED <<ver, parent, doomed, sess, hostVars, bounds>>
\* A successor waits for its predecessor to be gone.
BindSuccessor(q) ==
    /\ proc[q] = "adopting" /\ proc[parent[q]] = "dead"
    /\ proc' = [proc EXCEPT ![q] = "up"]
    /\ sock' = q
    /\ UNCHANGED <<ver, parent, doomed, sess, hostVars, bounds>>

\* finalizeHandoff: close the server, leave the sessions, exit.
Leave(p) ==
    /\ proc[p] = "leaving"
    /\ Die({p}, TRUE)
    /\ UNCHANGED <<ver, parent, doomed, hostVars, bounds>>

\* SIGTERM: a listening daemon closes its server, any other just dies.
Terminated(p) ==
    /\ p \in doomed /\ Alive(p) /\ proc[p] # "hung"
    /\ Die({p}, proc[p] \in {"up", "leaving"})
    /\ UNCHANGED <<ver, parent, doomed, hostVars, bounds>>

\* Clients open sessions on the daemon the path leads to, and close them.
ClientSessions ==
    /\ instance # NoPid /\ Reachable
    /\ sess' = [sess EXCEPT ![sock] = ~@]
    /\ UNCHANGED <<proc, ver, parent, doomed, sock, hostVars, bounds>>

Fault == faults < MaxFaults /\ faults' = faults + 1

Crash(p) ==
    /\ Fault /\ Alive(p)
    /\ Die({p}, FALSE)
    /\ UNCHANGED <<ver, parent, doomed, hostVars, updates, hostCrashes>>

Hang(p) ==
    /\ Fault /\ proc[p] = "up"
    /\ proc' = [proc EXCEPT ![p] = "hung"]
    /\ UNCHANGED <<ver, parent, doomed, sock, sess, hostVars, updates, hostCrashes>>

Resume(p) ==
    /\ proc[p] = "hung"
    /\ proc' = [proc EXCEPT ![p] = "up"]
    /\ UNCHANGED <<ver, parent, doomed, sock, sess, hostVars, bounds>>

\* host-service dies and another starts: memory is lost, the manifest, the
\* daemons and the signals sent stay.
HostCrash ==
    /\ hostCrashes < MaxHostCrashes
    /\ hostCrashes' = hostCrashes + 1
    /\ child' = [p \in Pid |-> "none"]
    /\ instance' = NoPid /\ pending' = FALSE /\ timer' = NoPid
    /\ stopping' = FALSE /\ crashes' = 0 /\ circuitOpen' = FALSE
    /\ boot' = "none"
    /\ start' = StartIdle /\ upd' = UpdIdle
    /\ restart' = [r \in Caller |-> IF Busy(r) THEN Ended(r) ELSE restart[r]]
    /\ auto' = [p \in Pid |-> "idle"]
    /\ UNCHANGED <<osVars, manifest, updates, faults>>
-----------------------------------------------------------------------------
StartNext ==
    \/ Bootstrap
    \/ AdoptConnect \/ Adopt \/ AdoptProbeFails \/ AdoptKilled
    \/ SpawnReady \/ SpawnTimeout \/ SpawnAborted

DeathNext(p) ==
    \/ ExitIgnored(p)
    \/ ExitExpected(p)
    \/ \E n \in 1..(crashes + 1) : ExitCrash(p, n)
    \/ LivenessPoll(p)

RestartNext(r) == RestartBegin(r) \/ RestartGo(r) \/ RestartKilled(r)

UpdateNext ==
    \/ HandoffRefused \/ HandoffLost
    \/ UpdateEscalate \/ UpdateExited \/ UpdateProbe

PidNext(p) ==
    \/ HandoffSpawn(p) \/ HandoffAck(p) \/ HandoffNak(p)
    \/ RunAutoUpdate(p) \/ AutoList(p)
    \/ Escalate(p)
    \/ Bind(p) \/ BindSuccessor(p) \/ Leave(p) \/ Terminated(p)

FaultNext ==
    \/ \E p \in Pid : Crash(p) \/ Hang(p) \/ Resume(p)
    \/ HostCrash

Next ==
    \/ StartNext
    \/ \E p \in Pid : DeathNext(p)
    \/ \E r \in Caller : RestartNext(r)
    \/ UserUpdate
    \/ UpdateNext
    \/ \E p \in Pid : PidNext(p)
    \/ ClientSessions
    \/ FaultNext

Spec == Init /\ [][Next]_vars

\* Promises settle, timers fire and exits are reported; requests that find
\* no bootstrap promise keep coming; the kernel and the daemons go on unless
\* a fault stops them.  Users, clients, faults and spawns that fail are free.
HostFairness ==
    /\ WF_vars(StartNext)
    /\ WF_vars(UpdateNext)
    /\ \A r \in Caller : WF_vars(RestartGo(r)) /\ WF_vars(RestartKilled(r))
    /\ \A p \in Pid :
         /\ WF_vars(DeathNext(p))
         /\ WF_vars(Escalate(p))
         /\ WF_vars(RestartBegin(p))
         /\ WF_vars(RunAutoUpdate(p))
         /\ WF_vars(AutoList(p))
DaemonFairness ==
    \A p \in Pid :
       /\ WF_vars(Bind(p))
       /\ WF_vars(BindSuccessor(p))
       /\ WF_vars(HandoffAck(p) \/ HandoffNak(p))
       /\ WF_vars(Leave(p))
       /\ WF_vars(Terminated(p))
FairSpec == Spec /\ HostFairness /\ DaemonFairness
-----------------------------------------------------------------------------
(***************************************************************************)
(* Properties.                                                             *)
(***************************************************************************)
\* The circuit breaker has tripped whenever the window holds more crashes
\* than the budget, whatever restarts and handoffs run beside the crashes.
BreakerTrips == crashes > CrashBudget => circuitOpen

\* While the circuit is open, no daemon is coming up or being adopted, and
\* none that was spawned is in use: only a restart brings one back, and it
\* closes the circuit.
OpenCircuitIdle ==
    circuitOpen => /\ start.pc = "idle"
                   /\ instance # NoPid => child[instance] = "none"

\* A child that has not come up yet is signalled by its own start only: a
\* restart waits for it, and no record names it before it is ready.
StartingChildSpared ==
    [][\A p \in doomed' \ doomed :
         child[p] = "spawning" => start.pc = "spawn" /\ start.pid = p]_vars

\* No start, handoff or restart is in progress.
Settled ==
    /\ boot = "ok" /\ start.pc = "idle" /\ upd.pc = "idle"
    /\ \A r \in Caller : ~Busy(r)
    /\ \A p \in Pid : proc[p] \notin {"leaving", "adopting"}

\* The next host-service will find the daemon this one uses.
ManifestNamesInstance == Settled /\ instance # NoPid => manifest = instance

\* As long as no handoff moves the path to another daemon, clients that
\* follow it reach the daemon that is supervised.
SocketIsInstances ==
    Settled /\ instance # NoPid /\ (\A q \in Pid : parent[q] = NoPid) =>
       (proc[instance] = "up" /\ instance \notin doomed => sock = instance)

\* As long as no daemon fails, none lives on with sessions that no client
\* can reach.
SessionsReachable ==
    Settled /\ faults = 0 =>
       \A p \in Pid \ doomed : Alive(p) /\ sess[p] => sock = p

\* Nor does a successor that was handed sessions.
SuccessorReachable ==
    Settled => \A q \in Pid \ doomed :
                  parent[q] # NoPid /\ Alive(q) /\ sess[q] => sock = q

\* One failure, of a daemon or of host-service, is never enough for the death
\* of the current daemon to go unnoticed: it is polled, or has an exit handler,
\* or is being replaced.
InstanceWatched ==
    instance # NoPid /\ faults + hostCrashes <= 1 =>
       timer = instance \/ child[instance] = "watched" \/ upd.pc # "idle"

\* An exit of the current child that nobody asked for counts as a crash.
CrashCounted ==
    [][\A p \in Pid :
         /\ instance = p /\ child[p] = "watched" /\ child'[p] = "reaped"
         /\ p \notin doomed /\ upd.pc = "idle"
         => crashes' >= 1]_vars

\* A restart does not end with the daemon it was to end.
RestartFresh ==
    [][\A r \in Caller :
         restart[r].pc = "kill" /\ restart'[r].pc # "kill" /\ boot' # "none"
           => instance # restart[r].pid]_vars

\* The supervisor does not hold on to a dead daemon.
StaleInstanceCleared ==
    \A p \in Pid : (instance = p /\ proc[p] = "dead") ~> (instance # p)

\* A restart comes to an end, even of a daemon that hangs.
RestartEnds == \A r \in Caller : Busy(r) ~> ~Busy(r)
=============================================================================
