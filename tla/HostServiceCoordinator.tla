---------------------- MODULE HostServiceCoordinator ----------------------
(***************************************************************************)
(* The coordinator of host-service processes in the Electron main process  *)
(* (HostServiceCoordinator), for one organization: it adopts the service   *)
(* that the manifest names or spawns one, watches it, stops, restarts and  *)
(* resets it, and lets go of it when the application quits.                *)
(*                                                                         *)
(* A service is detached: it outlives Electron, which finds it again       *)
(* through the manifest that the service writes when it listens.  Start is *)
(* single-flight, with an await at every `phase'; the answer of a health   *)
(* check is delivered after it was given, so that it may be stale.  Pids   *)
(* are not used again, and an answer on the recorded port, which needs the *)
(* secret, is from the service that was recorded.                          *)
(***************************************************************************)
EXTENDS Naturals, FiniteSets

CONSTANTS
    Proc,        \* pids of host-service processes
    NoProc,
    MaxVersion,  \* bound: application versions
    MaxQuits,    \* bound: times that Electron ends
    MaxFaults    \* bound: services that crash or stall

ASSUME CoordinatorAssumption ==
    /\ NoProc \notin Proc
    /\ MaxVersion \in Nat \ {0}
    /\ MaxQuits \in Nat
    /\ MaxFaults \in Nat

VARIABLES
    proc,        \* proc[p]: the process
    signalled,   \* processes that have SIGTERM to handle
    version,     \* version[p]: spawnedByAppVersion
    manifest,    \* the pid in manifest.json
    electron,    \* "up", "quitting" (teardown), "closing" or "down"
    appVersion,
    instance,    \* the entry of instances, with pid NoProc before the spawn
    phase,       \* where start, or discoverAll, waits
    check,       \* check[c]: a health check and its answer
    timer,       \* the pid of the adopted liveness check
    children,    \* processes whose exit event this Electron will get
    strays,      \* history: services that were let go of
    quits, faults

services == <<proc, signalled, version>>
tracked == <<instance, timer>>
bounds == <<quits, faults>>
vars == <<services, manifest, electron, appVersion, tracked, phase, check,
          children, strays, bounds>>

Pid == Proc \cup {NoProc}
NoInstance == [pid |-> NoProc, status |-> "stopped"]
NoCheck == [pid |-> NoProc, answer |-> "none"]
Running(p) == [pid |-> p, status |-> "running"]
Starting(p) == [pid |-> p, status |-> "starting"]
Awaited(p) == [pid |-> p, answer |-> "none"]

TypeOK ==
    /\ proc \in [Proc -> {"unused", "boot", "up", "wedged", "dead"}]
    /\ signalled \subseteq Proc
    /\ version \in [Proc -> 0..MaxVersion]
    /\ manifest \in Pid
    /\ electron \in {"up", "quitting", "closing", "down"}
    /\ appVersion \in 1..MaxVersion
    /\ instance \in [pid : Pid, status : {"starting", "running", "stopped"}]
    /\ phase \in {"idle", "discover", "verify", "port", "env", "health"}
    /\ check \in [{"start", "quit"} -> [pid : Pid, answer : {"none", "ok", "bad"}]]
    /\ timer \in Pid
    /\ children \subseteq Proc
    /\ strays \subseteq Proc
    /\ quits \in 0..MaxQuits
    /\ faults \in 0..MaxFaults

Init ==
    /\ proc = [p \in Proc |-> "unused"]
    /\ signalled = {}
    /\ version = [p \in Proc |-> 0]
    /\ manifest = NoProc
    /\ electron = "up"
    /\ appVersion = 1
    /\ instance = NoInstance
    /\ phase = "idle"
    /\ check = [c \in {"start", "quit"} |-> NoCheck]
    /\ timer = NoProc
    /\ children = {}
    /\ strays = {}
    /\ quits = 0
    /\ faults = 0

Alive == {p \in Proc : proc[p] \in {"boot", "up", "wedged"}}
Listening == {p \in Proc : proc[p] \in {"up", "wedged"}}
Unsignalled == Alive \ signalled

\* SIGTERM: one that boots has no handler yet and dies, the others get it
\* when their event loop runs.  SIGKILL ends a process at once.
Sigterm(S) ==
    /\ proc' = [p \in Proc |-> IF p \in S /\ proc[p] = "boot" THEN "dead" ELSE proc[p]]
    /\ signalled' = signalled \cup (S \cap Listening)
Sigkill(S) ==
    /\ proc' = [p \in Proc |-> IF p \in S \cap Alive THEN "dead" ELSE proc[p]]
    /\ signalled' = signalled \ S
-----------------------------------------------------------------------------
(***************************************************************************)
(* start.                                                                  *)
(***************************************************************************)
\* The windows and the tray, which call the coordinator, come after
\* discoverAll and stay until Electron is gone.
Ready == electron # "down" /\ phase # "discover"

\* What start does up to its first await, given the instance, the manifest
\* and the processes as the caller leaves them.  readAndValidateManifest
\* removes a manifest of a dead process.
Begin(i, m) ==
    LET valid == m # NoProc /\ proc'[m] \in {"boot", "up", "wedged"}
    IN  IF i.status = "running" \/ phase # "idle"
        THEN manifest' = m /\ UNCHANGED <<phase, check>>
        ELSE /\ manifest' = IF valid THEN m ELSE NoProc
             /\ phase' = IF valid THEN "verify" ELSE "port"
             /\ check' = IF valid THEN [check EXCEPT !["start"] = Awaited(m)] ELSE check

Start ==
    /\ Ready /\ instance.status # "running" /\ phase = "idle"
    /\ UNCHANGED <<services, tracked>>
    /\ Begin(instance, manifest)
    /\ UNCHANGED <<electron, appVersion, children, strays, bounds>>

\* pollHealthCheck: a service that serves answers; at the deadline it has
\* not, the last time it was asked.
Answer(c) ==
    /\ electron # "down"
    /\ check[c].pid # NoProc /\ check[c].answer = "none"
    /\ check' = [check EXCEPT ![c].answer =
                   IF proc[check[c].pid] = "up" THEN "ok" ELSE "bad"]
    /\ UNCHANGED <<services, manifest, electron, appVersion, tracked, phase,
                   children, strays, bounds>>

Answered(c, a) == electron # "down" /\ check[c].answer = a
Verified(c) == check' = [check EXCEPT ![c] = NoCheck]
Stale(p) == version[p] # appVersion
\* discoverAll does not go on to spawn.
NotAdopted == phase' = IF phase = "discover" THEN "idle" ELSE "port"

\* mutant: an adopted service is not watched
AdoptUnwatched ==
    LET p == check["start"].pid IN
    /\ phase \in {"discover", "verify"}
    /\ Answered("start", "ok") /\ ~Stale(p)
    /\ instance' = Running(p)
    /\ timer' = NoProc
    /\ phase' = "idle"
    /\ Verified("start")
    /\ UNCHANGED <<services, manifest, electron, appVersion, children, strays, bounds>>
\* tryAdopt, when the service answered.
Adopt ==
    LET p == check["start"].pid IN
    /\ phase \in {"discover", "verify"}
    /\ Answered("start", "ok") /\ ~Stale(p)
    /\ instance' = Running(p)
    /\ timer' = p
    /\ phase' = "idle"
    /\ Verified("start")
    /\ UNCHANGED <<services, manifest, electron, appVersion, children, strays, bounds>>

\* mutant: one that does not answer is not killed
ReplaceOnly ==
    LET p == check["start"].pid IN
    /\ phase \in {"discover", "verify"}
    /\ IF Stale(p) THEN Answered("start", "ok") ELSE Answered("start", "bad")
    /\ manifest' = NoProc
    /\ NotAdopted
    /\ Verified("start")
    /\ UNCHANGED <<services, electron, appVersion, tracked, children, strays, bounds>>
\* tryAdopt, killManifestProcess: a service of another version that answers,
\* or one of this version that does not.
Replace ==
    LET p == check["start"].pid IN
    /\ phase \in {"discover", "verify"}
    /\ IF Stale(p) THEN Answered("start", "ok") ELSE Answered("start", "bad")
    /\ Sigkill({p})
    /\ manifest' = NoProc
    /\ NotAdopted
    /\ Verified("start")
    /\ UNCHANGED <<version, electron, appVersion, tracked, children, strays, bounds>>

\* tryAdopt, when a service of another version does not answer: the process
\* is left alone.
Disown ==
    LET p == check["start"].pid IN
    /\ phase \in {"discover", "verify"}
    /\ Answered("start", "bad") /\ Stale(p)
    /\ manifest' = NoProc
    /\ strays' = strays \cup ({p} \cap Alive)
    /\ NotAdopted
    /\ Verified("start")
    /\ UNCHANGED <<services, electron, appVersion, tracked, children, bounds>>
-----------------------------------------------------------------------------
(***************************************************************************)
(* spawn.  The record that a pending spawn holds is the entry of instances *)
(* unless somebody removed it: nobody else adds one meanwhile.             *)
(***************************************************************************)
PortFound ==
    /\ electron # "down" /\ phase = "port"
    /\ instance' = Starting(NoProc)
    /\ phase' = "env"
    /\ UNCHANGED <<services, manifest, electron, appVersion, timer, check,
                   children, strays, bounds>>

PortFails ==
    /\ electron # "down" /\ phase = "port"
    /\ phase' = "idle"
    /\ UNCHANGED <<services, manifest, electron, appVersion, tracked, check,
                   children, strays, bounds>>

\* buildEnv, openRotatingLogFd or spawn throws: the entry stays "starting".
EnvFails ==
    /\ electron # "down" /\ phase = "env"
    /\ phase' = "idle"
    /\ UNCHANGED <<services, manifest, electron, appVersion, tracked, check,
                   children, strays, bounds>>

SpawnFails ==
    /\ electron # "down" /\ phase = "env"
    /\ instance' = NoInstance
    /\ phase' = "idle"
    /\ UNCHANGED <<services, manifest, electron, appVersion, timer, check,
                   children, strays, bounds>>

SpawnChild(p) ==
    /\ electron # "down" /\ phase = "env" /\ proc[p] = "unused"
    /\ proc' = [proc EXCEPT ![p] = "boot"]
    /\ version' = [version EXCEPT ![p] = appVersion]
    /\ children' = children \cup {p}
    /\ instance' = IF instance.status = "starting" THEN Starting(p) ELSE instance
    /\ phase' = "health"
    /\ check' = [check EXCEPT !["start"] = Awaited(p)]
    /\ UNCHANGED <<signalled, manifest, electron, appVersion, timer, strays, bounds>>

Healthy ==
    /\ phase = "health" /\ Answered("start", "ok")
    /\ instance' = IF instance.status = "starting"
                   THEN Running(check["start"].pid) ELSE instance
    /\ phase' = "idle"
    /\ Verified("start")
    /\ UNCHANGED <<services, manifest, electron, appVersion, timer, children,
                   strays, bounds>>

\* mutant: the phase is left to a state that nothing handles
HealthTimeoutFailed ==
    /\ phase = "health" /\ Answered("start", "bad")
    /\ Sigterm({check["start"].pid})
    /\ instance' = NoInstance
    /\ phase' = "failed"
    /\ Verified("start")
    /\ UNCHANGED <<version, manifest, electron, appVersion, timer, children,
                   strays, bounds>>
\* The child does not serve in time: it gets SIGTERM, and the manifest, if it
\* wrote one, stays.
HealthTimeout ==
    /\ phase = "health" /\ Answered("start", "bad")
    /\ Sigterm({check["start"].pid})
    /\ instance' = NoInstance
    /\ phase' = "idle"
    /\ Verified("start")
    /\ UNCHANGED <<version, manifest, electron, appVersion, timer, children,
                   strays, bounds>>

\* mutant: the exit of any child is that of the instance
ExitEventOfAny(p) ==
    /\ electron # "down" /\ p \in children /\ proc[p] = "dead"
    /\ children' = children \ {p}
    /\ instance' = NoInstance
    /\ manifest' = IF instance = NoInstance THEN manifest ELSE NoProc
    /\ UNCHANGED <<services, electron, appVersion, timer, phase, check, strays, bounds>>
\* child.on("exit"): only the current instance is removed.
ExitEvent(p) ==
    /\ electron # "down" /\ p \in children /\ proc[p] = "dead"
    /\ children' = children \ {p}
    /\ IF instance.pid = p
       THEN instance' = NoInstance /\ manifest' = NoProc
       ELSE UNCHANGED <<instance, manifest>>
    /\ UNCHANGED <<services, electron, appVersion, timer, phase, check, strays, bounds>>

\* The interval of startAdoptedLivenessCheck: the pid it watches is dead, and
\* whatever instance there is now is removed.
Poll ==
    LET removed == instance # NoInstance
        lost == {q \in Listening : q \in {instance.pid, manifest}}
    IN  /\ electron # "down" /\ timer # NoProc /\ timer \notin Alive
        /\ timer' = NoProc
        /\ instance' = NoInstance
        /\ manifest' = IF removed THEN NoProc ELSE manifest
        /\ strays' = IF removed THEN strays \cup lost ELSE strays
        /\ UNCHANGED <<services, electron, appVersion, phase, check, children, bounds>>
-----------------------------------------------------------------------------
(***************************************************************************)
(* stop, restart, reset.                                                   *)
(***************************************************************************)
\* The instance, if there is one, gets SIGTERM; before it is spawned there
\* is no pid to signal.
Tracked == {instance.pid} \ {NoProc}
ManifestLeft == IF instance = NoInstance THEN manifest ELSE NoProc
Untrack == instance' = NoInstance /\ timer' = NoProc

Stop ==
    /\ Ready
    /\ Untrack
    /\ Sigterm(Tracked)
    /\ manifest' = ManifestLeft
    /\ UNCHANGED <<version, electron, appVersion, phase, check, children, strays, bounds>>

\* The start of a restart is the pending one, if there is one.
Restart ==
    /\ Ready
    /\ Untrack
    /\ Sigterm(Tracked)
    /\ Begin(NoInstance, ManifestLeft)
    /\ UNCHANGED <<version, electron, appVersion, children, strays, bounds>>

\* reset captures the pid of the manifest first, and kills it.
Reset ==
    /\ Ready
    /\ Untrack
    /\ proc' = [p \in Proc |->
                  IF \/ p = manifest /\ p \in Alive
                     \/ p \in Tracked /\ proc[p] = "boot"
                  THEN "dead" ELSE proc[p]]
    /\ signalled' = (signalled \cup (Tracked \cap Listening)) \ {manifest}
    /\ Begin(NoInstance, NoProc)
    /\ UNCHANGED <<version, electron, appVersion, children, strays, bounds>>
-----------------------------------------------------------------------------
(***************************************************************************)
(* The life of Electron.                                                   *)
(***************************************************************************)
\* For every entry of instances: a liveness check without one goes on.
UntrackAll ==
    /\ instance' = NoInstance
    /\ timer' = IF instance = NoInstance THEN timer ELSE NoProc

\* before-quit: releaseAll, and exit a little later.  A start, or discoverAll,
\* may be under way.
Release ==
    /\ electron = "up" /\ quits < MaxQuits
    /\ UntrackAll
    /\ electron' = "closing"
    /\ UNCHANGED <<services, manifest, appVersion, phase, check, children, strays, bounds>>

\* runFullQuitCleanup: teardownKnownManifests asks the service first.
QuitCompletely ==
    /\ electron = "up" /\ phase # "discover" /\ quits < MaxQuits
    /\ electron' = "quitting"
    /\ check' = [check EXCEPT !["quit"] =
                   [pid |-> manifest, answer |-> IF manifest = NoProc THEN "bad" ELSE "none"]]
    /\ UNCHANGED <<services, manifest, appVersion, tracked, phase, children, strays, bounds>>

\* teardownKnownManifests and stopAll.  A service that did not answer is not
\* killed, unless it is the instance.
TearDown ==
    LET p == check["quit"].pid
        killed == {q \in {p} \cap Proc : check["quit"].answer = "ok"}
        kept == {q \in Listening : q \in {p, manifest}} \ (killed \cup Tracked)
    IN  /\ electron = "quitting" /\ check["quit"].answer # "none"
        /\ proc' = [q \in Proc |->
                      IF \/ q \in killed /\ q \in Alive
                         \/ q \in Tracked /\ proc[q] = "boot"
                      THEN "dead" ELSE proc[q]]
        /\ signalled' = (signalled \cup (Tracked \cap Listening)) \ killed
        /\ UntrackAll
        /\ manifest' = IF p = NoProc THEN ManifestLeft ELSE NoProc
        /\ strays' = strays \cup (IF p = NoProc /\ ManifestLeft # NoProc THEN {} ELSE kept)
        /\ electron' = "closing"
        /\ Verified("quit")
        /\ UNCHANGED <<version, appVersion, phase, children, bounds>>

\* Electron is gone.  A service that had not listened yet is named nowhere.
Gone ==
    /\ electron' = "down"
    /\ quits' = quits + 1
    /\ instance' = NoInstance /\ timer' = NoProc
    /\ phase' = "idle"
    /\ check' = [c \in DOMAIN check |-> NoCheck]
    /\ children' = {}
    /\ strays' = strays \cup {p \in Proc : proc[p] = "boot"}
    /\ UNCHANGED <<services, manifest, appVersion, faults>>

Exit == electron = "closing" /\ Gone
CrashElectron == electron # "down" /\ quits < MaxQuits /\ Gone

\* The application starts with discoverAll.  It may have been updated; a
\* prerelease may also go back to an earlier version.
Relaunch ==
    LET valid == manifest \in Alive IN
    /\ electron = "down"
    /\ electron' = "up"
    /\ appVersion' \in 1..MaxVersion
    /\ manifest' = IF valid THEN manifest ELSE NoProc
    /\ phase' = IF valid THEN "discover" ELSE "idle"
    /\ check' = IF valid THEN [check EXCEPT !["start"] = Awaited(manifest)] ELSE check
    /\ UNCHANGED <<services, tracked, children, strays, bounds>>
-----------------------------------------------------------------------------
(***************************************************************************)
(* A service.                                                              *)
(***************************************************************************)
\* The callback of serve writes the manifest, over another one.
Listen(p) ==
    /\ proc[p] = "boot"
    /\ proc' = [proc EXCEPT ![p] = "up"]
    /\ manifest' = p
    /\ strays' = strays \cup ({manifest} \cap Listening)
    /\ UNCHANGED <<signalled, version, electron, appVersion, tracked, phase,
                   check, children, bounds>>

ServiceOnly == UNCHANGED <<version, manifest, electron, appVersion, tracked,
                           phase, check, children, strays, quits>>

\* The handler of SIGTERM: the process exits and leaves the manifest.
Terminate(p) ==
    /\ proc[p] = "up" /\ p \in signalled
    /\ Sigkill({p})
    /\ UNCHANGED faults
    /\ ServiceOnly

Crash(p) ==
    /\ p \in Alive /\ faults < MaxFaults
    /\ Sigkill({p})
    /\ faults' = faults + 1
    /\ ServiceOnly

\* The event loop of a service is blocked, and may go on.
Stall(p) ==
    /\ proc[p] = "up" /\ faults < MaxFaults
    /\ proc' = [proc EXCEPT ![p] = "wedged"]
    /\ faults' = faults + 1
    /\ UNCHANGED signalled
    /\ ServiceOnly

Recover(p) ==
    /\ proc[p] = "wedged"
    /\ proc' = [proc EXCEPT ![p] = "up"]
    /\ UNCHANGED <<signalled, faults>>
    /\ ServiceOnly
-----------------------------------------------------------------------------
Next ==
    \/ Start \/ Stop \/ Restart \/ Reset
    \/ \E c \in {"start", "quit"} : Answer(c)
    \/ Adopt \/ Replace \/ Disown
    \/ PortFound \/ PortFails \/ EnvFails \/ SpawnFails
    \/ Healthy \/ HealthTimeout \/ Poll
    \/ Release \/ QuitCompletely \/ TearDown \/ Exit \/ CrashElectron \/ Relaunch
    \/ \E p \in Proc :
         \/ SpawnChild(p) \/ ExitEvent(p)
         \/ Listen(p) \/ Terminate(p) \/ Crash(p) \/ Stall(p) \/ Recover(p)

Spec == Init /\ [][Next]_vars
-----------------------------------------------------------------------------
(***************************************************************************)
(* Properties.                                                             *)
(***************************************************************************)
\* While no service was let go of, there is at most one that was not told to
\* end, whatever starts, stops and quits interleave: two of them would open
\* the same database and supervise the same daemon.
OneService == strays = {} => Cardinality(Unsignalled) <= 1

\* A service that was neither told to end nor let go of is found again: it
\* is tracked, on its way, or named by the manifest.
NothingLost ==
    \A p \in Unsignalled \ strays : p \in {instance.pid, check["start"].pid, manifest}

\* An instance that has died is not handed out for ever: its exit event or
\* the liveness check of an adopted service is still to come.
DeathNoticed ==
    LET p == instance.pid IN
    instance.status = "running" /\ p \notin Alive => p \in children \/ timer = p
=============================================================================
