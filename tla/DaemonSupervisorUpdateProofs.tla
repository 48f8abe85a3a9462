-------------------- MODULE DaemonSupervisorUpdateProofs --------------------
(***************************************************************************)
(* Theorems about a DaemonSupervisor that is asked for no restart: what    *)
(* adoptions, updates, crashes of daemons and deaths of host-service leave *)
(* behind.  A restart that meets an update or another restart breaks them, *)
(* and CrashCounted fails after any restart, so the condition is part of   *)
(* each theorem.                                                           *)
(***************************************************************************)
EXTENDS DaemonSupervisorProofs

\* forceRestart() is not called: by no user, nor by an auto-update that failed.
Unasked == \A r \in Caller : ~RestartBegin(r)
NoRestarts == [][Unasked]_vars

\* So it is with auto-updates switched off and nobody to ask.
THEOREM UnaskedUnlessAsked ==
  ASSUME AutoUpdate = FALSE, User = {}
  PROVE  Spec => NoRestarts
<1>1. AutoIdle => [Unasked]_vars
  BY DEF Unasked, RestartBegin, AutoIdle, Caller
<1> QED
  BY <1>1, AutoOff, PTL DEF NoRestarts
-----------------------------------------------------------------------------
(***************************************************************************)
(* Without restarts the supervisor does one thing at a time: it starts a   *)
(* daemon while it has none, updates the one it has, or waits.             *)
(***************************************************************************)
NobodyBusy == \A r \in Caller : ~Busy(r)

\* What the memory of the supervisor says of the task in progress.
TaskAlone ==
    /\ boot = "none" => start.pc = "idle"
    /\ boot # "ok" => instance = NoPid /\ upd.pc = "idle"
    /\ start.pc # "idle" => instance = NoPid /\ upd.pc = "idle"
    /\ upd.pc # "idle" /\ instance # NoPid => instance = upd.pid /\ stopping
    /\ stopping => upd.pc # "idle"

\* What the manifest says then.
ManifestFollows ==
    /\ instance # NoPid => manifest = instance
    /\ start.pc \in {"connect", "probe"} => manifest = start.pid
    /\ start.pc \in {"spawn", "abort"} => manifest = NoPid
    /\ upd.pc # "idle" => upd.saved = upd.pid

OneTask == NobodyBusy /\ TaskAlone /\ ManifestFollows

LEMMA OneTaskInit == Init => OneTask
BY SupervisorAssumption
DEF Init, OneTask, NobodyBusy, TaskAlone, ManifestFollows, Busy, RestartIdle,
    StartIdle, UpdIdle

\* No restart is in progress, so none takes a step.
LEMMA UnaskedMoves ==
  ASSUME NobodyBusy, [Next]_vars, [Unasked]_vars
  PROVE  \/ StartNext
         \/ \E p \in Pid : DeathNext(p)
         \/ UserUpdate \/ UpdateNext
         \/ \E p \in Pid : PidNext(p)
         \/ ClientSessions \/ FaultNext
         \/ UNCHANGED vars
<1>1. ASSUME NEW r \in Caller, RestartNext(r), Unasked
      PROVE  FALSE
  BY <1>1 DEF NobodyBusy, Unasked, Busy, RestartNext, RestartGo, RestartKilled
<1> QED
  BY <1>1 DEF Next

\* Updates and starts name a process.
LEMMA UpdateNamed ==
  ASSUME TypeOK, upd.pc # "idle"
  PROVE  /\ upd \in [pc : {"request", "ack", "exit", "probe"}, pid : Pid,
                     succ : PidOrNone, saved : PidOrNone, owner : PidOrNone]
         /\ upd.pid \in Pid /\ upd.pid # NoPid
BY SupervisorAssumption DEF TypeOK, UpdState, UpdIdle

\* A start that ends wakes no restart.
LEMMA StartDoneAlone ==
  ASSUME TypeOK, NobodyBusy, NEW ok \in BOOLEAN, StartDone(ok)
  PROVE  restart' = restart /\ start' = StartIdle /\ start'.pc = "idle"
<1>1. \A r \in Caller : restart[r].pc # "wait"
  BY DEF NobodyBusy, Busy
<1>2. restart \in [Caller -> RestartState]
  BY DEF TypeOK
<1> QED
  BY <1>1, <1>2 DEF StartDone, StartIdle

LEMMA NobodyBusyStep ==
  ASSUME TypeOK, NobodyBusy, [Next]_vars, [Unasked]_vars
  PROVE  NobodyBusy'
<1> USE DEF osVars, memVars, taskVars, bounds, hostVars
<1>1. CASE UNCHANGED restart
  BY <1>1 DEF NobodyBusy, Busy
<1>2. CASE StartNext
  BY <1>1, <1>2, StartDoneAlone
  DEF StartNext, Bootstrap, AdoptConnect, Adopt, AdoptProbeFails, AdoptKilled,
      SpawnReady, SpawnTimeout, SpawnAborted
<1>3. CASE HostCrash
  BY <1>3 DEF HostCrash, NobodyBusy, Busy, Ended
<1>4. UNCHANGED restart \/ StartNext \/ HostCrash
  BY UnaskedMoves
  DEF vars, DeathNext, ExitIgnored, ExitExpected, ExitCrash, LivenessPoll,
      UserUpdate, UpdateBegin, UpdateNext, HandoffRefused, HandoffLost,
      UpdateEscalate, UpdateExited, UpdateProbe, PidNext, HandoffSpawn,
      HandoffAck, HandoffNak, RunAutoUpdate, AutoList, Escalate, Bind,
      BindSuccessor, Leave, Terminated, ClientSessions, FaultNext, Crash, Hang,
      Resume
<1> QED
  BY <1>1, <1>2, <1>3, <1>4

TaskNext == TaskAlone' /\ ManifestFollows'

\* Nothing that the supervisor remembers of its task changes.
LEMMA TaskKept ==
  ASSUME OneTask, UNCHANGED <<boot, start, upd, instance, stopping, manifest>>
  PROVE  TaskNext
BY DEF OneTask, TaskNext, TaskAlone, ManifestFollows

LEMMA TaskStarts ==
  ASSUME TypeOK, OneTask, StartNext
  PROVE  TaskNext
<1> USE DEF osVars, memVars, taskVars, bounds
<1>1. CASE Bootstrap
  <2>1. /\ start.pc = "idle" /\ instance = NoPid /\ upd.pc = "idle"
        /\ ~stopping
        /\ UNCHANGED <<instance, upd, stopping>>
        /\ Ensure(manifest, child, circuitOpen, instance)
        /\ boot' = IF circuitOpen THEN "none"
                   ELSE IF instance # NoPid THEN "ok"
                   ELSE IF start'.pc = "idle" THEN "none" ELSE "pending"
    BY <1>1 DEF Bootstrap, OneTask, TaskAlone
  <2>2. \/ UNCHANGED start /\ manifest' \in {manifest, NoPid}
        \/ ~circuitOpen /\ start'.pc = "connect" /\ manifest' = start'.pid
        \/ ~circuitOpen /\ start'.pc = "spawn" /\ manifest' = NoPid
    BY <2>1 DEF Ensure, Refused, Launch, LaunchFails
  <2> QED
    BY <2>1, <2>2 DEF TaskNext, TaskAlone, ManifestFollows
<1>2. CASE AdoptConnect \/ AdoptProbeFails \/ SpawnTimeout
  <2>1. /\ start.pc \in {"connect", "probe", "spawn"}
        /\ UNCHANGED <<boot, instance, upd, stopping, manifest>>
        /\ \/ start.pc = "connect" /\ start' = [start EXCEPT !.pc = "probe"]
           \/ start.pc # "spawn" /\ start' = [start EXCEPT !.pc = "kill"]
           \/ start.pc = "spawn" /\ start' = [start EXCEPT !.pc = "abort"]
    BY <1>2 DEF AdoptConnect, AdoptProbeFails, SpawnTimeout, AdoptReject
  <2>2. start \in [pc : {"connect", "probe", "kill", "spawn", "abort"},
                   pid : Pid]
    BY <2>1, StartNamed
  <2>3. /\ start'.pid = start.pid
        /\ \/ start.pc = "connect" /\ start'.pc = "probe"
           \/ start'.pc = "kill"
           \/ start.pc = "spawn" /\ start'.pc = "abort"
    BY <2>1, <2>2
  <2> QED
    BY <2>1, <2>3 DEF OneTask, TaskNext, TaskAlone, ManifestFollows
<1>3. CASE Adopt \/ SpawnReady
  <2>1. /\ start.pc # "idle" /\ instance' = start.pid
        /\ manifest' = start.pid /\ StartDone(TRUE)
        /\ UNCHANGED <<upd, stopping>>
    BY <1>3 DEF Adopt, SpawnReady, OneTask, ManifestFollows
  <2>2. start'.pc = "idle" /\ boot' = "ok"
    BY <2>1, StartDoneAlone DEF OneTask, TaskAlone, StartDone, TypeOK
  <2> QED
    BY <2>1, <2>2 DEF OneTask, TaskNext, TaskAlone, ManifestFollows
<1>4. CASE AdoptKilled
  <2>1. /\ start.pc = "kill" /\ manifest' = NoPid
        /\ UNCHANGED <<instance, upd, stopping>>
    BY <1>4 DEF AdoptKilled
  <2>2. CASE Launch(child) /\ UNCHANGED boot
    <3>1. start'.pc = "spawn"
      BY <2>2 DEF Launch
    <3> QED
      BY <2>1, <2>2, <3>1 DEF OneTask, TaskNext, TaskAlone, ManifestFollows
  <2>3. CASE StartDone(FALSE)
    BY <2>1, <2>3, StartDoneAlone
    DEF OneTask, TaskNext, TaskAlone, ManifestFollows, StartDone
  <2> QED
    BY <1>4, <2>2, <2>3 DEF AdoptKilled
<1>5. CASE SpawnAborted
  <2>1. /\ start.pc = "abort" /\ StartDone(FALSE)
        /\ UNCHANGED <<instance, upd, stopping, manifest>>
    BY <1>5 DEF SpawnAborted
  <2> QED
    BY <2>1, StartDoneAlone
    DEF OneTask, TaskNext, TaskAlone, ManifestFollows, StartDone
<1> QED
  BY <1>1, <1>2, <1>3, <1>4, <1>5 DEF StartNext

LEMMA TaskDeaths ==
  ASSUME TypeOK, OneTask, NEW p \in Pid, DeathNext(p)
  PROVE  TaskNext
<1> USE DEF osVars, memVars, taskVars, bounds
<1>0. p # NoPid
  BY SupervisorAssumption
<1>1. CASE ExitIgnored(p)
  BY <1>1, TaskKept DEF ExitIgnored
<1>2. CASE ExitExpected(p)
  BY <1>0, <1>2
  DEF ExitExpected, InstanceExits, OneTask, TaskNext, TaskAlone,
      ManifestFollows
<1>3. ASSUME NEW n \in 1..(crashes + 1), ExitCrash(p, n)
      PROVE  TaskNext
  <2>1. /\ instance # NoPid /\ instance' = NoPid /\ ~stopping
        /\ UNCHANGED <<boot, upd, stopping>>
        /\ \/ UNCHANGED start /\ manifest' = NoPid
           \/ Ensure(NoPid, Reaped(p), circuitOpen, NoPid)
    BY <1>0, <1>3 DEF ExitCrash, InstanceExits
  <2>2. boot = "ok" /\ start.pc = "idle" /\ upd.pc = "idle"
    BY <2>1 DEF OneTask, TaskAlone
  <2>3. /\ manifest' = NoPid
        /\ UNCHANGED start \/ start'.pc = "spawn"
    BY <2>1 DEF Ensure, Adoptable, Launch, LaunchFails
  <2> QED
    BY <2>1, <2>2, <2>3 DEF TaskNext, TaskAlone, ManifestFollows
<1>4. CASE LivenessPoll(p)
  <2>1. CASE instance = p
    BY <1>0, <1>4, <2>1
    DEF LivenessPoll, OneTask, TaskNext, TaskAlone, ManifestFollows
  <2>2. CASE instance # p
    BY <1>4, <2>2, TaskKept DEF LivenessPoll
  <2> QED
    BY <2>1, <2>2
<1> QED
  BY <1>1, <1>2, <1>3, <1>4 DEF DeathNext

LEMMA TaskUpdates ==
  ASSUME TypeOK, OneTask,
         UserUpdate \/ UpdateNext \/ \E p \in Pid : PidNext(p)
  PROVE  TaskNext
<1> USE DEF osVars, memVars, taskVars, bounds, hostVars
<1>1. ASSUME NEW o \in PidOrNone, UpdateBegin(o)
      PROVE  TaskNext
  <2>1. /\ upd.pc = "idle" /\ instance # NoPid /\ stopping' = TRUE
        /\ upd'.pc = "request" /\ upd'.pid = instance /\ upd'.saved = manifest
        /\ UNCHANGED <<manifest, instance, boot, start>>
    BY <1>1 DEF UpdateBegin
  <2> QED
    BY <2>1 DEF OneTask, TaskNext, TaskAlone, ManifestFollows
<1>2. ASSUME RestoreOnFailure, UNCHANGED <<boot, start>>, upd.pc # "idle"
      PROVE  TaskNext
  <2>1. /\ upd'.pc = "idle" /\ stopping' = FALSE /\ instance' = instance
        /\ manifest' = IF upd.saved # NoPid THEN upd.saved ELSE manifest
    BY <1>2 DEF RestoreOnFailure, UpdateEnds, UpdIdle
  <2> QED
    BY <1>2, <2>1, UpdateNamed
    DEF OneTask, TaskNext, TaskAlone, ManifestFollows
<1>3. ASSUME upd.pc # "idle", upd'.pc # "idle", upd'.pid = upd.pid,
             upd'.saved = upd.saved,
             UNCHANGED <<boot, start, instance, stopping, manifest>>
      PROVE  TaskNext
  BY <1>3 DEF OneTask, TaskNext, TaskAlone, ManifestFollows
<1>4. CASE UserUpdate
  BY <1>1, <1>4 DEF UserUpdate, PidOrNone
<1>5. CASE UpdateNext
  <2>1. CASE UpdateEscalate
    BY <2>1, TaskKept DEF UpdateEscalate
  <2>2. CASE UpdateExited
    BY <1>3, <2>2, UpdateNamed DEF UpdateExited
  <2>3. CASE UpdateProbe
    <3>1. /\ upd.pc # "idle" /\ upd'.pc = "idle" /\ stopping' = FALSE
          /\ instance' = upd.succ
          /\ manifest' = IF upd.saved # NoPid THEN upd.succ ELSE manifest
          /\ UNCHANGED <<boot, start>>
      BY <2>3 DEF UpdateProbe, UpdateEnds, UpdIdle, SuccessorManifest
    <3> QED
      BY <3>1, UpdateNamed DEF OneTask, TaskNext, TaskAlone, ManifestFollows
  <2> QED
    BY <1>2, <1>5, <2>1, <2>2, <2>3 DEF UpdateNext, HandoffRefused, HandoffLost
<1>6. ASSUME NEW p \in Pid, PidNext(p)
      PROVE  TaskNext
  <2>1. CASE HandoffSpawn(p)
    BY <1>3, <2>1, UpdateNamed DEF HandoffSpawn
  <2>2. CASE HandoffAck(p)
    <3>1. CASE upd.pc = "ack" /\ upd.succ = p
      BY <1>3, <2>2, <3>1, UpdateNamed DEF HandoffAck
    <3> QED
      BY <2>2, <3>1, TaskKept DEF HandoffAck
  <2>3. CASE HandoffNak(p)
    BY <1>2, <2>3, TaskKept DEF HandoffNak
  <2>4. CASE RunAutoUpdate(p)
    BY <1>1, <2>4, TaskKept DEF RunAutoUpdate, PidOrNone
  <2> QED
    BY <1>6, <2>1, <2>2, <2>3, <2>4, TaskKept
    DEF PidNext, AutoList, Escalate, Bind, BindSuccessor, Leave, Terminated
<1> QED
  BY <1>4, <1>5, <1>6

LEMMA OneTaskStep ==
  ASSUME TypeOK, OneTask, [Next]_vars, [Unasked]_vars
  PROVE  OneTask'
<1> USE DEF osVars, memVars, taskVars, bounds, hostVars
<1>1. NobodyBusy'
  BY NobodyBusyStep DEF OneTask
<1>2. ASSUME HostCrash
      PROVE  TaskNext
  <2>1. /\ boot' = "none" /\ start'.pc = "idle" /\ upd'.pc = "idle"
        /\ instance' = NoPid /\ stopping' = FALSE
    BY <1>2 DEF HostCrash, StartIdle, UpdIdle
  <2> QED
    BY <2>1 DEF TaskNext, TaskAlone, ManifestFollows
<1>3. ASSUME ClientSessions \/ FaultNext \/ UNCHANGED vars, ~HostCrash
      PROVE  TaskNext
  <2>1. UNCHANGED <<boot, start, upd, instance, stopping, manifest>>
    BY <1>3 DEF ClientSessions, FaultNext, Crash, Hang, Resume, vars
  <2> QED
    BY <2>1, TaskKept
<1>4. TaskNext
  BY <1>2, <1>3, TaskStarts, TaskDeaths, TaskUpdates, UnaskedMoves DEF OneTask
<1> QED
  BY <1>1, <1>4 DEF OneTask, TaskNext

\* Without restarts, the manifest names the daemon that the supervisor uses
\* whenever it uses one: what host-service adopts after its own death is the
\* daemon it had, through any updates, crashes and earlier deaths.
THEOREM ManifestTrue == Spec /\ NoRestarts => []ManifestNamesInstance
<1>1. TypeOK /\ OneTask /\ [Next]_vars /\ [Unasked]_vars => OneTask'
  BY OneTaskStep
<1>2. OneTask => ManifestNamesInstance
  BY DEF OneTask, ManifestFollows, ManifestNamesInstance
<1> QED
  BY <1>1, <1>2, OneTaskInit, SupervisorTypes, PTL DEF Spec, NoRestarts
-----------------------------------------------------------------------------
(***************************************************************************)
(* The exits that are counted.                                             *)
(***************************************************************************)
\* The exit of a child is reported by the handlers on it, to nobody else.
LEMMA ReportedOnce ==
  ASSUME TypeOK, NobodyBusy, [Next]_vars, [Unasked]_vars, NEW p \in Pid,
         child[p] = "watched", child'[p] = "reaped"
  PROVE  DeathNext(p)
<1> USE DEF osVars, memVars, taskVars, bounds, hostVars
<1>0. child \in [Pid -> ChildState] /\ child' # child
  BY DEF TypeOK
<1>1. ASSUME NEW c \in [Pid -> ChildState], Launch(c), c[p] # "reaped"
      PROVE  FALSE
  BY <1>1 DEF Launch
<1>2. ASSUME NEW c \in [Pid -> ChildState], c[p] # "reaped",
             NEW m, NEW open, NEW inst, Ensure(m, c, open, inst)
      PROVE  FALSE
  BY <1>1, <1>2 DEF Ensure, LaunchFails
<1>3. ~StartNext
  BY <1>0, <1>1, <1>2
  DEF StartNext, Bootstrap, AdoptConnect, Adopt, AdoptProbeFails, AdoptKilled,
      SpawnReady, SpawnTimeout, SpawnAborted, Watched
<1>4. ASSUME NEW q \in Pid, DeathNext(q), q # p
      PROVE  FALSE
  <2>1. Reaped(q) \in [Pid -> ChildState] /\ Reaped(q)[p] # "reaped"
    BY <1>0, <1>4 DEF Reaped, ChildState
  <2>2. \/ child' = Reaped(q)
        \/ child' = child
        \/ Ensure(NoPid, Reaped(q), circuitOpen, NoPid)
    BY <1>4
    DEF DeathNext, ExitIgnored, ExitExpected, InstanceExits, ExitCrash,
        LivenessPoll
  <2> QED
    BY <1>0, <1>2, <2>1, <2>2
<1>5. ~HostCrash
  BY DEF HostCrash
<1>6. child' = child \/ StartNext \/ HostCrash \/ \E q \in Pid : DeathNext(q)
  BY UnaskedMoves
  DEF vars, UserUpdate, UpdateBegin, UpdateNext, HandoffRefused, HandoffLost,
      UpdateEscalate, UpdateExited, UpdateProbe, PidNext, HandoffSpawn,
      HandoffAck, HandoffNak, RunAutoUpdate, AutoList, Escalate, Bind,
      BindSuccessor, Leave, Terminated, ClientSessions, FaultNext, Crash, Hang,
      Resume
<1> QED
  BY <1>0, <1>3, <1>4, <1>5, <1>6

LEMMA CountedMove ==
  ASSUME TypeOK, OneTask, [Next]_vars, [Unasked]_vars, NEW p \in Pid,
         instance = p, child[p] = "watched", child'[p] = "reaped",
         upd.pc = "idle"
  PROVE  crashes' >= 1
<1> USE DEF osVars, memVars, taskVars, bounds
<1>1. DeathNext(p)
  BY ReportedOnce DEF OneTask
<1>2. ~stopping
  BY DEF OneTask, TaskAlone
<1>3. ~ExitIgnored(p) /\ ~ExitExpected(p)
  BY <1>2 DEF ExitIgnored, ExitExpected
<1>4. ~LivenessPoll(p)
  BY DEF LivenessPoll
<1>5. PICK n \in 1..(crashes + 1) : ExitCrash(p, n)
  BY <1>1, <1>3, <1>4 DEF DeathNext
<1> QED
  BY <1>5 DEF ExitCrash, TypeOK

\* Without restarts, the flag that an exit is expected is up during an update
\* only, whichever way the updates end: no death of the current child outside
\* one escapes the circuit breaker.
THEOREM CrashesCounted == Spec /\ NoRestarts => CrashCounted
<1>1. TypeOK /\ OneTask /\ [Next]_vars /\ [Unasked]_vars => OneTask'
  BY OneTaskStep
<1>2. TypeOK /\ OneTask /\ [Next]_vars /\ [Unasked]_vars
        => [\A p \in Pid :
              /\ instance = p /\ child[p] = "watched" /\ child'[p] = "reaped"
              /\ p \notin doomed /\ upd.pc = "idle"
              => crashes' >= 1]_vars
  BY CountedMove
<1> QED
  BY <1>1, <1>2, OneTaskInit, SupervisorTypes, PTL
  DEF Spec, NoRestarts, CrashCounted
-----------------------------------------------------------------------------
(***************************************************************************)
(* Before the first handoff.                                               *)
(***************************************************************************)
\* A handoff that has been requested has named a successor.
HandedOver ==
    /\ \A q \in Pid : proc[q] = "adopting" => parent[q] # NoPid
    /\ upd.pc \in {"ack", "exit", "probe"}
         => upd.succ \in Pid /\ parent[upd.succ] # NoPid

LEMMA HandedOverInit == Init => HandedOver
BY DEF Init, HandedOver, UpdIdle

\* Only HandoffSpawn makes a successor.
LEMMA ParentMoves ==
  ASSUME [Next]_vars
  PROVE  parent' = parent \/ \E q \in Pid : HandoffSpawn(q)
BY DEF osVars, memVars, taskVars, bounds, hostVars, Next, vars, StartNext,
       Bootstrap, AdoptConnect, Adopt, AdoptProbeFails, AdoptKilled, SpawnReady,
       SpawnTimeout, SpawnAborted, DeathNext, ExitIgnored, ExitExpected,
       ExitCrash, LivenessPoll, RestartNext, RestartBegin, RestartGo,
       RestartKilled, UpdateNext, UserUpdate, UpdateBegin, HandoffRefused,
       HandoffLost, UpdateEscalate, UpdateExited, UpdateProbe, PidNext,
       HandoffAck, HandoffNak, RunAutoUpdate, AutoList, Escalate, Bind,
       BindSuccessor, Leave, Terminated, ClientSessions, FaultNext, Crash,
       Hang, Resume, HostCrash

\* A successor keeps its predecessor, and one that was spawned now has one.
LEMMA SpawnNamed ==
  ASSUME TypeOK, NEW q \in Pid, HandoffSpawn(q)
  PROVE  /\ upd.pc = "request" /\ upd'.pc = "ack" /\ upd'.succ = q
         /\ upd'.pid = upd.pid /\ upd.pid \in Pid
         /\ sock \in Pid /\ sock # q /\ proc[sock] = "up" /\ proc[q] = "unused"
         /\ parent'[q] = sock /\ \A x \in Pid \ {q} : parent'[x] = parent[x]
         /\ proc'[q] = "adopting" /\ \A x \in Pid \ {q} : proc'[x] = proc[x]
<1>1. upd.pc = "request" /\ upd' = [upd EXCEPT !.pc = "ack", !.succ = q]
  BY DEF HandoffSpawn
<1>2. upd'.pc = "ack" /\ upd'.succ = q /\ upd'.pid = upd.pid /\ upd.pid \in Pid
  BY <1>1, UpdateNamed
<1>3. sock \in Pid /\ proc[sock] = "up" /\ proc[q] = "unused"
  BY DEF HandoffSpawn, Reachable, TypeOK, PidOrNone
<1> QED
  BY <1>1, <1>2, <1>3 DEF HandoffSpawn, TypeOK

LEMMA ParentsKept ==
  ASSUME TypeOK, SuccessorsForeign, [Next]_vars
  PROVE  \A q \in Pid : parent[q] # NoPid => parent'[q] # NoPid
<1>1. ASSUME NEW x \in Pid, HandoffSpawn(x), NEW q \in Pid, parent[q] # NoPid
      PROVE  parent'[q] # NoPid
  BY <1>1, SpawnNamed DEF SuccessorsForeign
<1> QED
  BY <1>1, ParentMoves

\* The stages of an update after its request: the successor stays the same.
LEMMA UpdateStages ==
  ASSUME TypeOK, [Next]_vars
  PROVE  \/ \E q \in Pid : HandoffSpawn(q)
         \/ upd'.pc \in {"ack", "exit", "probe"}
              => /\ upd.pc \in {"ack", "exit", "probe"}
                 /\ upd'.succ = upd.succ /\ upd'.pid = upd.pid
                 /\ \/ upd'.pc = upd.pc
                    \/ \E q \in Pid : HandoffAck(q)
                    \/ UpdateExited
<1> USE DEF osVars, memVars, taskVars, bounds, hostVars
<1>1. CASE UserUpdate \/ \E p \in Pid : RunAutoUpdate(p)
  BY <1>1 DEF UserUpdate, RunAutoUpdate, UpdateBegin
<1>2. CASE UpdateNext
  <2>1. CASE UpdateExited
    BY <2>1, UpdateNamed DEF UpdateExited
  <2>2. CASE upd' = UpdIdle \/ upd' = upd
    BY <2>2 DEF UpdIdle
  <2> QED
    BY <1>2, <2>1, <2>2
    DEF UpdateNext, HandoffRefused, HandoffLost, RestoreOnFailure, UpdateEnds,
        UpdateEscalate, UpdateProbe
<1>3. ASSUME NEW p \in Pid, HandoffAck(p)
      PROVE  \/ upd' = upd
             \/ upd.pc = "ack" /\ upd'.succ = upd.succ /\ upd'.pid = upd.pid
  BY <1>3, UpdateNamed DEF HandoffAck
<1>4. ASSUME NEW p \in Pid, HandoffNak(p)
      PROVE  upd' = upd \/ upd' = UpdIdle
  BY <1>4 DEF HandoffNak, RestoreOnFailure, UpdateEnds
<1>5. CASE HostCrash
  BY <1>5 DEF HostCrash, UpdIdle
<1>6. \/ upd' = upd
      \/ \E q \in Pid : HandoffSpawn(q) \/ HandoffAck(q) \/ HandoffNak(q)
      \/ UserUpdate \/ UpdateNext \/ HostCrash
      \/ \E p \in Pid : RunAutoUpdate(p)
  BY DEF Next, vars, StartNext, Bootstrap, AdoptConnect, Adopt,
         AdoptProbeFails, AdoptKilled, SpawnReady, SpawnTimeout, SpawnAborted,
         DeathNext, ExitIgnored, ExitExpected, ExitCrash, LivenessPoll,
         RestartNext, RestartBegin, RestartGo, RestartKilled, PidNext,
         AutoList, Escalate, Bind, BindSuccessor, Leave, Terminated,
         ClientSessions, FaultNext, Crash, Hang, Resume
<1> QED
  BY <1>1, <1>2, <1>3, <1>4, <1>5, <1>6 DEF UpdIdle

\* What a step of the supervisor or of the system does to the processes.
ProcMoves ==
    \/ proc' = proc
    \/ \E p \in Pid, s \in {"starting", "leaving", "up", "hung"} :
         proc' = [proc EXCEPT ![p] = s]
    \/ \E D \in SUBSET Pid :
         proc' = [p \in Pid |-> IF p \in D THEN "dead" ELSE proc[p]]

LEMMA StepProcs ==
  ASSUME TypeOK, SuccessorsForeign, NobodyBusy, [Next]_vars, [Unasked]_vars
  PROVE  ProcMoves \/ \E q \in Pid : HandoffSpawn(q)
<1> USE DEF osVars, memVars, taskVars, bounds, hostVars
<1>1. ASSUME NEW D \in SUBSET Pid, NEW g, Die(D, g)
      PROVE  ProcMoves
  BY <1>1 DEF Die, ProcMoves
<1>2. ASSUME NEW c, Launch(c)
      PROVE  ProcMoves
  BY <1>2 DEF Launch, ProcMoves
<1>3. ASSUME NEW c, NEW m, NEW open, NEW inst, Ensure(m, c, open, inst)
      PROVE  ProcMoves
  BY <1>2, <1>3 DEF Ensure, LaunchFails, ProcMoves
<1>4. ASSUME proc' = proc
      PROVE  ProcMoves
  BY <1>4 DEF ProcMoves
<1>5. CASE StartNext
  BY <1>2, <1>3, <1>4, <1>5
  DEF StartNext, Bootstrap, AdoptConnect, Adopt, AdoptProbeFails, AdoptKilled,
      SpawnReady, SpawnTimeout, SpawnAborted
<1>6. ASSUME NEW p \in Pid, DeathNext(p)
      PROVE  ProcMoves
  BY <1>3, <1>4, <1>6
  DEF DeathNext, ExitIgnored, ExitExpected, ExitCrash, LivenessPoll
<1>7. CASE UpdateNext
  <2>1. CASE UpdateEscalate
    <3>1. upd.pc # "idle"
      BY <2>1 DEF UpdateEscalate
    <3> QED
      BY <1>1, <2>1, <3>1, UpdateNamed DEF UpdateEscalate
  <2> QED
    BY <1>4, <1>7, <2>1
    DEF UpdateNext, HandoffRefused, HandoffLost, UpdateExited, UpdateProbe
<1>8. ASSUME NEW p \in Pid, PidNext(p), ~HandoffSpawn(p)
      PROVE  ProcMoves
  <2>1. CASE HandoffAck(p)
    <3>1. parent[p] \in Pid \/ parent[p] = NoPid
      BY DEF TypeOK, PidOrNone
    <3>2. CASE parent[p] \in Pid
      BY <2>1, <3>2 DEF HandoffAck, ProcMoves
    <3>3. CASE parent[p] = NoPid
      BY <2>1, <3>3, SupervisorAssumption DEF HandoffAck, TypeOK, ProcMoves
    <3> QED
      BY <3>1, <3>2, <3>3
  <2>2. CASE HandoffNak(p) \/ Leave(p) \/ Terminated(p)
    BY <1>1, <2>2 DEF HandoffNak, Leave, Terminated
  <2>3. CASE Escalate(p)
    BY <1>1, <2>3 DEF Escalate, Tree
  <2>4. CASE Bind(p) \/ BindSuccessor(p)
    BY <2>4 DEF Bind, BindSuccessor, ProcMoves
  <2> QED
    BY <1>4, <1>8, <2>1, <2>2, <2>3, <2>4
    DEF PidNext, RunAutoUpdate, UpdateBegin, AutoList
<1>9. CASE FaultNext
  <2>1. ASSUME NEW p \in Pid, Crash(p)
        PROVE  ProcMoves
    BY <1>1, <2>1 DEF Crash
  <2>2. ASSUME NEW p \in Pid, Hang(p) \/ Resume(p)
        PROVE  ProcMoves
    BY <2>2 DEF Hang, Resume, ProcMoves
  <2>3. CASE HostCrash
    BY <1>4, <2>3 DEF HostCrash
  <2> QED
    BY <1>9, <2>1, <2>2, <2>3 DEF FaultNext
<1> QED
  BY <1>4, <1>5, <1>6, <1>7, <1>8, <1>9, UnaskedMoves
  DEF UserUpdate, UpdateBegin, ClientSessions, vars

LEMMA HandedOverStep ==
  ASSUME TypeOK, SuccessorsForeign, NobodyBusy, HandedOver, [Next]_vars,
         [Unasked]_vars
  PROVE  HandedOver'
<1>1. CASE \E q \in Pid : HandoffSpawn(q)
  <2>1. PICK q \in Pid : HandoffSpawn(q)
    BY <1>1
  <2>2. /\ upd'.succ = q /\ parent'[q] # NoPid
        /\ \A x \in Pid \ {q} : parent'[x] = parent[x] /\ proc'[x] = proc[x]
    BY <2>1, SpawnNamed, SupervisorAssumption
  <2> QED
    BY <2>2 DEF HandedOver
<1>2. CASE ~ \E q \in Pid : HandoffSpawn(q)
  <2>1. \A x \in Pid : proc'[x] = "adopting" => proc[x] = "adopting"
    BY <1>2, StepProcs DEF ProcMoves, TypeOK
  <2>2. upd'.pc \in {"ack", "exit", "probe"}
          => upd.pc \in {"ack", "exit", "probe"} /\ upd'.succ = upd.succ
    BY <1>2, UpdateStages
  <2>3. \A q \in Pid : parent[q] # NoPid => parent'[q] # NoPid
    BY ParentsKept
  <2> QED
    BY <2>1, <2>2, <2>3 DEF HandedOver
<1> QED
  BY <1>1, <1>2

\* The daemon a supervisor has not handed over or lost sight of: the one it
\* uses, or starts, or is going to find in the manifest.
InHand(p) == \/ p = instance
             \/ start.pc # "idle" /\ p = start.pid
             \/ boot = "none" /\ p = manifest

\* No other lives, and the path leads to it if it listens.
OnlyOne ==
    /\ \A p \in Pid : Alive(p) => InHand(p)
    /\ \A p \in Pid : proc[p] \in {"up", "hung"} => sock = p
    /\ \A p \in Pid : proc[p] # "leaving"

BeforeHandoff == hostCrashes = 0 /\ \A q \in Pid : parent[q] = NoPid

LoneInv == BeforeHandoff => OnlyOne

LEMMA LoneInit == Init => LoneInv
BY DEF Init, LoneInv, OnlyOne, InHand, Alive

LEMMA AtMostOne ==
  ASSUME OneTask, OnlyOne, NEW p \in Pid, NEW q \in Pid, Alive(p), Alive(q)
  PROVE  p = q
BY SupervisorAssumption DEF OneTask, TaskAlone, OnlyOne, InHand

\* The last one is gone, and another may be coming up.
LEMMA LoneGone ==
  ASSUME TypeOK, \A p \in Pid : ~Alive(p), UNCHANGED sock,
         proc' = proc \/ \E c : Launch(c)
  PROVE  OnlyOne'
<1>1. CASE proc' = proc
  BY <1>1 DEF OnlyOne, Alive
<1>2. ASSUME NEW c, Launch(c)
      PROVE  OnlyOne'
  <2>1. PICK p \in Pid : /\ proc' = [proc EXCEPT ![p] = "starting"]
                         /\ start' = [pc |-> "spawn", pid |-> p]
    BY <1>2 DEF Launch
  <2>2. \A x \in Pid : x # p => proc'[x] \in {"unused", "dead"}
    BY <2>1 DEF Alive, TypeOK
  <2>3. proc'[p] = "starting" /\ start'.pc = "spawn" /\ start'.pid = p
    BY <2>1 DEF TypeOK
  <2> QED
    BY <2>2, <2>3 DEF OnlyOne, Alive, InHand
<1> QED
  BY <1>1, <1>2

\* The processes stay, and so does the one in hand.
LEMMA LoneKept ==
  ASSUME OnlyOne, UNCHANGED <<proc, sock>>,
         \A p \in Pid : InHand(p) => InHand(p)'
  PROVE  OnlyOne'
BY DEF OnlyOne, Alive

\* Some die, and the one that closes the path was the last.
LEMMA LoneDies ==
  ASSUME TypeOK, OneTask, OnlyOne, NEW D \in SUBSET Pid, NEW g \in BOOLEAN,
         Die(D, g), g => \E p \in D : Alive(p),
         UNCHANGED <<instance, start, boot, manifest>>
  PROVE  OnlyOne'
<1>1. \A p \in Pid : proc'[p] = IF p \in D THEN "dead" ELSE proc[p]
  BY DEF Die
<1>2. \A p \in Pid : Alive(p)' => Alive(p) /\ p \notin D
  BY <1>1 DEF Alive
<1>3. \A p \in Pid : InHand(p) => InHand(p)'
  BY DEF InHand
<1>4. g => \A p \in Pid : ~Alive(p)'
  BY <1>2, AtMostOne
<1>5. \A p \in Pid : proc'[p] \in {"up", "hung"} => Alive(p)' /\ proc[p] = proc'[p]
  BY <1>1 DEF Alive
<1>6. \A p \in Pid : proc'[p] \in {"up", "hung"} => sock' = p
  BY <1>4, <1>5 DEF Die, OnlyOne
<1> QED
  BY <1>1, <1>2, <1>3, <1>6 DEF OnlyOne

\* The failures that have been.
LEMMA StepFailures ==
  ASSUME [Next]_vars
  PROVE  \/ UNCHANGED <<faults, hostCrashes>>
         \/ faults' = faults + 1 /\ UNCHANGED hostCrashes
              /\ \E p \in Pid : Crash(p) \/ Hang(p)
         \/ hostCrashes' = hostCrashes + 1 /\ UNCHANGED faults /\ HostCrash
<1> USE DEF osVars, memVars, taskVars, bounds, hostVars
<1>1. CASE FaultNext
  BY <1>1 DEF FaultNext, Crash, Hang, Resume, Fault, HostCrash
<1>2. CASE ~FaultNext
  BY <1>2
  DEF Next, vars, StartNext, Bootstrap, AdoptConnect, Adopt, AdoptProbeFails,
      AdoptKilled, SpawnReady, SpawnTimeout, SpawnAborted, DeathNext,
      ExitIgnored, ExitExpected, ExitCrash, LivenessPoll, RestartNext,
      RestartBegin, RestartGo, RestartKilled, UpdateNext, UserUpdate,
      UpdateBegin, HandoffRefused, HandoffLost, UpdateEscalate, UpdateExited,
      UpdateProbe, PidNext, HandoffSpawn, HandoffAck, HandoffNak,
      RunAutoUpdate, AutoList, Escalate, Bind, BindSuccessor, Leave,
      Terminated, ClientSessions
<1> QED
  BY <1>1, <1>2

LEMMA LoneStarts ==
  ASSUME TypeOK, OneTask, OnlyOne, StartNext
  PROVE  OnlyOne'
<1> USE DEF osVars, memVars, taskVars, bounds
<1>1. CASE Bootstrap
  <2>1. /\ boot = "none" /\ start.pc = "idle" /\ instance = NoPid
        /\ UNCHANGED <<instance, sock>>
        /\ Ensure(manifest, child, circuitOpen, instance)
        /\ boot' = IF circuitOpen THEN "none"
                   ELSE IF instance # NoPid THEN "ok"
                   ELSE IF start'.pc = "idle" THEN "none" ELSE "pending"
    BY <1>1 DEF Bootstrap, OneTask, TaskAlone
  <2>2. \A p \in Pid : Alive(p) => p = manifest
    BY <2>1, SupervisorAssumption DEF OnlyOne, InHand
  <2>3. CASE Refused(circuitOpen, instance)
    <3>1. circuitOpen
      BY <2>1, <2>3 DEF Refused
    <3>2. UNCHANGED <<proc, start, manifest>> /\ boot' = "none"
      BY <2>1, <2>3, <3>1 DEF Ensure
    <3> QED
      BY <2>1, <3>2, LoneKept DEF InHand
  <2>4. CASE ~Refused(circuitOpen, instance) /\ Adoptable(manifest)
    <3>1. start' = [pc |-> "connect", pid |-> manifest] /\ UNCHANGED proc
      BY <2>1, <2>4 DEF Ensure
    <3>2. \A p \in Pid : Alive(p) => InHand(p)'
      BY <2>2, <3>1 DEF InHand
    <3> QED
      BY <2>1, <3>1, <3>2 DEF OnlyOne, Alive
  <2>5. CASE ~Refused(circuitOpen, instance) /\ ~Adoptable(manifest)
    <3>1. \A p \in Pid : ~Alive(p)
      BY <2>2, <2>5, SupervisorAssumption DEF Adoptable, Gone, Alive
    <3>2. proc' = proc \/ Launch(child)
      BY <2>1, <2>5 DEF Ensure, LaunchFails
    <3> QED
      BY <2>1, <3>1, <3>2, LoneGone
  <2> QED
    BY <2>3, <2>4, <2>5
<1>2. ASSUME start.pc # "idle", start'.pc # "idle", start'.pid = start.pid,
             UNCHANGED <<proc, sock, instance, boot, manifest>>
      PROVE  OnlyOne'
  BY <1>2, LoneKept DEF InHand
<1>3. CASE AdoptConnect \/ AdoptProbeFails \/ SpawnTimeout
  <2>1. start.pc # "idle"
    BY <1>3 DEF AdoptConnect, AdoptProbeFails, SpawnTimeout
  <2>2. start'.pc # "idle" /\ start'.pid = start.pid
    BY <1>3, <2>1, StartNamed
    DEF AdoptConnect, AdoptProbeFails, SpawnTimeout, AdoptReject
  <2> QED
    BY <1>2, <1>3, <2>1, <2>2 DEF AdoptConnect, AdoptProbeFails, SpawnTimeout
<1>4. CASE Adopt \/ SpawnReady
  <2>1. /\ start.pc # "idle" /\ instance' = start.pid
        /\ UNCHANGED <<proc, sock>>
    BY <1>4 DEF Adopt, SpawnReady
  <2>2. instance = NoPid /\ boot # "none"
    BY <2>1 DEF OneTask, TaskAlone
  <2> QED
    BY <2>1, <2>2, SupervisorAssumption, LoneKept DEF InHand
<1>5. CASE AdoptKilled \/ SpawnAborted
  <2>1. /\ start.pc # "idle" /\ Gone(start.pid) /\ UNCHANGED sock
        /\ proc' = proc \/ Launch(child)
    BY <1>5 DEF AdoptKilled, SpawnAborted
  <2>2. instance = NoPid /\ boot # "none"
    BY <2>1 DEF OneTask, TaskAlone
  <2>3. \A p \in Pid : ~Alive(p)
    BY <2>1, <2>2, SupervisorAssumption DEF OnlyOne, InHand, Gone, Alive
  <2> QED
    BY <2>1, <2>3, LoneGone
<1> QED
  BY <1>1, <1>3, <1>4, <1>5 DEF StartNext

LEMMA LoneDeaths ==
  ASSUME TypeOK, OneTask, OnlyOne, NEW p \in Pid, DeathNext(p)
  PROVE  OnlyOne'
<1> USE DEF osVars, memVars, taskVars, bounds
<1>1. ASSUME instance = p, proc[p] = "dead"
      PROVE  \A x \in Pid : ~Alive(x)
  <2>1. start.pc = "idle" /\ boot = "ok"
    BY <1>1, SupervisorAssumption DEF OneTask, TaskAlone
  <2> QED
    BY <1>1, <2>1 DEF OnlyOne, InHand, Alive
<1>2. CASE UNCHANGED <<proc, sock, instance, start, boot, manifest>>
  BY <1>2, LoneKept DEF InHand
<1>3. CASE ExitIgnored(p)
  BY <1>2, <1>3 DEF ExitIgnored
<1>4. CASE ExitExpected(p)
  BY <1>1, <1>4, LoneGone DEF ExitExpected, InstanceExits
<1>5. ASSUME NEW n \in 1..(crashes + 1), ExitCrash(p, n)
      PROVE  OnlyOne'
  <2>1. proc' = proc \/ Launch(Reaped(p))
    BY <1>5 DEF ExitCrash, Ensure, LaunchFails
  <2> QED
    BY <1>1, <1>5, <2>1, LoneGone DEF ExitCrash, InstanceExits
<1>6. CASE LivenessPoll(p)
  <2>1. CASE instance = p
    BY <1>1, <1>6, <2>1, LoneGone DEF LivenessPoll, Gone
  <2> QED
    BY <1>2, <1>6, <2>1 DEF LivenessPoll
<1> QED
  BY <1>3, <1>4, <1>5, <1>6 DEF DeathNext

LEMMA LoneRest ==
  ASSUME TypeOK, OneTask, HandedOver, OnlyOne, BeforeHandoff, BeforeHandoff',
         \/ UserUpdate \/ UpdateNext
         \/ \E p \in Pid : PidNext(p)
         \/ ClientSessions \/ FaultNext
         \/ UNCHANGED vars
  PROVE  OnlyOne'
<1> USE DEF osVars, memVars, taskVars, bounds, hostVars
<1>1. /\ \A q \in Pid : parent[q] = NoPid /\ parent'[q] = NoPid
      /\ \A q \in Pid : proc[q] # "adopting"
      /\ upd.pc \notin {"ack", "exit", "probe"}
      /\ hostCrashes = 0 /\ hostCrashes' = 0
  BY DEF BeforeHandoff, HandedOver
<1>2. ASSUME UNCHANGED <<proc, sock, instance, start, boot>>,
             boot = "none" => manifest' = manifest
      PROVE  OnlyOne'
  BY <1>2, LoneKept DEF InHand
<1>3. ASSUME NEW D \in SUBSET Pid, NEW g \in BOOLEAN, Die(D, g),
             g => \E p \in D : Alive(p),
             UNCHANGED <<instance, start, boot, manifest>>
      PROVE  OnlyOne'
  BY <1>3, LoneDies
<1>4. CASE UserUpdate
  BY <1>2, <1>4 DEF UserUpdate, UpdateBegin
<1>5. CASE UpdateNext
  <2>1. HandoffRefused
    BY <1>1, <1>5
    DEF UpdateNext, HandoffLost, UpdateEscalate, UpdateExited, UpdateProbe
  <2>2. boot # "none"
    BY <2>1 DEF HandoffRefused, OneTask, TaskAlone
  <2> QED
    BY <1>2, <2>1, <2>2 DEF HandoffRefused, RestoreOnFailure
<1>6. ASSUME NEW p \in Pid, PidNext(p)
      PROVE  OnlyOne'
  <2>1. ~HandoffSpawn(p) /\ ~HandoffAck(p) /\ ~HandoffNak(p)
          /\ ~BindSuccessor(p)
    BY <1>1, SpawnNamed, SupervisorAssumption
    DEF HandoffAck, HandoffNak, BindSuccessor
  <2>2. CASE RunAutoUpdate(p) \/ AutoList(p)
    BY <1>2, <2>2 DEF RunAutoUpdate, UpdateBegin, AutoList
  <2>3. CASE Escalate(p)
    BY <1>3, <2>3 DEF Escalate, Tree
  <2>4. CASE Bind(p)
    <3>1. /\ \A x \in Pid : x # p => proc'[x] = proc[x]
          /\ proc'[p] = "up" /\ proc[p] = "starting" /\ sock' = p
          /\ UNCHANGED <<instance, start, boot, manifest>>
      BY <2>4 DEF Bind, TypeOK
    <3>2. \A x \in Pid : Alive(x)' => Alive(x)
      BY <3>1 DEF Alive
    <3>3. \A x \in Pid : proc'[x] \in {"up", "hung"} => x = p
      BY <3>1, AtMostOne DEF Alive
    <3> QED
      BY <3>1, <3>2, <3>3 DEF OnlyOne, InHand
  <2>5. CASE Leave(p)
    BY <2>5 DEF Leave, OnlyOne
  <2>6. CASE Terminated(p)
    <3>1. CASE Die({p}, TRUE)
      BY <1>3, <2>6, <3>1 DEF Terminated
    <3>2. CASE Die({p}, FALSE)
      BY <1>3, <2>6, <3>2 DEF Terminated
    <3> QED
      BY <2>6, <3>1, <3>2 DEF Terminated, Die
  <2> QED
    BY <1>6, <2>1, <2>2, <2>3, <2>4, <2>5, <2>6 DEF PidNext
<1>7. CASE ClientSessions \/ UNCHANGED vars
  BY <1>2, <1>7 DEF ClientSessions, vars
<1>8. CASE FaultNext
  <2>1. ASSUME NEW p \in Pid, Crash(p)
        PROVE  OnlyOne'
    BY <1>3, <2>1 DEF Crash
  <2>2. ASSUME NEW p \in Pid, Hang(p) \/ Resume(p)
        PROVE  OnlyOne'
    <3>1. /\ \A x \in Pid : x # p => proc'[x] = proc[x]
          /\ proc'[p] \in {"up", "hung"} /\ proc[p] \in {"up", "hung"}
          /\ UNCHANGED <<sock, instance, start, boot, manifest>>
      BY <2>2 DEF Hang, Resume, TypeOK
    <3> QED
      BY <3>1 DEF OnlyOne, InHand, Alive
  <2>3. ~HostCrash
    BY <1>1 DEF HostCrash
  <2> QED
    BY <1>8, <2>1, <2>2, <2>3 DEF FaultNext
<1> QED
  BY <1>4, <1>5, <1>6, <1>7, <1>8

LEMMA LoneStep ==
  ASSUME TypeOK, SuccessorsForeign, OneTask, HandedOver, LoneInv, [Next]_vars,
         [Unasked]_vars
  PROVE  LoneInv'
<1>1. SUFFICES ASSUME BeforeHandoff' PROVE OnlyOne'
  BY DEF LoneInv
<1>2. hostCrashes' = 0 => hostCrashes = 0
  BY StepFailures DEF TypeOK
<1>3. BeforeHandoff
  BY <1>1, <1>2, ParentsKept DEF BeforeHandoff
<1> QED
  BY <1>1, <1>3, LoneStarts, LoneDeaths, LoneRest, UnaskedMoves
  DEF LoneInv, OneTask

\* Without restarts and while host-service lives, the path leads to the
\* daemon in use until a handoff begins, however many daemons crash or hang: a
\* new one is spawned only when the one before it is gone.
THEOREM PathTrue == Spec /\ NoRestarts => [](hostCrashes = 0 => SocketIsInstances)
<1> DEFINE IInv == SparedInv /\ OpenInv /\ OneTask /\ HandedOver /\ LoneInv
<1>1. Init => IInv
  BY SparedInit, OpenInit, OneTaskInit, HandedOverInit, LoneInit
<1>2. TypeOK /\ IInv /\ [Next]_vars /\ [Unasked]_vars => IInv'
  BY SparedStep, SuccessorsStep, OpenStep, OneTaskStep, HandedOverStep, LoneStep
  DEF OpenInv, OpenNext, OneTask
<1>3. TypeOK /\ IInv => (hostCrashes = 0 => SocketIsInstances)
  BY DEF TypeOK, PidOrNone, LoneInv, BeforeHandoff, OnlyOne, SocketIsInstances
<1> QED
  BY <1>1, <1>2, <1>3, SupervisorTypes, PTL DEF Spec, NoRestarts
-----------------------------------------------------------------------------
(***************************************************************************)
(* Before the first failure.  The task in progress then says which         *)
(* processes live: the one that is started, or the one in use, or the two  *)
(* of a handoff.                                                           *)
(***************************************************************************)
\* Only a process that exists is signalled.
DoomedKnown == \A p \in doomed : proc[p] # "unused"

LEMMA StepDoomed ==
  ASSUME NobodyBusy, [Next]_vars, [Unasked]_vars
  PROVE  \/ doomed' = doomed
         \/ /\ start.pc \in {"connect", "probe", "spawn"}
            /\ doomed' = Signalled(start.pid)
            /\ \/ start' = [start EXCEPT !.pc = "kill"]
               \/ start' = [start EXCEPT !.pc = "abort"]
            /\ start.pc = "connect" => ~Connectable
            /\ start.pc = "probe" => ~Reachable
            /\ UNCHANGED <<proc, parent>>
BY UnaskedMoves
DEF osVars, memVars, taskVars, bounds, hostVars, vars, StartNext, Bootstrap,
    AdoptConnect, Adopt, AdoptProbeFails, AdoptReject, AdoptKilled, SpawnReady,
    SpawnTimeout, SpawnAborted, DeathNext, ExitIgnored, ExitExpected,
    ExitCrash, LivenessPoll, UpdateNext, UserUpdate, UpdateBegin,
    HandoffRefused, HandoffLost, UpdateEscalate, UpdateExited, UpdateProbe,
    PidNext, HandoffSpawn, HandoffAck, HandoffNak, RunAutoUpdate, AutoList,
    Escalate, Bind, BindSuccessor, Leave, Terminated, ClientSessions,
    FaultNext, Crash, Hang, Resume, HostCrash

LEMMA DoomedKnownStep ==
  ASSUME TypeOK, SparedInv, NobodyBusy, DoomedKnown, [Next]_vars,
         [Unasked]_vars
  PROVE  DoomedKnown'
<1>1. \A p \in Pid : proc[p] # "unused" => proc'[p] # "unused"
  BY StepMoves DEF Moves
<1>2. doomed \in SUBSET Pid
  BY DEF TypeOK
<1>3. CASE doomed' = doomed
  BY <1>1, <1>2, <1>3 DEF DoomedKnown
<1>4. CASE doomed' = Signalled(start.pid) /\ start.pc # "idle"
  <2>1. start.pid \in Pid
    BY <1>4, StartNamed
  <2>2. \A p \in Signalled(start.pid) : p \in Pid /\ proc[p] # "unused"
    BY <1>2, <2>1 DEF Signalled, Tree, Alive, DoomedKnown
  <2> QED
    BY <1>1, <1>4, <2>2 DEF DoomedKnown
<1> QED
  BY <1>3, <1>4, StepDoomed

Quiet == faults = 0 /\ hostCrashes = 0

\* A daemon that listens, or is about to: its predecessor is gone.
Serving(p) == \/ proc[p] = "up"
              \/ proc[p] = "adopting" /\ proc[parent[p]] = "dead"

QuietStart ==
    start.pc # "idle" =>
       /\ \A p \in Pid : Alive(p) => p = start.pid
       /\ start.pc \in {"connect", "probe"} => proc[start.pid] = "up"
       /\ start.pc = "spawn" => proc[start.pid] \in {"starting", "up"}
       /\ start.pc = "abort" => proc[start.pid] \in {"starting", "up", "dead"}
       /\ start.pc # "kill"

QuietRest ==
    start.pc = "idle" /\ upd.pc = "idle" =>
       /\ \A p \in Pid : Alive(p) => \/ p = instance
                                     \/ boot = "none" /\ p = manifest
       /\ instance # NoPid => Serving(instance)
       /\ boot = "none" /\ manifest # NoPid => proc[manifest] = "up"

QuietUpdate ==
    upd.pc # "idle" =>
       /\ \A p \in Pid : Alive(p) => p = upd.pid \/ p = upd.succ
       /\ upd.pc = "request"
            => instance = upd.pid /\ Serving(upd.pid) /\ upd.succ = NoPid
       /\ upd.pc # "request" => parent[upd.succ] = upd.pid
       /\ upd.pc = "ack" => /\ instance = upd.pid /\ proc[upd.pid] = "up"
                            /\ proc[upd.succ] = "adopting"
       /\ upd.pc = "exit" => /\ proc[upd.pid] \in {"leaving", "dead"}
                             /\ \/ proc[upd.succ] = "adopting"
                                \/ /\ proc[upd.pid] = "dead"
                                   /\ proc[upd.succ] = "up"
       /\ upd.pc = "probe" => proc[upd.pid] = "dead" /\ Serving(upd.succ)

QuietPath ==
    \A p \in Pid : /\ proc[p] = "up" => sock = p
                   /\ proc[p] # "hung"
                   /\ p \in doomed /\ Alive(p) => start.pc = "abort"

QuietState == QuietStart /\ QuietRest /\ QuietUpdate /\ QuietPath
QuietInv == Quiet => QuietState
QuietNext == QuietStart' /\ QuietRest' /\ QuietUpdate' /\ QuietPath'

LEMMA QuietInit == Init => DoomedKnown /\ QuietInv
<1> SUFFICES ASSUME Init PROVE DoomedKnown /\ QuietState
  BY DEF QuietInv
<1>1. /\ doomed = {} /\ start.pc = "idle" /\ upd.pc = "idle"
      /\ instance = NoPid /\ boot = "none"
  BY DEF Init, StartIdle, UpdIdle
<1>2. PICK old \in PidOrNone :
        /\ proc = [p \in Pid |-> IF p = old THEN "up" ELSE "unused"]
        /\ sock = old /\ manifest = old
  BY DEF Init
<1> QED
  BY <1>1, <1>2, SupervisorAssumption
  DEF DoomedKnown, QuietState, QuietStart, QuietRest, QuietUpdate, QuietPath,
      Alive, PidOrNone

\* Nobody lives, and another may be coming up.
LEMMA QuietGone ==
  ASSUME TypeOK, DoomedKnown, \A p \in Pid : ~Alive(p), UNCHANGED doomed,
         instance' = NoPid, upd'.pc = "idle", manifest' = NoPid,
         \/ start'.pc = "idle" /\ proc' = proc
         \/ \E c : Launch(c)
  PROVE  QuietNext
<1>1. CASE start'.pc = "idle" /\ proc' = proc
  BY <1>1
  DEF QuietNext, QuietStart, QuietRest, QuietUpdate, QuietPath, Alive
<1>2. ASSUME NEW c, Launch(c)
      PROVE  QuietNext
  <2>1. PICK p \in Pid : /\ proc[p] = "unused"
                         /\ proc' = [proc EXCEPT ![p] = "starting"]
                         /\ start' = [pc |-> "spawn", pid |-> p]
    BY <1>2 DEF Launch
  <2>2. \A x \in Pid : x # p => proc'[x] \in {"unused", "dead"}
    BY <2>1 DEF Alive, TypeOK
  <2>3. proc'[p] = "starting" /\ start'.pc = "spawn" /\ start'.pid = p
    BY <2>1 DEF TypeOK
  <2>4. p \notin doomed'
    BY <2>1 DEF DoomedKnown
  <2> QED
    BY <2>2, <2>3, <2>4
    DEF QuietNext, QuietStart, QuietRest, QuietUpdate, QuietPath, Alive
<1> QED
  BY <1>1, <1>2

\* Nothing changes that the state is about.
LEMMA QuietKept ==
  ASSUME QuietState,
         UNCHANGED <<proc, parent, sock, doomed, start, upd, instance, boot,
                     manifest>>
  PROVE  QuietNext
BY DEF QuietState, QuietNext, QuietStart, QuietRest, QuietUpdate, QuietPath,
       Serving, Alive

LEMMA QuietStarts ==
  ASSUME TypeOK, OneTask, DoomedKnown, QuietState, StartNext
  PROVE  QuietNext
<1> USE DEF osVars, memVars, taskVars, bounds
<1>1. CASE Bootstrap
  <2>1. /\ boot = "none" /\ start.pc = "idle" /\ upd.pc = "idle"
        /\ instance = NoPid
        /\ UNCHANGED <<parent, instance, sock, doomed, upd>>
        /\ Ensure(manifest, child, circuitOpen, instance)
        /\ boot' = IF circuitOpen THEN "none"
                   ELSE IF instance # NoPid THEN "ok"
                   ELSE IF start'.pc = "idle" THEN "none" ELSE "pending"
    BY <1>1 DEF Bootstrap, OneTask, TaskAlone
  <2>2. /\ \A p \in Pid : Alive(p) => p = manifest
        /\ manifest # NoPid => proc[manifest] = "up"
    BY <2>1, SupervisorAssumption DEF QuietState, QuietRest
  <2>3. CASE Refused(circuitOpen, instance)
    <3>1. circuitOpen
      BY <2>1, <2>3 DEF Refused
    <3>2. UNCHANGED <<proc, start, manifest>> /\ boot' = "none"
      BY <2>1, <2>3, <3>1 DEF Ensure
    <3> QED
      BY <2>1, <3>2, QuietKept
  <2>4. CASE ~Refused(circuitOpen, instance) /\ Adoptable(manifest)
    <3>1. /\ start' = [pc |-> "connect", pid |-> manifest]
          /\ UNCHANGED <<proc, manifest>> /\ manifest # NoPid
      BY <2>1, <2>4 DEF Ensure, Adoptable
    <3>2. /\ start'.pc = "connect" /\ start'.pid = manifest
          /\ upd'.pc = "idle"
      BY <2>1, <3>1
    <3>3. QuietStart' /\ QuietRest' /\ QuietUpdate'
      BY <2>2, <3>1, <3>2 DEF QuietStart, QuietRest, QuietUpdate, Alive
    <3>4. QuietPath'
      BY <2>1, <3>1 DEF QuietState, QuietPath, Alive
    <3> QED
      BY <3>3, <3>4 DEF QuietNext
  <2>5. CASE ~Refused(circuitOpen, instance) /\ ~Adoptable(manifest)
    <3>1. manifest = NoPid
      BY <2>2, <2>5 DEF Adoptable, Gone
    <3>2. \A p \in Pid : ~Alive(p)
      BY <2>2, <3>1, SupervisorAssumption
    <3>3. /\ UNCHANGED <<proc, start>> \/ Launch(child)
          /\ manifest' = NoPid
      BY <2>1, <2>5 DEF Ensure, LaunchFails
    <3> QED
      BY <2>1, <3>2, <3>3, QuietGone
  <2> QED
    BY <2>3, <2>4, <2>5
<1>2. ASSUME start.pc # "idle"
      PROVE  /\ upd.pc = "idle" /\ instance = NoPid /\ boot # "none"
             /\ \A p \in Pid : Alive(p) => p = start.pid
             /\ start.pid \in Pid
             /\ start.pc \in {"connect", "probe"}
                  => proc[start.pid] = "up" /\ sock = start.pid
             /\ start.pc = "spawn" => proc[start.pid] \in {"starting", "up"}
             /\ proc[start.pid] = "up" => sock = start.pid
             /\ start.pc # "kill"
  BY <1>2, StartNamed
  DEF OneTask, TaskAlone, QuietState, QuietStart, QuietPath
<1>3. CASE AdoptConnect \/ AdoptProbeFails
  <2>1. start.pc \in {"connect", "probe"} /\ Connectable /\ Reachable
    BY <1>2, <1>3, SupervisorAssumption
    DEF AdoptConnect, AdoptProbeFails, Connectable, Reachable
  <2>2. /\ start.pc = "connect" /\ start' = [start EXCEPT !.pc = "probe"]
        /\ UNCHANGED <<proc, parent, sock, doomed, upd, instance, boot,
                       manifest>>
    BY <1>3, <2>1 DEF AdoptConnect, AdoptProbeFails
  <2>3. start'.pc = "probe" /\ start'.pid = start.pid
    BY <2>1, <2>2, StartNamed
  <2> QED
    BY <1>2, <2>2, <2>3
    DEF QuietState, QuietNext, QuietStart, QuietRest, QuietUpdate, QuietPath,
        Serving, Alive
<1>4. CASE Adopt \/ SpawnReady
  <2>1. /\ start.pc \in {"probe", "spawn"} /\ instance' = start.pid
        /\ UNCHANGED <<proc, parent, sock, doomed, upd>>
        /\ StartDone(TRUE)
        /\ start.pc = "spawn" => Connectable
    BY <1>4 DEF Adopt, SpawnReady
  <2>2. start'.pc = "idle" /\ boot' # "none"
    BY <1>2, <2>1 DEF StartDone, StartIdle
  <2>3. proc[start.pid] = "up"
    <3>1. Connectable => Alive(sock) /\ sock \in Pid /\ proc[sock] \in {"up", "hung"}
      BY DEF Connectable, Alive, TypeOK, PidOrNone
    <3>2. \A p \in Pid : proc[p] # "hung"
      BY DEF QuietState, QuietPath
    <3> QED
      BY <1>2, <2>1, <3>1, <3>2
  <2> QED
    BY <1>2, <2>1, <2>2, <2>3
    DEF QuietState, QuietNext, QuietStart, QuietRest, QuietUpdate, QuietPath,
        Serving, Alive
<1>5. CASE AdoptKilled
  BY <1>2, <1>5 DEF AdoptKilled
<1>6. CASE SpawnTimeout
  <2>1. /\ start.pc = "spawn" /\ ~Connectable
        /\ start' = [start EXCEPT !.pc = "abort"]
        /\ doomed' = Signalled(start.pid)
        /\ UNCHANGED <<proc, parent, sock, upd, instance, boot, manifest>>
    BY <1>6 DEF SpawnTimeout
  <2>2. start'.pc = "abort" /\ start'.pid = start.pid
    BY <2>1, StartNamed
  <2> QED
    BY <1>2, <2>1, <2>2
    DEF QuietState, QuietNext, QuietStart, QuietRest, QuietUpdate, QuietPath,
        Serving, Alive
<1>7. CASE SpawnAborted
  <2>1. /\ start.pc = "abort" /\ Gone(start.pid) /\ StartDone(FALSE)
        /\ UNCHANGED <<proc, parent, sock, doomed, upd, instance, manifest>>
    BY <1>7 DEF SpawnAborted
  <2>2. /\ start'.pc = "idle" /\ manifest = NoPid
        /\ \A p \in Pid : ~Alive(p)
    BY <1>2, <2>1
    DEF StartDone, StartIdle, OneTask, ManifestFollows, Gone, Alive
  <2> QED
    BY <1>2, <2>1, <2>2, QuietGone
<1> QED
  BY <1>1, <1>3, <1>4, <1>5, <1>6, <1>7 DEF StartNext

LEMMA QuietDeaths ==
  ASSUME TypeOK, OneTask, DoomedKnown, QuietState, NEW p \in Pid, DeathNext(p)
  PROVE  QuietNext
<1> USE DEF osVars, memVars, taskVars, bounds
<1>0. p # NoPid
  BY SupervisorAssumption
<1>1. CASE ExitIgnored(p)
  BY <1>1, QuietKept DEF ExitIgnored
<1>2. ASSUME instance = p, proc[p] = "dead", instance' = NoPid,
             UNCHANGED <<proc, parent, sock, doomed, start, upd, boot>>,
             upd.pc # "idle"
      PROVE  QuietNext
  <2>1. upd.pc \notin {"request", "ack"} /\ start.pc = "idle" /\ boot = "ok"
    BY <1>0, <1>2
    DEF OneTask, TaskAlone, QuietState, QuietUpdate, Serving
  <2> QED
    BY <1>2, <2>1
    DEF QuietState, QuietNext, QuietStart, QuietRest, QuietUpdate, QuietPath,
        Serving, Alive
<1>3. ASSUME instance = p, proc[p] = "dead"
      PROVE  upd.pc # "idle"
  <2>1. start.pc = "idle"
    BY <1>0, <1>3 DEF OneTask, TaskAlone
  <2> QED
    BY <1>0, <1>3, <2>1 DEF QuietState, QuietRest, Serving
<1>4. CASE ExitExpected(p)
  BY <1>2, <1>3, <1>4 DEF ExitExpected, InstanceExits
<1>5. ASSUME NEW n \in 1..(crashes + 1), ExitCrash(p, n)
      PROVE  FALSE
  <2>1. instance = p /\ proc[p] = "dead" /\ ~stopping
    BY <1>5 DEF ExitCrash, InstanceExits
  <2> QED
    BY <1>0, <1>3, <2>1 DEF OneTask, TaskAlone
<1>6. CASE LivenessPoll(p)
  <2>1. CASE instance = p
    BY <1>2, <1>3, <1>6, <2>1 DEF LivenessPoll, Gone
  <2> QED
    BY <1>6, <2>1, QuietKept DEF LivenessPoll
<1> QED
  BY <1>1, <1>4, <1>5, <1>6 DEF DeathNext

\* During an update: who lives, and which daemon listens.
LEMMA QuietUpdating ==
  ASSUME TypeOK, OneTask, HandedOver, QuietState, upd.pc # "idle"
  PROVE  /\ start.pc = "idle" /\ boot = "ok" /\ upd.pid \in Pid
         /\ instance = upd.pid \/ instance = NoPid
         /\ \A p \in Pid : Alive(p) => p = upd.pid \/ p = upd.succ
         /\ \A p \in Pid : proc[p] = "up" => sock = p
         /\ \A p \in doomed : ~Alive(p)
         /\ upd.pc # "request" => upd.succ \in Pid /\ upd.succ # upd.pid
<1>1. start.pc = "idle" /\ boot = "ok"
  BY DEF OneTask, TaskAlone, TypeOK
<1>2. doomed \in SUBSET Pid
  BY DEF TypeOK
<1>3. ASSUME upd.pc # "request"
      PROVE  upd.succ \in Pid /\ upd.succ # upd.pid
  <2>1. upd.pc \in {"ack", "exit", "probe"}
    BY <1>3, UpdateNamed
  <2>2. parent[upd.succ] = upd.pid
    BY <1>3 DEF QuietState, QuietUpdate
  <2> QED
    BY <2>1, <2>2 DEF HandedOver, QuietState, QuietUpdate, Serving
<1> QED
  BY <1>1, <1>2, <1>3, UpdateNamed
  DEF OneTask, TaskAlone, QuietState, QuietUpdate, QuietPath

LEMMA QuietUpdates ==
  ASSUME TypeOK, OneTask, HandedOver, QuietState, UserUpdate \/ UpdateNext
  PROVE  QuietNext
<1> USE DEF osVars, memVars, taskVars, bounds
<1>1. ASSUME NEW o, UpdateBegin(o)
      PROVE  QuietNext
  <2>1. /\ upd.pc = "idle" /\ instance # NoPid
        /\ upd'.pc = "request" /\ upd'.pid = instance /\ upd'.succ = NoPid
        /\ UNCHANGED <<proc, parent, sock, doomed, start, instance, boot,
                       manifest>>
    BY <1>1 DEF UpdateBegin
  <2>2. start.pc = "idle" /\ boot = "ok"
    BY <2>1 DEF OneTask, TaskAlone
  <2> QED
    BY <2>1, <2>2
    DEF QuietState, QuietNext, QuietStart, QuietRest, QuietUpdate, QuietPath,
        Serving, Alive
<1>2. CASE UserUpdate
  BY <1>1, <1>2 DEF UserUpdate
<1>3. ASSUME upd.pc = "request"
      PROVE  upd.succ = NoPid /\ instance = upd.pid /\ Serving(upd.pid)
  BY <1>3 DEF QuietState, QuietUpdate
<1>4. CASE HandoffRefused
  <2>1. /\ upd.pc = "request" /\ upd'.pc = "idle"
        /\ UNCHANGED <<proc, parent, sock, doomed, start, instance, boot>>
    BY <1>4 DEF HandoffRefused, RestoreOnFailure, UpdateEnds, UpdIdle
  <2> QED
    BY <1>3, <2>1, QuietUpdating, SupervisorAssumption
    DEF QuietState, QuietNext, QuietStart, QuietRest, QuietUpdate, QuietPath,
        Serving, Alive
<1>5. CASE HandoffLost
  BY <1>5 DEF HandoffLost, QuietState, QuietUpdate
<1>6. CASE UpdateEscalate
  <2>1. /\ upd.pc = "exit" /\ Alive(upd.pid) /\ sock' = sock
        /\ \A x \in Pid : proc'[x] = IF x = upd.pid THEN "dead" ELSE proc[x]
        /\ UNCHANGED <<parent, doomed, start, upd, instance, boot, manifest>>
    BY <1>6 DEF UpdateEscalate, Die
  <2>2. proc[upd.pid] = "leaving" /\ proc[upd.succ] = "adopting"
    BY <2>1 DEF QuietState, QuietUpdate, Alive
  <2> QED
    BY <2>1, <2>2, QuietUpdating
    DEF QuietState, QuietNext, QuietStart, QuietRest, QuietUpdate, QuietPath,
        Serving, Alive
<1>7. CASE UpdateExited
  <2>1. /\ upd.pc = "exit" /\ proc[upd.pid] = "dead"
        /\ upd'.pc = "probe" /\ upd'.pid = upd.pid /\ upd'.succ = upd.succ
        /\ UNCHANGED <<proc, parent, sock, doomed, start, instance, boot,
                       manifest>>
    BY <1>7, UpdateNamed DEF UpdateExited, Gone
  <2> QED
    BY <2>1, QuietUpdating
    DEF QuietState, QuietNext, QuietStart, QuietRest, QuietUpdate, QuietPath,
        Serving, Alive
<1>8. CASE UpdateProbe
  <2>1. /\ upd.pc = "probe" /\ upd'.pc = "idle" /\ instance' = upd.succ
        /\ UNCHANGED <<proc, parent, sock, doomed, start, boot>>
    BY <1>8 DEF UpdateProbe, UpdateEnds, UpdIdle
  <2>2. proc[upd.pid] = "dead" /\ Serving(upd.succ)
    BY <2>1 DEF QuietState, QuietUpdate
  <2> QED
    BY <2>1, <2>2, QuietUpdating
    DEF QuietState, QuietNext, QuietStart, QuietRest, QuietUpdate, QuietPath,
        Serving, Alive
<1> QED
  BY <1>2, <1>4, <1>5, <1>6, <1>7, <1>8 DEF UpdateNext

\* A daemon that still waits for its predecessor is the successor of the
\* update in progress, or its predecessor is gone.
LEMMA QuietAdopting ==
  ASSUME TypeOK, OneTask, HandedOver, QuietState, NEW q \in Pid,
         proc[q] = "adopting"
  PROVE  \/ upd.pc = "ack" /\ q = upd.succ
         \/ upd.pc = "exit" /\ q = upd.succ
         \/ proc[parent[q]] = "dead" /\ \A p \in Pid : Alive(p) => p = q
<1>1. Alive(q) /\ q # NoPid
  BY SupervisorAssumption DEF Alive
<1>2. CASE start.pc # "idle"
  BY <1>1, <1>2, StartNamed DEF QuietState, QuietStart
<1>3. CASE start.pc = "idle" /\ upd.pc = "idle"
  <2>1. instance = q
    BY <1>1, <1>3 DEF QuietState, QuietRest
  <2>2. boot = "ok"
    BY <1>1, <2>1 DEF OneTask, TaskAlone
  <2> QED
    BY <1>1, <1>3, <2>1, <2>2 DEF QuietState, QuietRest, Serving
<1>4. CASE upd.pc # "idle"
  <2>1. q = upd.pid \/ q = upd.succ
    BY <1>1, <1>4, QuietUpdating
  <2>2. CASE upd.pc = "request"
    <3>1. upd.succ = NoPid /\ Serving(upd.pid)
      BY <2>2 DEF QuietState, QuietUpdate
    <3> QED
      BY <1>1, <1>4, <2>1, <3>1, QuietUpdating, SupervisorAssumption DEF Serving
  <2>3. CASE upd.pc = "probe"
    BY <1>1, <1>4, <2>1, <2>3, QuietUpdating
    DEF QuietState, QuietUpdate, Serving, Alive
  <2>4. CASE upd.pc \in {"ack", "exit"}
    BY <2>1, <2>4 DEF QuietState, QuietUpdate
  <2> QED
    BY <1>4, <2>2, <2>3, <2>4, UpdateNamed
<1> QED
  BY <1>2, <1>3, <1>4

\* All but the processes of D stay, and those of D die.
LEMMA DieProcs ==
  ASSUME NEW D, NEW g, Die(D, g)
  PROVE  \A x \in Pid : proc'[x] = IF x \in D THEN "dead" ELSE proc[x]
BY DEF Die

LEMMA QuietHandoffs ==
  ASSUME TypeOK, OneTask, HandedOver, DoomedKnown, QuietState, NEW q \in Pid,
         HandoffSpawn(q) \/ HandoffAck(q) \/ HandoffNak(q)
  PROVE  QuietNext
<1> USE DEF osVars, memVars, taskVars, bounds
<1>1. CASE HandoffSpawn(q)
  <2>1. /\ upd.pc = "request" /\ upd'.pc = "ack" /\ upd'.succ = q
        /\ upd'.pid = upd.pid /\ upd.pid \in Pid
        /\ sock \in Pid /\ sock # q /\ proc[sock] = "up" /\ proc[q] = "unused"
        /\ parent'[q] = sock /\ \A x \in Pid \ {q} : parent'[x] = parent[x]
        /\ proc'[q] = "adopting" /\ \A x \in Pid \ {q} : proc'[x] = proc[x]
    BY <1>1, SpawnNamed
  <2>2. UNCHANGED <<sock, doomed, start, instance, boot, manifest>>
    BY <1>1 DEF HandoffSpawn
  <2>3. instance = upd.pid /\ upd.succ = NoPid
    BY <2>1 DEF QuietState, QuietUpdate
  <2>4. sock = upd.pid
    BY <2>1, <2>3, QuietUpdating, SupervisorAssumption DEF Alive
  <2>5. \A p \in Pid : p \in doomed => ~Alive(p)
    BY <2>1, QuietUpdating
  <2>6. q \notin doomed
    BY <2>1 DEF DoomedKnown
  <2>7. QuietPath'
    BY <2>1, <2>2, <2>5, <2>6 DEF QuietState, QuietPath, Alive
  <2>8. QuietUpdate'
    BY <2>1, <2>2, <2>3, <2>4, QuietUpdating, SupervisorAssumption
    DEF QuietUpdate, Alive
  <2> QED
    BY <2>1, <2>2, <2>7, <2>8, QuietUpdating
    DEF QuietNext, QuietStart, QuietRest
<1>2. ASSUME proc[q] = "adopting", proc[parent[q]] = "up"
      PROVE  /\ upd.pc = "ack" /\ q = upd.succ /\ parent[q] = upd.pid
             /\ instance = upd.pid
  <2>1. upd.pc \in {"ack", "exit"} /\ q = upd.succ
    BY <1>2, QuietAdopting
  <2>2. parent[q] = upd.pid
    BY <2>1 DEF QuietState, QuietUpdate
  <2> QED
    BY <1>2, <2>1, <2>2 DEF QuietState, QuietUpdate
<1>3. CASE HandoffAck(q)
  <2>1. upd.pc = "ack" /\ q = upd.succ /\ parent[q] = upd.pid
    BY <1>2, <1>3 DEF HandoffAck
  <2>2. /\ upd'.pc = "exit" /\ upd'.pid = upd.pid /\ upd'.succ = upd.succ
        /\ UNCHANGED <<parent, sock, doomed, start, instance, boot, manifest>>
    BY <1>3, <2>1, UpdateNamed DEF HandoffAck
  <2>3. /\ proc'[upd.pid] = "leaving"
        /\ \A x \in Pid \ {upd.pid} : proc'[x] = proc[x]
    BY <1>3, <2>1, UpdateNamed DEF HandoffAck, TypeOK
  <2>4. proc[upd.pid] = "up" /\ proc[upd.succ] = "adopting"
    BY <2>1 DEF QuietState, QuietUpdate
  <2> QED
    BY <2>1, <2>2, <2>3, <2>4, QuietUpdating
    DEF QuietState, QuietNext, QuietStart, QuietRest, QuietUpdate, QuietPath,
        Serving, Alive
<1>4. CASE HandoffNak(q)
  <2>1. proc[q] = "adopting"
    BY <1>4 DEF HandoffNak, QuietState, QuietUpdate
  <2>2. /\ upd.pc = "ack" /\ q = upd.succ /\ parent[q] = upd.pid
        /\ instance = upd.pid
    BY <1>2, <1>4, <2>1 DEF HandoffNak
  <2>3. /\ upd'.pc = "idle" /\ sock' = sock
        /\ UNCHANGED <<parent, doomed, start, instance, boot>>
    BY <1>4, <2>2
    DEF HandoffNak, RestoreOnFailure, UpdateEnds, UpdIdle, Die
  <2>4. \A x \in Pid : proc'[x] = IF x = q THEN "dead" ELSE proc[x]
    BY <1>4, DieProcs DEF HandoffNak
  <2>5. proc[upd.pid] = "up"
    BY <2>2 DEF QuietState, QuietUpdate
  <2> QED
    BY <2>1, <2>2, <2>3, <2>4, <2>5, QuietUpdating
    DEF QuietState, QuietNext, QuietStart, QuietRest, QuietUpdate, QuietPath,
        Serving, Alive
<1> QED
  BY <1>1, <1>3, <1>4

LEMMA QuietDaemons ==
  ASSUME TypeOK, OneTask, HandedOver, DoomedKnown, QuietState, NEW q \in Pid,
         PidNext(q)
  PROVE  QuietNext
<1> USE DEF osVars, memVars, taskVars, bounds, hostVars
<1>1. CASE RunAutoUpdate(q)
  <2>1. CASE UpdateBegin(q)
    <3>1. /\ upd.pc = "idle" /\ instance # NoPid
          /\ upd'.pc = "request" /\ upd'.pid = instance /\ upd'.succ = NoPid
          /\ UNCHANGED <<proc, parent, sock, doomed, start, instance, boot,
                         manifest>>
      BY <2>1 DEF UpdateBegin
    <3>2. start.pc = "idle" /\ boot = "ok"
      BY <3>1 DEF OneTask, TaskAlone
    <3> QED
      BY <3>1, <3>2
      DEF QuietState, QuietNext, QuietStart, QuietRest, QuietUpdate,
          QuietPath, Serving, Alive
  <2> QED
    BY <1>1, <2>1, QuietKept DEF RunAutoUpdate
<1>2. CASE AutoList(q)
  BY <1>2, QuietKept DEF AutoList
\* Nobody else lives when one binds, is told to end, or is killed.
<1>3. ASSUME \A p \in Pid : Alive(p) => p = q, Alive(q), proc'[q] = "up",
             \A x \in Pid \ {q} : proc'[x] = proc[x], sock' = q,
             UNCHANGED <<parent, doomed, start, upd, instance, boot, manifest>>,
             \/ start.pc # "idle" /\ start.pid = q
             \/ proc[q] = "adopting" /\ proc[parent[q]] = "dead"
      PROVE  QuietNext
  <2>1. CASE start.pc # "idle"
    <3>1. upd.pc = "idle" /\ instance = NoPid /\ start.pid = q
      BY <1>3, <2>1 DEF OneTask, TaskAlone, QuietState, QuietStart
    <3> QED
      BY <1>3, <2>1, <3>1
      DEF QuietState, QuietNext, QuietStart, QuietRest, QuietUpdate,
          QuietPath, Serving, Alive
  <2>2. CASE start.pc = "idle"
    <3>1. CASE upd.pc = "idle"
      <4>1. instance = q
        BY <1>3, <2>2, <3>1, SupervisorAssumption DEF QuietState, QuietRest
      <4>2. boot # "none"
        BY <4>1, SupervisorAssumption DEF OneTask, TaskAlone
      <4> QED
        BY <1>3, <2>2, <3>1, <4>1, <4>2
        DEF QuietState, QuietNext, QuietStart, QuietRest, QuietUpdate,
            QuietPath, Serving, Alive
    <3>2. CASE upd.pc # "idle"
      BY <1>3, <2>2, <3>2, QuietUpdating
      DEF QuietState, QuietNext, QuietStart, QuietRest, QuietUpdate,
          QuietPath, Serving, Alive
    <3> QED
      BY <3>1, <3>2
  <2> QED
    BY <2>1, <2>2
<1>4. ASSUME NEW p \in Pid, Alive(p), ~(upd.pc # "idle"), proc[p] = "starting"
      PROVE  start.pc # "idle" /\ start.pid = p
  <2>1. CASE start.pc = "idle"
    BY <1>4, <2>1, SupervisorAssumption DEF QuietState, QuietRest, Serving
  <2> QED
    BY <1>4, <2>1 DEF QuietState, QuietStart
<1>5. CASE Bind(q)
  <2>1. upd.pc = "idle"
    BY <1>5, QuietUpdating, UpdateNamed, SupervisorAssumption
    DEF Bind, QuietState, QuietUpdate, Serving, Alive
  <2>2. start.pc # "idle" /\ start.pid = q
    BY <1>4, <1>5, <2>1 DEF Bind, Alive
  <2>3. \A p \in Pid : Alive(p) => p = q
    BY <2>2 DEF QuietState, QuietStart
  <2>4. proc'[q] = "up" /\ \A x \in Pid \ {q} : proc'[x] = proc[x]
    BY <1>5 DEF Bind, TypeOK
  <2> QED
    BY <1>3, <1>5, <2>2, <2>3, <2>4 DEF Bind, Alive
<1>6. CASE BindSuccessor(q)
  <2>1. proc[q] = "adopting" /\ proc[parent[q]] = "dead"
    BY <1>6 DEF BindSuccessor
  <2>2. CASE upd.pc = "exit" /\ q = upd.succ
    <3>1. \A p \in Pid : Alive(p) => p = q
      BY <2>1, <2>2, QuietUpdating DEF QuietState, QuietUpdate, Alive
    <3> QED
      BY <1>3, <1>6, <2>1, <3>1 DEF BindSuccessor, TypeOK, Alive
  <2>3. CASE \A p \in Pid : Alive(p) => p = q
    BY <1>3, <1>6, <2>1, <2>3 DEF BindSuccessor, TypeOK, Alive
  <2>4. ~(upd.pc = "ack" /\ q = upd.succ)
    BY <2>1 DEF QuietState, QuietUpdate
  <2> QED
    BY <2>1, <2>2, <2>3, <2>4, QuietAdopting
<1>7. CASE Leave(q)
  <2>1. proc[q] = "leaving" /\ Alive(q)
    BY <1>7 DEF Leave, Alive
  <2>2. CASE upd.pc = "idle"
    BY <2>1, <2>2, StartNamed, SupervisorAssumption
    DEF QuietState, QuietStart, QuietRest, Serving
  <2>3. CASE upd.pc # "idle"
    <3>1. upd.pc = "exit" /\ q = upd.pid
      BY <2>1, <2>3, QuietUpdating, UpdateNamed, SupervisorAssumption
      DEF QuietState, QuietUpdate, Serving
    <3>2. /\ \A x \in Pid : proc'[x] = IF x = q THEN "dead" ELSE proc[x]
          /\ UNCHANGED <<parent, doomed, start, upd, instance, boot, manifest>>
      BY <1>7, DieProcs DEF Leave
    <3>3. proc[upd.succ] = "adopting"
      BY <2>1, <3>1 DEF QuietState, QuietUpdate
    <3> QED
      BY <2>1, <3>1, <3>2, <3>3, QuietUpdating
      DEF QuietState, QuietNext, QuietStart, QuietRest, QuietUpdate,
          QuietPath, Serving, Alive
  <2> QED
    BY <2>2, <2>3
<1>8. ASSUME start.pc = "abort", start.pid = q, proc'[q] = "dead",
             \A x \in Pid : x # q => proc'[x] \in {proc[x], "dead"},
             UNCHANGED <<doomed, start, upd, instance, boot, manifest>>
      PROVE  QuietNext
  <2>1. /\ upd.pc = "idle" /\ instance = NoPid
        /\ \A p \in Pid : Alive(p) => p = q
    BY <1>8 DEF OneTask, TaskAlone, QuietState, QuietStart
  <2>2. \A p \in Pid : ~Alive(p)'
    BY <1>8, <2>1 DEF Alive
  <2> QED
    BY <1>8, <2>1, <2>2
    DEF QuietNext, QuietStart, QuietRest, QuietUpdate, QuietPath, Alive
<1>9. CASE Escalate(q)
  <2>1. /\ start.pc = "abort" /\ start.pid = q
    BY <1>9
    DEF Escalate, Awaited, OneTask, NobodyBusy, Busy, QuietState, QuietStart
  <2>2. \A x \in Pid : proc'[x] = IF x \in Tree(q) THEN "dead" ELSE proc[x]
    BY <1>9, DieProcs DEF Escalate
  <2> QED
    BY <1>8, <1>9, <2>1, <2>2 DEF Escalate, Tree
<1>10. CASE Terminated(q)
  <2>1. start.pc = "abort" /\ Alive(q)
    BY <1>10 DEF Terminated, QuietState, QuietPath
  <2>2. start.pid = q
    BY <2>1 DEF QuietState, QuietStart
  <2>3. \A x \in Pid : proc'[x] = IF x \in {q} THEN "dead" ELSE proc[x]
    BY <1>10, DieProcs DEF Terminated
  <2> QED
    BY <1>8, <1>10, <2>1, <2>2, <2>3 DEF Terminated
<1> QED
  BY <1>1, <1>2, <1>5, <1>6, <1>7, <1>9, <1>10, QuietHandoffs
  DEF PidNext

LEMMA QuietOutside ==
  ASSUME TypeOK, QuietState, ClientSessions \/ FaultNext \/ UNCHANGED vars,
         UNCHANGED <<faults, hostCrashes>>
  PROVE  QuietNext
<1> USE DEF osVars, memVars, taskVars, bounds, hostVars
<1>1. ~FaultNext
  <2>1. faults \in Nat /\ hostCrashes \in Nat
    BY DEF TypeOK
  <2>2. ~Fault
    BY <2>1 DEF Fault
  <2>3. \A p \in Pid : ~Resume(p)
    BY DEF Resume, QuietState, QuietPath
  <2>4. ~HostCrash
    BY <2>1 DEF HostCrash
  <2> QED
    BY <2>2, <2>3, <2>4 DEF FaultNext, Crash, Hang
<1> QED
  BY <1>1, QuietKept DEF ClientSessions, vars

LEMMA QuietStep ==
  ASSUME TypeOK, OneTask, HandedOver, DoomedKnown, QuietInv, [Next]_vars,
         [Unasked]_vars
  PROVE  QuietInv'
<1>1. SUFFICES ASSUME Quiet' PROVE QuietNext
  BY DEF QuietInv, QuietNext, QuietState
<1>2. Quiet /\ UNCHANGED <<faults, hostCrashes>>
  BY <1>1, StepFailures DEF Quiet, TypeOK
<1>3. QuietState
  BY <1>2 DEF QuietInv
<1> QED
  BY <1>2, <1>3, QuietStarts, QuietDeaths, QuietUpdates, QuietDaemons,
     QuietOutside, UnaskedMoves
  DEF OneTask

\* Without restarts, updates leave no daemon behind that holds sessions which
\* no client reaches, unless a daemon or host-service has failed: an update
\* that fails has ended its successor, and one that succeeds its predecessor.
THEOREM SessionsKept == Spec /\ NoRestarts => [](hostCrashes = 0 => SessionsReachable)
<1> DEFINE IInv == SparedInv /\ OpenInv /\ OneTask /\ HandedOver /\ DoomedKnown
                     /\ QuietInv
<1>1. Init => IInv
  BY SparedInit, OpenInit, OneTaskInit, HandedOverInit, QuietInit
<1>2. TypeOK /\ IInv /\ [Next]_vars /\ [Unasked]_vars => IInv'
  BY SparedStep, SuccessorsStep, OpenStep, OneTaskStep, HandedOverStep,
     DoomedKnownStep, QuietStep
  DEF OpenInv, OpenNext, OneTask
<1>3. TypeOK /\ IInv => (hostCrashes = 0 => SessionsReachable)
  <2> SUFFICES ASSUME TypeOK, IInv, Settled, faults = 0, hostCrashes = 0,
                      NEW p \in Pid, Alive(p)
               PROVE  sock = p
    BY DEF SessionsReachable
  <2>1. QuietState /\ start.pc = "idle" /\ upd.pc = "idle" /\ boot = "ok"
    BY DEF QuietInv, Quiet, Settled
  <2>2. p = instance /\ p # NoPid
    BY <2>1, SupervisorAssumption DEF QuietState, QuietRest
  <2>3. proc[p] = "up"
    BY <2>1, <2>2 DEF QuietState, QuietRest, Serving, Settled
  <2> QED
    BY <2>1, <2>3 DEF QuietState, QuietPath
<1> QED
  BY <1>1, <1>2, <1>3, SupervisorTypes, PTL DEF Spec, NoRestarts
-----------------------------------------------------------------------------
(***************************************************************************)
(* One failure.  A child that dies before its start is over has no handler *)
(* yet: then no other daemon may answer on the path in its place.          *)
(***************************************************************************)
ParentsKnown ==
    \A q \in Pid : parent[q] \in Pid => proc[parent[q]] # "unused"

\* The child of the start in progress: nobody but a fault has ended it.
SpawnIntact ==
    start.pc = "spawn" =>
       /\ start.pid \notin doomed
       /\ proc[start.pid] \in {"starting", "up", "hung", "dead"}
       /\ \A q \in Pid : parent[q] # start.pid
       /\ \/ child[start.pid] = "spawning"
          \/ child[start.pid] = "reaped" /\ proc[start.pid] = "dead"

\* When it is dead, nobody lives.
SpawnAlone ==
    /\ faults + hostCrashes <= 1
    /\ start.pc = "spawn"
    /\ proc[start.pid] = "dead"
    => \A p \in Pid : ~Alive(p)

LEMMA SpawnInit == Init => ParentsKnown /\ SpawnIntact /\ SpawnAlone
BY SupervisorAssumption
DEF Init, ParentsKnown, SpawnIntact, SpawnAlone, StartIdle

LEMMA ParentsKnownStep ==
  ASSUME TypeOK, SparedInv, ParentsKnown, [Next]_vars
  PROVE  ParentsKnown'
<1>1. \A p \in Pid : proc[p] # "unused" => proc'[p] # "unused"
  BY StepMoves DEF Moves
<1>2. CASE parent' = parent
  BY <1>1, <1>2 DEF ParentsKnown
<1>3. ASSUME NEW q \in Pid, HandoffSpawn(q)
      PROVE  ParentsKnown'
  <2>1. /\ sock \in Pid /\ proc[sock] = "up" /\ parent'[q] = sock
        /\ \A x \in Pid \ {q} : parent'[x] = parent[x]
    BY <1>3, SpawnNamed
  <2> QED
    BY <1>1, <2>1 DEF ParentsKnown
<1> QED
  BY <1>2, <1>3, ParentMoves

\* How a spawn begins.
LEMMA SpawnBegins ==
  ASSUME TypeOK, NobodyBusy, [Next]_vars, [Unasked]_vars,
         start'.pc = "spawn", start' # start
  PROVE  \E p \in Pid : /\ proc[p] = "unused" /\ proc'[p] = "starting"
                        /\ start'.pid = p /\ child'[p] = "spawning"
                        /\ UNCHANGED <<parent, doomed>>
<1> USE DEF osVars, memVars, taskVars, bounds, hostVars
<1>1. ASSUME NEW c \in [Pid -> ChildState], Launch(c),
             UNCHANGED <<parent, doomed>>
      PROVE  \E p \in Pid : /\ proc[p] = "unused" /\ proc'[p] = "starting"
                            /\ start'.pid = p /\ child'[p] = "spawning"
                            /\ UNCHANGED <<parent, doomed>>
  <2>1. PICK p \in Pid : /\ proc[p] = "unused"
                         /\ proc' = [proc EXCEPT ![p] = "starting"]
                         /\ child' = [c EXCEPT ![p] = "spawning"]
                         /\ start' = [pc |-> "spawn", pid |-> p]
    BY <1>1 DEF Launch
  <2>2. proc'[p] = "starting" /\ child'[p] = "spawning" /\ start'.pid = p
    BY <2>1 DEF TypeOK
  <2> QED
    BY <1>1, <2>1, <2>2
<1>2. ASSUME NEW c \in [Pid -> ChildState], NEW m, NEW open, NEW inst,
             Ensure(m, c, open, inst)
      PROVE  Launch(c)
  BY <1>2 DEF Ensure, LaunchFails
<1>3. CASE StartNext
  <2>1. ASSUME NEW s \in {"probe", "kill", "abort"}, start.pc # "idle"
        PROVE  [start EXCEPT !.pc = s].pc # "spawn"
    BY <2>1, StartNamed
  <2>2. ~AdoptConnect /\ ~AdoptProbeFails /\ ~SpawnTimeout
    BY <2>1
    DEF AdoptConnect, AdoptProbeFails, AdoptReject, SpawnTimeout
  <2>3. ~Adopt /\ ~SpawnReady /\ ~SpawnAborted
    BY DEF Adopt, SpawnReady, SpawnAborted, StartDone, StartIdle
  <2>4. Bootstrap \/ AdoptKilled
    BY <1>3, <2>2, <2>3 DEF StartNext
  <2>5. child \in [Pid -> ChildState]
    BY DEF TypeOK
  <2> QED
    BY <1>1, <1>2, <2>4, <2>5
    DEF Bootstrap, AdoptKilled, StartDone, StartIdle
<1>4. ASSUME NEW p \in Pid, DeathNext(p)
      PROVE  \E x \in Pid : /\ proc[x] = "unused" /\ proc'[x] = "starting"
                            /\ start'.pid = x /\ child'[x] = "spawning"
                            /\ UNCHANGED <<parent, doomed>>
  <2>1. Reaped(p) \in [Pid -> ChildState]
    BY DEF Reaped, ChildState, TypeOK
  <2> QED
    BY <1>1, <1>2, <1>4, <2>1
    DEF DeathNext, ExitIgnored, ExitExpected, ExitCrash, LivenessPoll
<1>5. ~HostCrash
  BY DEF HostCrash, StartIdle
<1>6. start' = start \/ StartNext \/ HostCrash \/ \E p \in Pid : DeathNext(p)
  BY UnaskedMoves
  DEF vars, UserUpdate, UpdateBegin, UpdateNext, HandoffRefused, HandoffLost,
      UpdateEscalate, UpdateExited, UpdateProbe, PidNext, HandoffSpawn,
      HandoffAck, HandoffNak, RunAutoUpdate, AutoList, Escalate, Bind,
      BindSuccessor, Leave, Terminated, ClientSessions, FaultNext, Crash, Hang,
      Resume
<1> QED
  BY <1>3, <1>4, <1>5, <1>6

\* While it lasts, only these steps concern a process.
SpawnStep ==
    \/ UNCHANGED <<proc, child>>
    \/ \E p \in Pid : ExitIgnored(p)
    \/ \E p \in Pid : HandoffAck(p) \/ HandoffNak(p)
    \/ \E p \in Pid : Bind(p) \/ BindSuccessor(p) \/ Leave(p) \/ Terminated(p)
    \/ \E p \in Pid : Crash(p) \/ Hang(p) \/ Resume(p)

LEMMA SpawnGoesOn ==
  ASSUME TypeOK, OneTask, [Next]_vars, [Unasked]_vars,
         start.pc = "spawn", start'.pc = "spawn", start' = start
  PROVE  SpawnStep /\ UNCHANGED <<parent, doomed>>
<1> USE DEF osVars, memVars, taskVars, bounds, hostVars
<1>1. /\ upd.pc = "idle" /\ instance = NoPid /\ boot # "none"
      /\ \A r \in Caller : restart[r].pc # "kill"
  BY DEF OneTask, TaskAlone, NobodyBusy, Busy
<1>2. ~StartNext
  <2>1. ~SpawnReady /\ ~SpawnAborted
    BY DEF SpawnReady, SpawnAborted, StartDone, StartIdle
  <2>2. [start EXCEPT !.pc = "abort"].pc = "abort"
    BY StartNamed
  <2>3. ~SpawnTimeout
    BY <2>2 DEF SpawnTimeout
  <2> QED
    BY <1>1, <2>1, <2>3
    DEF StartNext, Bootstrap, AdoptConnect, Adopt, AdoptProbeFails, AdoptKilled
<1>3. ASSUME NEW p \in Pid, DeathNext(p)
      PROVE  SpawnStep /\ UNCHANGED <<parent, doomed>>
  <2>1. ~InstanceExits(p)
    BY <1>1, SupervisorAssumption DEF InstanceExits
  <2> QED
    BY <1>3, <2>1
    DEF DeathNext, ExitIgnored, ExitExpected, ExitCrash, LivenessPoll,
        SpawnStep
<1>4. ASSUME NEW p \in Pid, PidNext(p)
      PROVE  SpawnStep /\ UNCHANGED <<parent, doomed>>
  <2>1. ~HandoffSpawn(p)
    BY <1>1 DEF HandoffSpawn
  <2>2. ~Escalate(p)
    <3>1. p \notin Awaited
      BY <1>1 DEF Awaited
    <3> QED
      BY <3>1 DEF Escalate
  <2>3. CASE RunAutoUpdate(p) \/ AutoList(p)
    BY <1>1, <2>3 DEF RunAutoUpdate, UpdateBegin, AutoList, SpawnStep
  <2>4. CASE HandoffAck(p) \/ HandoffNak(p)
    BY <2>4 DEF HandoffAck, HandoffNak, SpawnStep
  <2>5. CASE Bind(p) \/ BindSuccessor(p) \/ Leave(p) \/ Terminated(p)
    BY <2>5 DEF Bind, BindSuccessor, Leave, Terminated, SpawnStep
  <2> QED
    BY <1>4, <2>1, <2>2, <2>3, <2>4, <2>5 DEF PidNext
<1>5. ~UserUpdate /\ ~UpdateNext
  BY <1>1
  DEF UserUpdate, UpdateBegin, UpdateNext, HandoffRefused, HandoffLost,
      UpdateEscalate, UpdateExited, UpdateProbe
<1>6. CASE ClientSessions \/ FaultNext \/ UNCHANGED vars
  <2>1. ~HostCrash
    BY DEF HostCrash, StartIdle
  <2>2. ASSUME NEW p \in Pid, Crash(p) \/ Hang(p) \/ Resume(p)
        PROVE  SpawnStep /\ UNCHANGED <<parent, doomed>>
    BY <2>2 DEF Crash, Hang, Resume, SpawnStep
  <2> QED
    BY <1>6, <2>1, <2>2 DEF FaultNext, ClientSessions, vars, SpawnStep
<1> QED
  BY <1>2, <1>3, <1>4, <1>5, <1>6, UnaskedMoves DEF OneTask

\* What these steps do to the processes.
LEMMA SpawnStepProcs ==
  ASSUME TypeOK, SpawnIntact, SuccessorsForeign, start.pc = "spawn",
         upd.pc = "idle", SpawnStep
  PROVE  /\ \A x \in Pid : ~Alive(x) => ~Alive(x)'
         /\ proc'[start.pid] \in {"starting", "up", "hung", "dead"}
         /\ \/ child'[start.pid] = child[start.pid]
            \/ child'[start.pid] = "reaped" /\ proc[start.pid] = "dead"
         /\ proc[start.pid] # "dead" /\ proc'[start.pid] = "dead"
              => Crash(start.pid)
<1> USE DEF osVars, memVars, taskVars, bounds, hostVars
<1>0. /\ start.pid \in Pid /\ start.pid \notin doomed
      /\ proc[start.pid] \in {"starting", "up", "hung", "dead"}
      /\ \A q \in Pid : parent[q] # start.pid
      /\ parent[start.pid] = NoPid
  BY StartNamed DEF SpawnIntact, SuccessorsForeign
<1> DEFINE Goal == /\ \A x \in Pid : ~Alive(x) => ~Alive(x)'
                   /\ proc'[start.pid] \in {"starting", "up", "hung", "dead"}
                   /\ \/ child'[start.pid] = child[start.pid]
                      \/ child'[start.pid] = "reaped" /\ proc[start.pid] = "dead"
                   /\ proc[start.pid] # "dead" /\ proc'[start.pid] = "dead"
                        => Crash(start.pid)
<1>1. ASSUME NEW p \in Pid, p # start.pid, UNCHANGED child, Alive(p),
             \A x \in Pid \ {p} : proc'[x] = proc[x]
      PROVE  Goal
  BY <1>0, <1>1 DEF Alive
<1>2. CASE UNCHANGED <<proc, child>>
  BY <1>0, <1>2 DEF Alive
<1>3. ASSUME NEW p \in Pid, ExitIgnored(p)
      PROVE  Goal
  BY <1>0, <1>3 DEF ExitIgnored, Reaped, Alive, TypeOK
<1>4. ASSUME NEW p \in Pid, HandoffAck(p)
      PROVE  Goal
  <2>1. CASE parent[p] \in Pid
    BY <1>0, <1>1, <1>4, <2>1 DEF HandoffAck, Alive, TypeOK
  <2>2. CASE parent[p] \notin Pid
    BY <1>0, <1>4, <2>2 DEF HandoffAck, Alive, TypeOK
  <2> QED
    BY <2>1, <2>2
<1>5. ASSUME NEW p \in Pid, HandoffNak(p)
      PROVE  Goal
  <2>1. p # start.pid /\ Alive(p) /\ UNCHANGED child
    BY <1>0, <1>5 DEF HandoffNak, Alive
  <2>2. \A x \in Pid : proc'[x] = IF x \in {p} THEN "dead" ELSE proc[x]
    BY <1>5, DieProcs DEF HandoffNak
  <2> QED
    BY <1>1, <2>1, <2>2
<1>6. ASSUME NEW p \in Pid, Bind(p) \/ BindSuccessor(p) \/ Hang(p) \/ Resume(p)
      PROVE  Goal
  BY <1>0, <1>6 DEF Bind, BindSuccessor, Hang, Resume, Alive, TypeOK
<1>7. ASSUME NEW p \in Pid, Leave(p) \/ Terminated(p)
      PROVE  Goal
  <2>1. p # start.pid /\ Alive(p) /\ UNCHANGED child
    BY <1>0, <1>7 DEF Leave, Terminated, Alive
  <2>2. \A x \in Pid : proc'[x] = IF x \in {p} THEN "dead" ELSE proc[x]
    BY <1>7, DieProcs DEF Leave, Terminated
  <2> QED
    BY <1>1, <2>1, <2>2
<1>8. ASSUME NEW p \in Pid, Crash(p)
      PROVE  Goal
  <2>1. \A x \in Pid : proc'[x] = IF x \in {p} THEN "dead" ELSE proc[x]
    BY <1>8, DieProcs DEF Crash
  <2> QED
    BY <1>0, <1>8, <2>1 DEF Crash, Alive
<1> QED
  BY <1>2, <1>3, <1>4, <1>5, <1>6, <1>7, <1>8 DEF SpawnStep

LEMMA SpawnKeeps ==
  ASSUME TypeOK, SparedInv, SuccessorsForeign, OneTask, DoomedKnown,
         ParentsKnown, QuietInv, SpawnIntact, SpawnAlone, [Next]_vars,
         [Unasked]_vars
  PROVE  SpawnIntact' /\ SpawnAlone'
<1>1. SUFFICES ASSUME start'.pc = "spawn" PROVE SpawnIntact' /\ SpawnAlone'
  BY DEF SpawnIntact, SpawnAlone
<1>2. CASE start' # start
  <2>1. PICK p \in Pid : /\ proc[p] = "unused" /\ proc'[p] = "starting"
                         /\ start'.pid = p /\ child'[p] = "spawning"
                         /\ UNCHANGED <<parent, doomed>>
    BY <1>1, <1>2, SpawnBegins DEF OneTask
  <2> QED
    BY <2>1 DEF SpawnIntact, SpawnAlone, DoomedKnown, ParentsKnown
<1>3. CASE start' = start
  <2>1. start.pc = "spawn" /\ start.pid \in Pid /\ upd.pc = "idle"
    BY <1>1, <1>3, StartNamed DEF OneTask, TaskAlone
  <2>2. SpawnStep /\ UNCHANGED <<parent, doomed>>
    BY <1>1, <1>3, <2>1, SpawnGoesOn
  <2>3. /\ \A x \in Pid : ~Alive(x) => ~Alive(x)'
        /\ proc'[start.pid] \in {"starting", "up", "hung", "dead"}
        /\ \/ child'[start.pid] = child[start.pid]
           \/ child'[start.pid] = "reaped" /\ proc[start.pid] = "dead"
        /\ proc[start.pid] # "dead" /\ proc'[start.pid] = "dead"
             => Crash(start.pid)
    BY <2>1, <2>2, SpawnStepProcs
  <2>4. proc[start.pid] = "dead" => proc'[start.pid] = "dead"
    BY <2>1, <2>3, StepMoves DEF Alive, Moves
  <2>5. SpawnIntact'
    BY <1>3, <2>1, <2>2, <2>3, <2>4 DEF SpawnIntact
  <2>6. ASSUME faults' + hostCrashes' <= 1, proc'[start.pid] = "dead"
        PROVE  \A x \in Pid : ~Alive(x)'
    <3>1. CASE proc[start.pid] = "dead"
      <4>1. faults + hostCrashes <= 1
        BY <2>6, StepFailures DEF TypeOK
      <4> QED
        BY <2>1, <2>3, <3>1, <4>1 DEF SpawnAlone
    <3>2. CASE proc[start.pid] # "dead"
      <4>1. Crash(start.pid)
        BY <2>3, <2>6, <3>2
      <4>2. Quiet
        BY <2>6, <4>1 DEF Crash, Fault, Quiet, TypeOK
      <4>3. \A x \in Pid : Alive(x) => x = start.pid
        BY <2>1, <4>2 DEF QuietInv, QuietState, QuietStart
      <4> QED
        BY <2>3, <2>6, <4>3 DEF Alive
    <3> QED
      BY <3>1, <3>2
  <2>7. SpawnAlone'
    BY <1>3, <2>6 DEF SpawnAlone
  <2> QED
    BY <2>5, <2>7
<1> QED
  BY <1>2, <1>3

\* How an instance is watched.
WatchedNow == timer = instance \/ child[instance] = "watched" \/ upd.pc # "idle"

\* A step that touches none of it.
LEMMA WatchKept ==
  ASSUME WatchedNow, UNCHANGED <<instance, timer, upd>>,
         child[instance] = "watched" => child'[instance] = "watched"
  PROVE  WatchedNow'
BY DEF WatchedNow

LEMMA WatchStarts ==
  ASSUME TypeOK, OneTask, SpawnIntact, SpawnAlone, StartNext,
         instance # NoPid => WatchedNow,
         instance' # NoPid, faults + hostCrashes <= 1
  PROVE  WatchedNow'
<1> USE DEF osVars, memVars, taskVars, bounds
<1>1. CASE instance # NoPid
  <2>1. start.pc = "idle"
    BY <1>1 DEF OneTask, TaskAlone
  <2>2. Bootstrap
    BY <2>1
    DEF StartNext, AdoptConnect, Adopt, AdoptProbeFails, AdoptKilled,
        SpawnReady, SpawnTimeout, SpawnAborted
  <2>3. UNCHANGED <<child, instance, timer, upd>>
    BY <1>1, <2>2 DEF Bootstrap, Ensure, Refused
  <2> QED
    BY <1>1, <2>3 DEF WatchedNow
<1>2. CASE instance = NoPid
  <2>1. Adopt \/ SpawnReady
    BY <1>2
    DEF StartNext, Bootstrap, AdoptConnect, AdoptProbeFails, AdoptKilled,
        SpawnTimeout, SpawnAborted
  <2>2. CASE Adopt
    BY <2>2 DEF Adopt, WatchedNow
  <2>3. CASE SpawnReady
    <3>1. start.pc = "spawn" /\ start.pid \in Pid /\ instance' = start.pid
      BY <2>3, StartNamed DEF SpawnReady
    <3>2. sock \in Pid /\ Alive(sock)
      BY <2>3 DEF SpawnReady, Connectable, Alive, TypeOK, PidOrNone
    <3>3. proc[start.pid] # "dead"
      BY <3>1, <3>2 DEF SpawnAlone
    <3>4. child[start.pid] = "spawning"
      BY <3>1, <3>3 DEF SpawnIntact
    <3>5. child'[start.pid] = "watched"
      BY <2>3, <3>1, <3>4 DEF SpawnReady, Watched, TypeOK
    <3> QED
      BY <3>1, <3>5 DEF WatchedNow
  <2> QED
    BY <2>1, <2>2, <2>3
<1> QED
  BY <1>1, <1>2

LEMMA WatchDeaths ==
  ASSUME TypeOK, instance # NoPid => WatchedNow, instance' # NoPid,
         NEW p \in Pid, DeathNext(p)
  PROVE  WatchedNow'
<1> USE DEF osVars, memVars, taskVars, bounds
<1>1. ExitIgnored(p) \/ LivenessPoll(p)
  BY DEF DeathNext, ExitExpected, ExitCrash, InstanceExits
<1>2. CASE ExitIgnored(p)
  BY <1>2, WatchKept DEF ExitIgnored, Reaped, TypeOK
<1>3. CASE LivenessPoll(p)
  BY <1>3 DEF LivenessPoll, WatchedNow
<1> QED
  BY <1>1, <1>2, <1>3

LEMMA WatchUpdates ==
  ASSUME TypeOK, OneTask, instance # NoPid => WatchedNow, instance' # NoPid,
         \/ UserUpdate \/ UpdateNext
         \/ \E p \in Pid : RunAutoUpdate(p) \/ HandoffSpawn(p) \/ HandoffAck(p)
                             \/ HandoffNak(p)
  PROVE  WatchedNow'
<1> USE DEF osVars, memVars, taskVars, bounds
<1>1. ASSUME NEW o, UpdateBegin(o)
      PROVE  WatchedNow'
  BY <1>1 DEF UpdateBegin, WatchedNow
<1>2. ASSUME RestoreOnFailure, upd.pc # "idle"
      PROVE  WatchedNow'
  BY <1>2 DEF RestoreOnFailure, WatchedNow, OneTask, TaskAlone
<1>3. CASE UserUpdate
  BY <1>1, <1>3 DEF UserUpdate
<1>4. ASSUME NEW p \in Pid, RunAutoUpdate(p)
      PROVE  WatchedNow'
  BY <1>1, <1>4, WatchKept DEF RunAutoUpdate
<1>5. CASE UpdateNext
  <2>1. CASE HandoffRefused \/ HandoffLost
    BY <1>2, <2>1 DEF HandoffRefused, HandoffLost
  <2>2. CASE UpdateEscalate
    BY <2>2, WatchKept DEF UpdateEscalate
  <2>3. CASE UpdateExited
    BY <2>3, UpdateNamed DEF UpdateExited, WatchedNow
  <2>4. CASE UpdateProbe
    BY <2>4 DEF UpdateProbe, WatchedNow
  <2> QED
    BY <1>5, <2>1, <2>2, <2>3, <2>4 DEF UpdateNext
<1>6. ASSUME NEW p \in Pid, HandoffSpawn(p)
      PROVE  WatchedNow'
  BY <1>6, SpawnNamed DEF WatchedNow
<1>7. ASSUME NEW p \in Pid, HandoffAck(p)
      PROVE  WatchedNow'
  <2>1. \/ upd' = upd
        \/ upd.pc = "ack" /\ upd' = [upd EXCEPT !.pc = "exit"]
    BY <1>7 DEF HandoffAck
  <2>2. CASE upd' = upd
    BY <1>7, <2>2, WatchKept DEF HandoffAck, WatchedNow
  <2>3. CASE upd.pc = "ack" /\ upd' = [upd EXCEPT !.pc = "exit"]
    BY <2>3, UpdateNamed DEF WatchedNow
  <2> QED
    BY <2>1, <2>2, <2>3
<1>8. ASSUME NEW p \in Pid, HandoffNak(p)
      PROVE  WatchedNow'
  BY <1>2, <1>8, WatchKept DEF HandoffNak
<1> QED
  BY <1>3, <1>4, <1>5, <1>6, <1>7, <1>8

LEMMA WatchStep ==
  ASSUME TypeOK, OneTask, SpawnIntact, SpawnAlone, InstanceWatched,
         [Next]_vars, [Unasked]_vars
  PROVE  InstanceWatched'
<1> USE DEF osVars, memVars, taskVars, bounds, hostVars
<1>1. SUFFICES ASSUME instance' # NoPid, faults' + hostCrashes' <= 1
               PROVE  WatchedNow'
  BY DEF InstanceWatched, WatchedNow
<1>2. faults + hostCrashes <= 1
  BY <1>1, StepFailures DEF TypeOK
<1>3. instance # NoPid => WatchedNow
  BY <1>2 DEF InstanceWatched, WatchedNow
<1>4. CASE StartNext
  BY <1>1, <1>2, <1>3, <1>4, WatchStarts
<1>5. CASE \E p \in Pid : DeathNext(p)
  BY <1>1, <1>3, <1>5, WatchDeaths
<1>6. CASE \/ UserUpdate \/ UpdateNext
           \/ \E p \in Pid : RunAutoUpdate(p) \/ HandoffSpawn(p)
                               \/ HandoffAck(p) \/ HandoffNak(p)
  BY <1>1, <1>3, <1>6, WatchUpdates
<1>7. CASE UNCHANGED <<instance, timer, upd, child>>
  BY <1>1, <1>3, <1>7, WatchKept
<1>8. ~HostCrash
  BY <1>1 DEF HostCrash
<1>9. \/ UNCHANGED <<instance, timer, upd, child>>
      \/ StartNext \/ HostCrash \/ UserUpdate \/ UpdateNext
      \/ \E p \in Pid : DeathNext(p)
      \/ \E p \in Pid : RunAutoUpdate(p) \/ HandoffSpawn(p) \/ HandoffAck(p)
                          \/ HandoffNak(p)
  BY UnaskedMoves
  DEF OneTask, vars, PidNext, AutoList, Escalate, Bind, BindSuccessor, Leave,
      Terminated, ClientSessions, FaultNext, Crash, Hang, Resume
<1> QED
  BY <1>4, <1>5, <1>6, <1>7, <1>8, <1>9

\* Without restarts, one failure, of a daemon or of host-service, is never
\* enough for the death of the current daemon to go unnoticed: it takes two
\* for another daemon to answer in the place of a child that has died.
THEOREM InstanceNoticed == Spec /\ NoRestarts => []InstanceWatched
<1> DEFINE IInv == SparedInv /\ OpenInv /\ OneTask /\ HandedOver /\ DoomedKnown
                     /\ QuietInv /\ ParentsKnown /\ SpawnIntact /\ SpawnAlone
                     /\ InstanceWatched
<1>1. Init => IInv
  BY SparedInit, OpenInit, OneTaskInit, HandedOverInit, QuietInit, SpawnInit
  DEF Init, InstanceWatched
<1>2. TypeOK /\ IInv /\ [Next]_vars /\ [Unasked]_vars => IInv'
  BY SparedStep, SuccessorsStep, OpenStep, OneTaskStep, HandedOverStep,
     DoomedKnownStep, QuietStep, ParentsKnownStep, SpawnKeeps, WatchStep
  DEF OpenInv, OpenNext, OneTask
<1> QED
  BY <1>1, <1>2, SupervisorTypes, PTL DEF Spec, NoRestarts
=============================================================================
