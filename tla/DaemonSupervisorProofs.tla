----------------------- MODULE DaemonSupervisorProofs -----------------------
(***************************************************************************)
(* Theorems about DaemonSupervisor for every set of processes and of users *)
(* and every crash budget, with any number of faults.                      *)
(***************************************************************************)
EXTENDS DaemonSupervisor, TLAPS

\* Types of the operators several actions share.
LEMMA SignalledType ==
  ASSUME TypeOK, NEW p \in Pid
  PROVE  Signalled(p) \in SUBSET Pid
BY DEF TypeOK, Signalled, Tree

LEMMA DieType ==
  ASSUME TypeOK, NEW D \in SUBSET Pid, NEW g \in BOOLEAN, Die(D, g)
  PROVE  /\ proc' \in [Pid -> ProcState]
         /\ sock' \in PidOrNone
         /\ sess' \in [Pid -> BOOLEAN]
BY DEF TypeOK, Die, PidOrNone, ProcState

LEMMA StartDoneType ==
  ASSUME TypeOK, NEW ok \in BOOLEAN, StartDone(ok)
  PROVE  /\ start' \in StartState
         /\ boot' \in {"none", "pending", "ok"}
         /\ restart' \in [Caller -> RestartState]
BY DEF TypeOK, StartDone, StartState, RestartState

LEMMA EnsureType ==
  ASSUME TypeOK, NEW m \in PidOrNone,
         NEW c \in [Pid -> ChildState],
         NEW open \in BOOLEAN, NEW inst \in PidOrNone,
         Ensure(m, c, open, inst)
  PROVE  /\ proc' \in [Pid -> ProcState]
         /\ child' \in [Pid -> ChildState]
         /\ manifest' \in PidOrNone
         /\ start' \in StartState
BY DEF TypeOK, Ensure, Launch, LaunchFails, Adoptable, PidOrNone, ProcState,
       ChildState, StartState

LEMMA RestartEnsureType ==
  ASSUME TypeOK, NEW r \in Caller, NEW m \in PidOrNone, RestartEnsure(r, m)
  PROVE  /\ proc' \in [Pid -> ProcState]
         /\ child' \in [Pid -> ChildState]
         /\ manifest' \in PidOrNone
         /\ start' \in StartState
         /\ restart' \in [Caller -> RestartState]
         /\ circuitOpen' \in BOOLEAN /\ crashes' \in Nat
<1>1. Ensure(m, child, FALSE, instance)
  BY DEF RestartEnsure
<1>2. /\ proc' \in [Pid -> ProcState]
      /\ child' \in [Pid -> ChildState]
      /\ manifest' \in PidOrNone
      /\ start' \in StartState
  BY <1>1, EnsureType DEF TypeOK
<1>3. restart' \in [Caller -> RestartState]
  BY DEF TypeOK, RestartEnsure, Ended, RestartState
<1> QED
  BY <1>2, <1>3 DEF RestartEnsure

LEMMA StopNowType ==
  ASSUME TypeOK, NEW r \in Caller, StopNow(r)
  PROVE  /\ proc' \in [Pid -> ProcState]
         /\ child' \in [Pid -> ChildState]
         /\ doomed' \in SUBSET Pid
         /\ manifest' \in PidOrNone /\ instance' \in PidOrNone
         /\ timer' \in PidOrNone
         /\ start' \in StartState
         /\ restart' \in [Caller -> RestartState]
         /\ stopping' \in BOOLEAN
         /\ circuitOpen' \in BOOLEAN /\ crashes' \in Nat
<1>1. CASE instance = NoPid
  BY <1>1, RestartEnsureType DEF TypeOK, StopNow, Forget, PidOrNone
<1>2. CASE instance # NoPid
  <2>1. instance \in Pid
    BY <1>2 DEF TypeOK, PidOrNone
  <2>2. doomed' \in SUBSET Pid
    BY <1>2, <2>1, SignalledType DEF StopNow
  <2>3. restart' \in [Caller -> RestartState]
    BY <1>2, <2>1 DEF TypeOK, StopNow, RestartState
  <2> QED
    BY <1>2, <2>2, <2>3 DEF TypeOK, StopNow, Forget, PidOrNone
<1> QED
  BY <1>1, <1>2

LEMMA RestoreType ==
  ASSUME TypeOK, RestoreOnFailure
  PROVE  /\ manifest' \in PidOrNone /\ timer' \in PidOrNone
         /\ stopping' \in BOOLEAN
         /\ upd' = UpdIdle
         /\ auto' \in [Pid -> AutoState]
<1>1. upd.pid \in PidOrNone /\ upd.saved \in PidOrNone
  BY DEF TypeOK, UpdState, UpdIdle, PidOrNone
<1>2. auto' \in [Pid -> AutoState]
  BY DEF TypeOK, RestoreOnFailure, UpdateEnds, AutoState
<1> QED
  BY <1>1, <1>2 DEF TypeOK, RestoreOnFailure, UpdateEnds, UpdState

\* A start in progress is about a process.
LEMMA StartNamed ==
  ASSUME TypeOK, start.pc # "idle"
  PROVE  /\ start \in [pc : {"connect", "probe", "kill", "spawn", "abort"},
                       pid : Pid]
         /\ start.pid \in Pid
BY DEF TypeOK, StartState, StartIdle

\* Each group of actions keeps the types.
LEMMA StartTypes ==
  ASSUME TypeOK, StartNext \/ Bootstrap
  PROVE  TypeOK'
<1> USE DEF osVars, memVars, taskVars, bounds
<1>1. CASE Bootstrap
  <2>1. Ensure(manifest, child, circuitOpen, instance)
    BY <1>1 DEF Bootstrap
  <2> QED
    BY <1>1, <2>1, EnsureType DEF TypeOK, Bootstrap
<1>2. ASSUME AdoptReject, start.pc # "idle"
      PROVE  doomed' \in SUBSET Pid /\ start' \in StartState
  BY <1>2, StartNamed, SignalledType DEF AdoptReject, StartState
<1>3. CASE AdoptConnect
  <2>1. start.pc # "idle"
    BY <1>3 DEF AdoptConnect
  <2>2. doomed' \in SUBSET Pid /\ start' \in StartState
    BY <1>2, <1>3, <2>1, StartNamed DEF TypeOK, AdoptConnect, StartState
  <2> QED
    BY <1>3, <2>2 DEF TypeOK, AdoptConnect
<1>4. CASE Adopt
  <2>1. start.pid \in Pid
    BY <1>4, StartNamed DEF Adopt
  <2>2. auto' \in [Pid -> AutoState]
    BY <1>4 DEF TypeOK, Adopt, AutoState
  <2> QED
    BY <1>4, <2>1, <2>2, StartDoneType, StartNamed DEF TypeOK, Adopt, PidOrNone
<1>5. CASE AdoptProbeFails
  <2>1. doomed' \in SUBSET Pid /\ start' \in StartState
    BY <1>2, <1>5 DEF AdoptProbeFails
  <2> QED
    BY <1>5, <2>1 DEF TypeOK, AdoptProbeFails
<1>6. CASE AdoptKilled
  <2>1. CASE Launch(child) /\ UNCHANGED <<boot, restart>>
    BY <1>6, <2>1
    DEF TypeOK, AdoptKilled, Launch, ProcState, ChildState, StartState,
        PidOrNone
  <2>2. CASE StartDone(FALSE) /\ UNCHANGED <<proc, child>>
    BY <1>6, <2>2, StartDoneType DEF TypeOK, AdoptKilled, PidOrNone
  <2> QED
    BY <1>6, <2>1, <2>2 DEF AdoptKilled
<1>7. CASE SpawnReady
  <2>1. start.pid \in Pid
    BY <1>7, StartNamed DEF SpawnReady
  <2>2. child' \in [Pid -> ChildState]
    BY <1>7 DEF TypeOK, SpawnReady, Watched, ChildState
  <2> QED
    BY <1>7, <2>1, <2>2, StartDoneType DEF TypeOK, SpawnReady, PidOrNone
<1>8. CASE SpawnTimeout
  <2>1. doomed' \in SUBSET Pid /\ start' \in StartState
    BY <1>8, StartNamed, SignalledType DEF SpawnTimeout, StartState
  <2> QED
    BY <1>8, <2>1 DEF TypeOK, SpawnTimeout
<1>9. CASE SpawnAborted
  BY <1>9, StartDoneType DEF TypeOK, SpawnAborted
<1> QED
  BY <1>1, <1>3, <1>4, <1>5, <1>6, <1>7, <1>8, <1>9 DEF StartNext

LEMMA DeathTypes ==
  ASSUME TypeOK, NEW p \in Pid, DeathNext(p)
  PROVE  TypeOK'
<1> USE DEF osVars, memVars, taskVars, bounds
<1>1. Reaped(p) \in [Pid -> ChildState]
  BY DEF TypeOK, Reaped, ChildState
<1>2. CASE ExitIgnored(p)
  BY <1>1, <1>2 DEF TypeOK, ExitIgnored
<1>3. CASE ExitExpected(p)
  BY <1>1, <1>3 DEF TypeOK, ExitExpected, InstanceExits, PidOrNone
<1>4. ASSUME NEW n \in 1..(crashes + 1), ExitCrash(p, n)
      PROVE  TypeOK'
  <2>1. n \in Nat
    BY DEF TypeOK
  <2>2. CASE OverBudget(n)
    BY <1>1, <1>4, <2>1, <2>2 DEF TypeOK, ExitCrash, InstanceExits, PidOrNone
  <2>3. CASE ~OverBudget(n)
    <3>1. Ensure(NoPid, Reaped(p), circuitOpen, NoPid)
      BY <1>4, <2>3 DEF ExitCrash
    <3>2. NoPid \in PidOrNone /\ circuitOpen \in BOOLEAN
      BY DEF TypeOK, PidOrNone
    <3>3. /\ proc' \in [Pid -> ProcState]
          /\ child' \in [Pid -> ChildState]
          /\ manifest' \in PidOrNone
          /\ start' \in StartState
      BY <1>1, <3>1, <3>2, EnsureType
    <3> QED
      BY <1>4, <2>1, <2>3, <3>2, <3>3 DEF TypeOK, ExitCrash, InstanceExits
  <2> QED
    BY <2>2, <2>3
<1>5. CASE LivenessPoll(p)
  BY <1>5 DEF TypeOK, LivenessPoll, PidOrNone
<1> QED
  BY <1>2, <1>3, <1>4, <1>5 DEF DeathNext

LEMMA RestartTypes ==
  ASSUME TypeOK, NEW r \in Caller, RestartNext(r)
  PROVE  TypeOK'
<1> USE DEF osVars, memVars, taskVars, bounds
<1>1. CASE RestartBegin(r)
  <2>1. auto' \in [Pid -> AutoState]
    BY <1>1 DEF TypeOK, RestartBegin, AutoState, Caller
  <2>2. CASE start.pc # "idle"
    <3>1. restart' \in [Caller -> RestartState]
      BY <1>1, <2>2 DEF TypeOK, RestartBegin, RestartState
    <3> QED
      BY <1>1, <2>1, <2>2, <3>1 DEF TypeOK, RestartBegin
  <2>3. CASE start.pc = "idle"
    <3>1. StopNow(r)
      BY <1>1, <2>3 DEF RestartBegin
    <3> QED
      BY <1>1, <2>1, <2>3, <3>1, StopNowType DEF TypeOK, RestartBegin
  <2> QED
    BY <2>2, <2>3
<1>2. CASE RestartGo(r)
  BY <1>2, StopNowType DEF TypeOK, RestartGo
<1>3. CASE RestartKilled(r)
  <2>1. RestartEnsure(r, NoPid) /\ NoPid \in PidOrNone
    BY <1>3 DEF RestartKilled, PidOrNone
  <2> QED
    BY <1>3, <2>1, RestartEnsureType DEF TypeOK, RestartKilled
<1> QED
  BY <1>1, <1>2, <1>3 DEF RestartNext

LEMMA UpdateTypes ==
  ASSUME TypeOK, UpdateNext \/ UserUpdate
  PROVE  TypeOK'
<1> USE DEF osVars, memVars, taskVars, bounds
<1>1. UpdIdle \in UpdState
  BY DEF UpdState
<1>2. CASE UserUpdate
  <2>1. upd' \in UpdState
    BY <1>2 DEF TypeOK, UserUpdate, UpdateBegin, UpdState, PidOrNone
  <2> QED
    BY <1>2, <2>1 DEF TypeOK, UserUpdate, UpdateBegin, PidOrNone
<1>3. CASE HandoffRefused
  BY <1>1, <1>3, RestoreType
  DEF TypeOK, HandoffRefused, RestoreOnFailure
<1>4. CASE HandoffLost
  BY <1>1, <1>4, RestoreType DEF TypeOK, HandoffLost, RestoreOnFailure
<1>5. CASE UpdateEscalate
  <2>1. upd.pid \in Pid
    BY <1>5 DEF TypeOK, UpdateEscalate, UpdState, UpdIdle
  <2>2. Die({upd.pid}, FALSE) /\ {upd.pid} \in SUBSET Pid
    BY <1>5, <2>1 DEF UpdateEscalate
  <2> QED
    BY <1>5, <2>2, DieType DEF TypeOK, UpdateEscalate
<1>6. CASE UpdateExited
  <2>1. upd' \in UpdState
    BY <1>6 DEF TypeOK, UpdateExited, UpdState, UpdIdle
  <2> QED
    BY <1>6, <2>1 DEF TypeOK, UpdateExited
<1>7. CASE UpdateProbe
  <2>1. upd.succ \in PidOrNone
    BY DEF TypeOK, UpdState, UpdIdle, PidOrNone
  <2>2. auto' \in [Pid -> AutoState]
    BY <1>7 DEF TypeOK, UpdateProbe, UpdateEnds, AutoState
  <2> QED
    BY <1>1, <1>7, <2>1, <2>2
    DEF TypeOK, UpdateProbe, UpdateEnds, SuccessorManifest
<1> QED
  BY <1>2, <1>3, <1>4, <1>5, <1>6, <1>7 DEF UpdateNext

LEMMA PidTypes ==
  ASSUME TypeOK, NEW p \in Pid, PidNext(p)
  PROVE  TypeOK'
<1> USE DEF osVars, memVars, taskVars, bounds, hostVars
<1>1. UpdIdle \in UpdState
  BY DEF UpdState
<1>2. CASE HandoffSpawn(p)
  <2>1. upd' \in UpdState
    <3>1. upd \in [pc : {"request", "ack", "exit", "probe"}, pid : Pid,
                   succ : PidOrNone, saved : PidOrNone, owner : PidOrNone]
      BY <1>2 DEF TypeOK, HandoffSpawn, UpdState, UpdIdle
    <3> QED
      BY <1>2, <3>1 DEF HandoffSpawn, UpdState, PidOrNone
  <2>2. sock \in Pid
    BY <1>2 DEF TypeOK, HandoffSpawn, Reachable, PidOrNone
  <2>3. /\ proc' \in [Pid -> ProcState]
        /\ parent' \in [Pid -> PidOrNone]
        /\ sess' \in [Pid -> BOOLEAN]
    BY <1>2, <2>2 DEF TypeOK, HandoffSpawn, ProcState, PidOrNone
  <2> QED
    BY <1>2, <2>1, <2>3 DEF TypeOK, HandoffSpawn
<1>3. CASE HandoffAck(p)
  <2>1. upd' \in UpdState
    BY <1>3 DEF TypeOK, HandoffAck, UpdState, UpdIdle
  <2>2. proc' \in [Pid -> ProcState]
    BY <1>3 DEF TypeOK, HandoffAck, ProcState
  <2> QED
    BY <1>3, <2>1, <2>2 DEF TypeOK, HandoffAck
<1>4. CASE HandoffNak(p)
  <2>1. Die({p}, FALSE) /\ {p} \in SUBSET Pid
    BY <1>4 DEF HandoffNak
  <2>2. /\ manifest' \in PidOrNone /\ timer' \in PidOrNone
        /\ stopping' \in BOOLEAN
        /\ upd' \in UpdState
        /\ auto' \in [Pid -> AutoState]
        /\ UNCHANGED <<instance, pending, crashes, circuitOpen>>
    BY <1>1, <1>4, RestoreType DEF TypeOK, HandoffNak, RestoreOnFailure
  <2> QED
    BY <1>4, <2>1, <2>2, DieType DEF TypeOK, HandoffNak
<1>5. CASE RunAutoUpdate(p)
  <2>1. auto' \in [Pid -> AutoState]
    BY <1>5 DEF TypeOK, RunAutoUpdate, AutoState
  <2>2. upd' \in UpdState
    BY <1>5 DEF TypeOK, RunAutoUpdate, UpdateBegin, UpdState, PidOrNone
  <2> QED
    BY <1>5, <2>1, <2>2 DEF TypeOK, RunAutoUpdate, UpdateBegin, PidOrNone
<1>6. CASE AutoList(p)
  <2>1. auto' \in [Pid -> AutoState]
    BY <1>6 DEF TypeOK, AutoList, AutoState
  <2> QED
    BY <1>6, <2>1 DEF TypeOK, AutoList
<1>7. CASE Escalate(p)
  <2>1. Die(Tree(p), FALSE) /\ Tree(p) \in SUBSET Pid
    BY <1>7 DEF Escalate, Tree
  <2> QED
    BY <1>7, <2>1, DieType DEF TypeOK, Escalate
<1>8. CASE Bind(p) \/ BindSuccessor(p)
  BY <1>8 DEF TypeOK, Bind, BindSuccessor, ProcState, PidOrNone
<1>9. CASE Leave(p) \/ Terminated(p)
  <2>1. CASE Leave(p)
    BY <2>1, DieType DEF TypeOK, Leave
  <2>2. CASE Terminated(p)
    <3>1. /\ proc' \in [Pid -> ProcState]
          /\ sock' \in PidOrNone
          /\ sess' \in [Pid -> BOOLEAN]
      BY <2>2 DEF TypeOK, Terminated, Die, PidOrNone, ProcState
    <3> QED
      BY <2>2, <3>1 DEF TypeOK, Terminated
  <2> QED
    BY <1>9, <2>1, <2>2
<1> QED
  BY <1>2, <1>3, <1>4, <1>5, <1>6, <1>7, <1>8, <1>9 DEF PidNext

LEMMA OutsideTypes ==
  ASSUME TypeOK, ClientSessions \/ FaultNext
  PROVE  TypeOK'
<1> USE DEF osVars, memVars, taskVars, bounds, hostVars
<1>1. CASE ClientSessions
  BY <1>1 DEF TypeOK, ClientSessions
<1>2. ASSUME NEW p \in Pid, Crash(p)
      PROVE  TypeOK'
  <2>1. Die({p}, FALSE) /\ {p} \in SUBSET Pid
    BY <1>2 DEF Crash
  <2>2. /\ proc' \in [Pid -> ProcState]
        /\ sock' \in PidOrNone
        /\ sess' \in [Pid -> BOOLEAN]
    BY <2>1, DieType
  <2>3. faults' \in Nat
    BY <1>2 DEF TypeOK, Crash, Fault
  <2> QED
    BY <1>2, <2>2, <2>3 DEF TypeOK, Crash
<1>3. ASSUME NEW p \in Pid, Hang(p) \/ Resume(p)
      PROVE  TypeOK'
  BY <1>3 DEF TypeOK, Hang, Resume, Fault, ProcState
<1>4. CASE HostCrash
  <2>1. restart' \in [Caller -> RestartState]
    BY <1>4 DEF TypeOK, HostCrash, Ended, RestartState
  <2>2. /\ child' \in [Pid -> ChildState]
        /\ auto' \in [Pid -> AutoState]
        /\ start' \in StartState
        /\ upd' \in UpdState
    BY <1>4 DEF HostCrash, ChildState, AutoState, StartState, UpdState
  <2>3. /\ instance' \in PidOrNone /\ pending' \in BOOLEAN
        /\ timer' \in PidOrNone /\ stopping' \in BOOLEAN
        /\ crashes' \in Nat /\ circuitOpen' \in BOOLEAN
        /\ boot' \in {"none", "pending", "ok"}
    BY <1>4 DEF HostCrash, PidOrNone
  <2>4. hostCrashes' \in Nat
    BY <1>4 DEF TypeOK, HostCrash
  <2>5. UNCHANGED <<osVars, manifest, updates, faults>>
    BY <1>4 DEF HostCrash
  <2> QED
    BY <2>1, <2>2, <2>3, <2>4, <2>5 DEF TypeOK
<1> QED
  BY <1>1, <1>2, <1>3, <1>4 DEF FaultNext

LEMMA InitTypes == Init => TypeOK
<1> SUFFICES ASSUME Init PROVE TypeOK
  OBVIOUS
<1>1. proc \in [Pid -> ProcState] /\ ver \in [Pid -> {"old", "new"}]
  BY DEF Init, ProcState
<1>2. sess \in [Pid -> BOOLEAN] /\ sock \in PidOrNone /\ manifest \in PidOrNone
  BY DEF Init
<1>3. restart \in [Caller -> RestartState] /\ start \in StartState
      /\ upd \in UpdState /\ auto \in [Pid -> AutoState]
  BY DEF Init, RestartState, RestartIdle, StartState, UpdState, AutoState
<1> QED
  BY <1>1, <1>2, <1>3 DEF Init, TypeOK, ChildState, PidOrNone

LEMMA StutterTypes ==
  ASSUME TypeOK, UNCHANGED vars
  PROVE  TypeOK'
BY DEF TypeOK, vars, osVars, memVars, taskVars, bounds

LEMMA NextTypes ==
  ASSUME TypeOK, [Next]_vars
  PROVE  TypeOK'
BY StartTypes, DeathTypes, RestartTypes, UpdateTypes, PidTypes, OutsideTypes,
   StutterTypes DEF Next

\* Every variable of the supervisor and of the processes keeps its type; in
\* particular each step of start() and of runUpdate() has a process to act on.
THEOREM SupervisorTypes == Spec => []TypeOK
BY InitTypes, NextTypes, PTL DEF Spec
-----------------------------------------------------------------------------
(***************************************************************************)
(* The circuit breaker.                                                    *)
(***************************************************************************)
\* What a step does to the breaker: nothing, reset it, or count a crash.
LEMMA BreakerMoves ==
  ASSUME TypeOK, [Next]_vars
  PROVE  \/ UNCHANGED <<crashes, circuitOpen>>
         \/ crashes' = 0
         \/ \E n \in Nat : /\ crashes' = n
                           /\ OverBudget(n) => circuitOpen' = TRUE
<1> USE DEF osVars, memVars, taskVars, bounds, hostVars
<1>1. CASE StartNext \/ Bootstrap
  BY <1>1
  DEF StartNext, Bootstrap, AdoptConnect, Adopt, AdoptProbeFails, AdoptKilled,
      SpawnReady, SpawnTimeout, SpawnAborted
<1>2. ASSUME NEW p \in Pid, DeathNext(p)
      PROVE  \/ UNCHANGED <<crashes, circuitOpen>>
             \/ \E n \in Nat : /\ crashes' = n
                               /\ OverBudget(n) => circuitOpen' = TRUE
  <2>1. CASE \E n \in 1..(crashes + 1) : ExitCrash(p, n)
    BY <2>1 DEF TypeOK, ExitCrash
  <2> QED
    BY <1>2, <2>1 DEF DeathNext, ExitIgnored, ExitExpected, LivenessPoll
<1>3. ASSUME NEW r \in Caller, RestartNext(r)
      PROVE  UNCHANGED <<crashes, circuitOpen>> \/ crashes' = 0
  BY <1>3
  DEF RestartNext, RestartBegin, RestartGo, RestartKilled, StopNow,
      RestartEnsure
<1>4. CASE UpdateNext \/ UserUpdate
  BY <1>4
  DEF UpdateNext, UserUpdate, UpdateBegin, HandoffRefused, HandoffLost,
      UpdateEscalate, UpdateExited, UpdateProbe, RestoreOnFailure
<1>5. ASSUME NEW p \in Pid, PidNext(p)
      PROVE  UNCHANGED <<crashes, circuitOpen>>
  BY <1>5
  DEF PidNext, HandoffSpawn, HandoffAck, HandoffNak, RestoreOnFailure,
      RunAutoUpdate, UpdateBegin, AutoList, Escalate, Bind, BindSuccessor,
      Leave, Terminated
<1>6. CASE ClientSessions \/ FaultNext
  BY <1>6 DEF ClientSessions, FaultNext, Crash, Hang, Resume, HostCrash
<1>7. CASE UNCHANGED vars
  BY <1>7 DEF vars
<1> QED
  BY <1>1, <1>2, <1>3, <1>4, <1>5, <1>6, <1>7 DEF Next

\* The window never holds more crashes than the budget with the circuit
\* closed, for every budget and under any mix of restarts and updates.
THEOREM BreakerSafety == Spec => []BreakerTrips
<1>1. Init => BreakerTrips
  BY SupervisorAssumption DEF Init, BreakerTrips, SupervisorAssumption
<1>2. TypeOK /\ BreakerTrips /\ [Next]_vars => BreakerTrips'
  <2> SUFFICES ASSUME TypeOK, BreakerTrips, [Next]_vars
               PROVE  BreakerTrips'
    OBVIOUS
  <2>1. CASE UNCHANGED <<crashes, circuitOpen>>
    BY <2>1 DEF BreakerTrips
  <2>2. CASE crashes' = 0
    BY <2>2, SupervisorAssumption DEF BreakerTrips, SupervisorAssumption
  <2>3. ASSUME NEW n \in Nat, crashes' = n,
               OverBudget(n) => circuitOpen' = TRUE
        PROVE  BreakerTrips'
    BY <2>3 DEF BreakerTrips, OverBudget
  <2> QED
    BY <2>1, <2>2, <2>3, BreakerMoves
<1> QED
  BY <1>1, <1>2, SupervisorTypes, PTL DEF Spec

-----------------------------------------------------------------------------
(***************************************************************************)
(* A child that has not come up is out of reach of everyone but its start: *)
(* the records from which processes are signalled name no such child.      *)
(***************************************************************************)
Known(x) == x \in Pid => proc[x] # "unused" /\ child[x] # "spawning"

RecordsKnown ==
    /\ Known(manifest) /\ Known(instance)
    /\ Known(upd.succ) /\ Known(upd.saved)
    /\ start.pc \in {"connect", "probe", "kill"} => Known(start.pid)
    /\ start.pc # "idle" => proc[start.pid] # "unused"

\* Only start() makes children, and a successor is not one.
ChildrenSpawned ==
    \A p \in Pid : proc[p] \in {"unused", "adopting"} => child[p] = "none"

SparedInv == RecordsKnown /\ ChildrenSpawned

\* What a step does to a process and to the listeners on it.
Moves ==
    \A x \in Pid :
       /\ proc[x] # "unused" => proc'[x] # "unused"
       /\ child'[x] = "spawning" => child[x] = "spawning" \/ proc[x] = "unused"
       /\ proc'[x] \in {"unused", "adopting"} => child'[x] = "none"

LEMMA DieMoves ==
  ASSUME TypeOK, ChildrenSpawned, NEW D, NEW g, Die(D, g), UNCHANGED child
  PROVE  Moves
BY DEF TypeOK, ChildrenSpawned, Die, Moves

LEMMA EnsureMoves ==
  ASSUME TypeOK, ChildrenSpawned, NEW m, NEW open, NEW inst,
         NEW c \in [Pid -> ChildState],
         \A x \in Pid : /\ c[x] = "spawning" => child[x] = "spawning"
                        /\ child[x] = "none" => c[x] = "none",
         Ensure(m, c, open, inst)
  PROVE  Moves
<1>1. CASE proc' = proc /\ child' = c
  BY <1>1 DEF ChildrenSpawned, Moves
<1>2. CASE Launch(c)
  BY <1>2 DEF TypeOK, ChildrenSpawned, Launch, Moves
<1> QED
  BY <1>1, <1>2 DEF Ensure, LaunchFails

LEMMA StepMoves ==
  ASSUME TypeOK, SparedInv, [Next]_vars
  PROVE  Moves
<1> USE DEF osVars, memVars, taskVars, bounds, hostVars
<1>0. ChildrenSpawned /\ child \in [Pid -> ChildState]
  BY DEF SparedInv, TypeOK
<1>1. CASE UNCHANGED <<proc, child>>
  BY <1>0, <1>1 DEF ChildrenSpawned, Moves
<1>2. CASE StartNext \/ Bootstrap
  <2>1. CASE Bootstrap
    BY <1>0, <2>1, EnsureMoves DEF Bootstrap
  <2>2. CASE AdoptKilled
    <3>1. CASE Launch(child)
      BY <1>0, <3>1 DEF TypeOK, ChildrenSpawned, Launch, Moves
    <3> QED
      BY <1>1, <2>2, <3>1 DEF AdoptKilled
  <2>3. CASE SpawnReady
    BY <1>0, <2>3 DEF TypeOK, ChildrenSpawned, SpawnReady, Watched, Moves
  <2> QED
    BY <1>1, <1>2, <2>1, <2>2, <2>3
    DEF StartNext, AdoptConnect, Adopt, AdoptProbeFails, SpawnTimeout,
        SpawnAborted
<1>3. ASSUME NEW p \in Pid, DeathNext(p)
      PROVE  Moves
  <2>1. ASSUME proc[p] = "dead"
        PROVE  /\ Reaped(p) \in [Pid -> ChildState]
               /\ \A x \in Pid : /\ Reaped(p)[x] = "spawning"
                                      => child[x] = "spawning"
                                 /\ child[x] = "none" /\ x # p
                                      => Reaped(p)[x] = "none"
    BY <1>0 DEF Reaped, ChildState
  <2>2. CASE proc[p] = "dead" /\ UNCHANGED proc /\ child' = Reaped(p)
    BY <1>0, <2>1, <2>2 DEF ChildrenSpawned, Moves
  <2>3. ASSUME NEW n \in 1..(crashes + 1), ExitCrash(p, n)
        PROVE  Moves
    <3>1. /\ proc[p] = "dead" /\ child[p] = "watched"
          /\ \/ UNCHANGED proc /\ child' = Reaped(p)
             \/ Ensure(NoPid, Reaped(p), circuitOpen, NoPid)
      BY <2>3 DEF ExitCrash, InstanceExits
    <3> QED
      BY <1>0, <2>1, <2>2, <3>1, EnsureMoves
  <2> QED
    BY <1>1, <1>3, <2>2, <2>3
    DEF DeathNext, ExitIgnored, ExitExpected, InstanceExits, LivenessPoll
<1>4. ASSUME NEW r \in Caller, RestartNext(r)
      PROVE  Moves
  <2>1. UNCHANGED <<proc, child>>
          \/ \E m : Ensure(m, child, FALSE, instance)
    BY <1>4
    DEF RestartNext, RestartBegin, RestartGo, RestartKilled, StopNow,
        RestartEnsure
  <2> QED
    BY <1>0, <1>1, <2>1, EnsureMoves
<1>5. CASE UpdateNext \/ UserUpdate
  <2>1. CASE UpdateEscalate
    BY <1>0, <2>1, DieMoves DEF UpdateEscalate
  <2> QED
    BY <1>1, <1>5, <2>1
    DEF UpdateNext, UserUpdate, UpdateBegin, HandoffRefused, HandoffLost,
        UpdateExited, UpdateProbe
<1>6. ASSUME NEW p \in Pid, PidNext(p)
      PROVE  Moves
  <2>1. CASE HandoffSpawn(p)
    BY <1>0, <2>1 DEF TypeOK, ChildrenSpawned, HandoffSpawn, Moves
  <2>2. CASE HandoffAck(p)
    BY <1>0, <2>2 DEF TypeOK, ChildrenSpawned, HandoffAck, Moves
  <2>3. CASE HandoffNak(p)
    BY <1>0, <2>3, DieMoves DEF HandoffNak
  <2>4. CASE Escalate(p)
    BY <1>0, <2>4, DieMoves DEF Escalate
  <2>5. CASE Bind(p) \/ BindSuccessor(p)
    BY <1>0, <2>5 DEF TypeOK, ChildrenSpawned, Bind, BindSuccessor, Moves
  <2>6. CASE Leave(p) \/ Terminated(p)
    BY <1>0, <2>6, DieMoves DEF Leave, Terminated
  <2> QED
    BY <1>1, <1>6, <2>1, <2>2, <2>3, <2>4, <2>5, <2>6
    DEF PidNext, RunAutoUpdate, UpdateBegin, AutoList
<1>7. CASE ClientSessions \/ FaultNext
  <2>1. ASSUME NEW p \in Pid, Crash(p)
        PROVE  Moves
    BY <1>0, <2>1, DieMoves DEF Crash
  <2>2. ASSUME NEW p \in Pid, Hang(p) \/ Resume(p)
        PROVE  Moves
    BY <1>0, <2>2 DEF TypeOK, ChildrenSpawned, Hang, Resume, Moves
  <2>3. CASE HostCrash
    BY <1>0, <2>3 DEF HostCrash, Moves
  <2> QED
    BY <1>1, <1>7, <2>1, <2>2, <2>3 DEF ClientSessions, FaultNext
<1>8. CASE UNCHANGED vars
  BY <1>1, <1>8 DEF vars
<1> QED
  BY <1>2, <1>3, <1>4, <1>5, <1>6, <1>7, <1>8 DEF Next

\* What is known stays known.
StaysKnown(x) == x \in Pid => proc'[x] # "unused" /\ child'[x] # "spawning"

RecordsKnownNext ==
    /\ StaysKnown(manifest') /\ StaysKnown(instance')
    /\ StaysKnown(upd'.succ) /\ StaysKnown(upd'.saved)
    /\ start'.pc \in {"connect", "probe", "kill"} => StaysKnown(start'.pid)
    /\ start'.pc # "idle" => proc'[start'.pid] # "unused"

LEMMA RecordsLast ==
  ASSUME TypeOK, SparedInv, Moves
  PROVE  /\ StaysKnown(manifest) /\ StaysKnown(instance)
         /\ StaysKnown(upd.succ) /\ StaysKnown(upd.saved)
         /\ StaysKnown(NoPid) /\ NoPid \notin Pid
         /\ start.pc \in {"connect", "probe", "kill"}
              => StaysKnown(start.pid) /\ start.pid \in Pid
         /\ start.pc # "idle"
              => proc'[start.pid] # "unused" /\ start.pid \in Pid
<1>1. start.pc # "idle" => start.pid \in Pid
  BY StartNamed DEF TypeOK
<1> QED
  BY <1>1, SupervisorAssumption
  DEF SparedInv, RecordsKnown, Known, Moves, StaysKnown

LEMMA EnsureRecords ==
  ASSUME TypeOK, SparedInv, Moves, NEW m \in PidOrNone, StaysKnown(m),
         NEW open, NEW inst, NEW c, Ensure(m, c, open, inst),
         m \in Pid => child'[m] # "spawning"
  PROVE  /\ StaysKnown(manifest')
         /\ start'.pc \in {"connect", "probe", "kill"} => StaysKnown(start'.pid)
         /\ start'.pc # "idle" => proc'[start'.pid] # "unused"
<1>0. /\ StaysKnown(NoPid)
      /\ start.pc \in {"connect", "probe", "kill"} => StaysKnown(start.pid)
      /\ start.pc # "idle" => proc'[start.pid] # "unused"
  BY RecordsLast
<1>1. CASE UNCHANGED start /\ manifest' \in {m, NoPid}
  BY <1>0, <1>1
<1>2. CASE start' = [pc |-> "connect", pid |-> m] /\ manifest' = m /\ m \in Pid
  BY <1>2 DEF StaysKnown
<1>3. CASE manifest' = NoPid /\ Launch(c)
  BY <1>0, <1>3 DEF Launch, TypeOK
<1> QED
  BY <1>1, <1>2, <1>3 DEF Ensure, LaunchFails, Adoptable, PidOrNone

LEMMA StepRecords ==
  ASSUME TypeOK, SparedInv, [Next]_vars, Moves
  PROVE  RecordsKnownNext
<1> USE DEF osVars, memVars, taskVars, bounds, hostVars
<1>0. /\ StaysKnown(manifest) /\ StaysKnown(instance)
      /\ StaysKnown(upd.succ) /\ StaysKnown(upd.saved)
      /\ StaysKnown(NoPid) /\ NoPid \notin Pid
      /\ start.pc \in {"connect", "probe", "kill"}
           => StaysKnown(start.pid) /\ start.pid \in Pid
      /\ start.pc # "idle"
           => proc'[start.pid] # "unused" /\ start.pid \in Pid
  BY RecordsLast
<1>1. CASE UNCHANGED <<start, upd>> /\ StaysKnown(manifest')
              /\ StaysKnown(instance')
  BY <1>0, <1>1 DEF RecordsKnownNext
<1>2. CASE UNCHANGED <<manifest, instance, start, upd>>
  BY <1>0, <1>1, <1>2
<1>3. CASE StartNext
  <2>1. CASE Bootstrap
    <3>1. Ensure(manifest, child, circuitOpen, instance)
          /\ UNCHANGED <<instance, upd>>
      BY <2>1 DEF Bootstrap
    <3>2. manifest \in PidOrNone /\ (manifest \in Pid => child'[manifest] # "spawning")
      BY <1>0 DEF TypeOK, StaysKnown
    <3> QED
      BY <1>0, <3>1, <3>2, EnsureRecords DEF RecordsKnownNext
  <2>2. CASE AdoptConnect \/ AdoptProbeFails
    BY <1>0, <2>2
    DEF AdoptConnect, AdoptProbeFails, AdoptReject, RecordsKnownNext, TypeOK,
        StartState, StartIdle
  <2>3. CASE Adopt
    BY <1>0, <2>3 DEF Adopt, StartDone, StartIdle, RecordsKnownNext
  <2>4. CASE AdoptKilled
    <3>1. UNCHANGED <<instance, upd>> /\ manifest' = NoPid
      BY <2>4 DEF AdoptKilled
    <3>2. CASE Launch(child)
      BY <1>0, <3>1, <3>2 DEF Launch, RecordsKnownNext, TypeOK
    <3>3. CASE StartDone(FALSE)
      BY <1>0, <3>1, <3>3 DEF StartDone, StartIdle, RecordsKnownNext
    <3> QED
      BY <2>4, <3>2, <3>3 DEF AdoptKilled
  <2>5. CASE SpawnReady
    <3>1. StaysKnown(start.pid)
      BY <1>0, <2>5 DEF SpawnReady, Watched, TypeOK, StaysKnown
    <3> QED
      BY <1>0, <2>5, <3>1 DEF SpawnReady, StartDone, StartIdle, RecordsKnownNext
  <2>6. CASE SpawnTimeout
    BY <1>0, <2>6
    DEF SpawnTimeout, RecordsKnownNext, TypeOK, StartState, StartIdle
  <2>7. CASE SpawnAborted
    BY <1>0, <2>7 DEF SpawnAborted, StartDone, StartIdle, RecordsKnownNext
  <2> QED
    BY <1>3, <2>1, <2>2, <2>3, <2>4, <2>5, <2>6, <2>7 DEF StartNext
<1>4. ASSUME NEW p \in Pid, DeathNext(p)
      PROVE  RecordsKnownNext
  <2>1. ASSUME NEW n \in 1..(crashes + 1), ExitCrash(p, n)
        PROVE  RecordsKnownNext
    <3>1. CASE UNCHANGED start /\ manifest' = NoPid
      BY <1>0, <1>1, <2>1, <3>1 DEF ExitCrash, InstanceExits
    <3>2. CASE Ensure(NoPid, Reaped(p), circuitOpen, NoPid)
      BY <1>0, <2>1, <3>2, EnsureRecords
      DEF ExitCrash, InstanceExits, RecordsKnownNext, PidOrNone
    <3> QED
      BY <2>1, <3>1, <3>2 DEF ExitCrash
  <2> QED
    BY <1>0, <1>1, <1>4, <2>1
    DEF DeathNext, ExitIgnored, ExitExpected, InstanceExits, LivenessPoll
<1>5. ASSUME NEW r \in Caller, RestartNext(r)
      PROVE  RecordsKnownNext
  <2>1. ASSUME NEW m \in {manifest, NoPid}, RestartEnsure(r, m),
               UNCHANGED upd, instance' \in {instance, NoPid}
        PROVE  RecordsKnownNext
    <3>1. /\ StaysKnown(m) /\ m \in PidOrNone
          /\ m \in Pid => child'[m] # "spawning"
      BY <1>0, <2>1 DEF TypeOK, PidOrNone, StaysKnown
    <3>2. Ensure(m, child, FALSE, instance)
      BY <2>1 DEF RestartEnsure
    <3> QED
      BY <1>0, <2>1, <3>1, <3>2, EnsureRecords DEF RecordsKnownNext
  <2>2. ASSUME StopNow(r), UNCHANGED upd
        PROVE  RecordsKnownNext
    BY <1>0, <1>1, <2>1, <2>2 DEF StopNow, Forget
  <2> QED
    BY <1>2, <1>5, <2>1, <2>2
    DEF RestartNext, RestartBegin, RestartGo, RestartKilled
<1>6. CASE UserUpdate \/ \E p \in Pid : RunAutoUpdate(p)
  BY <1>0, <1>2, <1>6 DEF UserUpdate, RunAutoUpdate, UpdateBegin, RecordsKnownNext
<1>7. ASSUME RestoreOnFailure, UNCHANGED start
      PROVE  RecordsKnownNext
  BY <1>0, <1>7 DEF RestoreOnFailure, UpdateEnds, UpdIdle, RecordsKnownNext
<1>8. CASE UpdateNext
  <2>1. CASE UpdateEscalate
    BY <1>2, <2>1 DEF UpdateEscalate
  <2>2. CASE UpdateExited
    BY <1>0, <2>2
    DEF UpdateExited, RecordsKnownNext, TypeOK, UpdState, UpdIdle
  <2>3. CASE UpdateProbe
    BY <1>0, <2>3
    DEF UpdateProbe, SuccessorManifest, UpdateEnds, UpdIdle, RecordsKnownNext
  <2> QED
    BY <1>7, <1>8, <2>1, <2>2, <2>3 DEF UpdateNext, HandoffRefused, HandoffLost
<1>9. ASSUME NEW q \in Pid, PidNext(q)
      PROVE  RecordsKnownNext
  <2>1. CASE HandoffSpawn(q)
    <3>1. StaysKnown(q)
      BY <2>1 DEF HandoffSpawn, TypeOK, SparedInv, ChildrenSpawned, StaysKnown
    <3> QED
      BY <1>0, <2>1, <3>1
      DEF HandoffSpawn, RecordsKnownNext, TypeOK, UpdState, UpdIdle
  <2>2. CASE HandoffAck(q)
    BY <1>0, <2>2
    DEF HandoffAck, RecordsKnownNext, TypeOK, UpdState, UpdIdle
  <2>3. CASE HandoffNak(q)
    BY <1>2, <1>7, <2>3 DEF HandoffNak
  <2> QED
    BY <1>2, <1>6, <1>9, <2>1, <2>2, <2>3
    DEF PidNext, AutoList, Escalate, Bind, BindSuccessor, Leave, Terminated
<1>10. CASE ClientSessions \/ FaultNext
  <2>1. CASE HostCrash
    BY <1>0, <2>1 DEF HostCrash, StartIdle, UpdIdle, RecordsKnownNext
  <2> QED
    BY <1>2, <1>10, <2>1 DEF ClientSessions, FaultNext, Crash, Hang, Resume
<1>11. CASE UNCHANGED vars
  BY <1>2, <1>11 DEF vars
<1> QED
  BY <1>3, <1>4, <1>5, <1>6, <1>8, <1>9, <1>10, <1>11 DEF Next

LEMMA SparedInit == Init => SparedInv
BY SupervisorAssumption
DEF Init, SparedInv, RecordsKnown, ChildrenSpawned, Known, StartIdle, UpdIdle,
    PidOrNone

LEMMA SparedStep ==
  ASSUME TypeOK, SparedInv, [Next]_vars
  PROVE  SparedInv'
<1>1. Moves
  BY StepMoves
<1>2. RecordsKnownNext
  BY <1>1, StepRecords
<1>3. RecordsKnown'
  BY <1>2 DEF RecordsKnownNext, RecordsKnown, Known, StaysKnown
<1>4. ChildrenSpawned'
  BY <1>1 DEF Moves, ChildrenSpawned
<1> QED
  BY <1>3, <1>4 DEF SparedInv

\* A signal to a known process reaches no child that has not come up: what
\* else is in its tree is a successor.
LEMMA SignalSpares ==
  ASSUME TypeOK, SparedInv, NEW p \in Pid, Known(p),
         doomed' = Signalled(p), NEW x \in doomed' \ doomed
  PROVE  child[x] # "spawning"
<1>1. x \in Tree(p)
  BY DEF Signalled
<1>2. CASE x = p
  BY <1>2 DEF Known
<1>3. CASE x \in Pid /\ proc[x] = "adopting"
  BY <1>3 DEF SparedInv, ChildrenSpawned
<1> QED
  BY <1>1, <1>2, <1>3 DEF Tree

LEMMA SparedMove ==
  ASSUME TypeOK, SparedInv, [Next]_vars, NEW x \in doomed' \ doomed,
         child[x] = "spawning"
  PROVE  start.pc = "spawn" /\ start.pid = x
<1> USE DEF osVars, memVars, taskVars, bounds, hostVars
<1>0. doomed' # doomed
  OBVIOUS
<1>1. start.pc # "idle" => start.pid \in Pid
  BY StartNamed DEF TypeOK
<1>2. CASE StartNext
  <2>1. CASE AdoptConnect \/ AdoptProbeFails
    <3>1. doomed' = Signalled(start.pid) /\ start.pc \in {"connect", "probe"}
      BY <1>0, <2>1 DEF AdoptConnect, AdoptProbeFails, AdoptReject
    <3> QED
      BY <1>1, <3>1, SignalSpares DEF SparedInv, RecordsKnown
  <2>2. CASE SpawnTimeout
    <3>1. x \in Tree(start.pid) /\ start.pc = "spawn"
      BY <2>2 DEF SpawnTimeout, Signalled
    <3>2. x \in Pid => proc[x] # "adopting"
      BY DEF SparedInv, ChildrenSpawned
    <3> QED
      BY <1>1, <3>1, <3>2 DEF Tree
  <2> QED
    BY <1>0, <1>2, <2>1, <2>2
    DEF StartNext, Bootstrap, Adopt, AdoptKilled, SpawnReady, SpawnAborted
<1>3. ASSUME NEW r \in Caller, RestartNext(r)
      PROVE  FALSE
  <2>1. doomed' = Signalled(instance) /\ instance # NoPid
    BY <1>0, <1>3
    DEF RestartNext, RestartBegin, RestartGo, RestartKilled, StopNow
  <2>2. instance \in Pid
    BY <2>1 DEF TypeOK, PidOrNone
  <2> QED
    BY <2>1, <2>2, SignalSpares DEF SparedInv, RecordsKnown
<1>4. UNCHANGED doomed \/ StartNext \/ \E r \in Caller : RestartNext(r)
  BY DEF Next, vars, UserUpdate, UpdateBegin, UpdateNext, HandoffRefused,
         HandoffLost, UpdateEscalate, UpdateExited, UpdateProbe, DeathNext,
         ExitIgnored, ExitExpected, ExitCrash, LivenessPoll, PidNext,
         HandoffSpawn, HandoffAck, HandoffNak, RunAutoUpdate, AutoList,
         Escalate, Bind, BindSuccessor, Leave, Terminated, ClientSessions,
         FaultNext, Crash, Hang, Resume, HostCrash
<1> QED
  BY <1>0, <1>2, <1>3, <1>4

\* Whatever restarts, updates and crashes run beside it, a daemon that is
\* still coming up is signalled by the start() that spawned it and by nobody
\* else: forceRestart() awaits pendingStarts before it stops anything.
THEOREM StartingChildSafe == Spec => StartingChildSpared
<1>1. TypeOK /\ SparedInv /\ [Next]_vars
        => [\A p \in doomed' \ doomed :
              child[p] = "spawning" => start.pc = "spawn" /\ start.pid = p]_vars
  BY SparedMove
<1>2. TypeOK /\ SparedInv /\ [Next]_vars => SparedInv'
  BY SparedStep
<1> QED
  BY <1>1, <1>2, SparedInit, SupervisorTypes, PTL
  DEF Spec, StartingChildSpared
-----------------------------------------------------------------------------
(***************************************************************************)
(* The open circuit.  A crash is counted for a daemon that was spawned, and *)
(* such a daemon is never in use while a start is in progress: the one that *)
(* is was handed over, and a successor is not a child.                      *)
(***************************************************************************)
SuccessorsForeign ==
    /\ \A x \in Pid : proc[x] = "unused" => parent[x] = NoPid
    /\ \A x \in Pid : parent[x] # NoPid => child[x] = "none"
    /\ upd.succ \in Pid => parent[upd.succ] # NoPid

StartedAlone ==
    instance # NoPid /\ child[instance] # "none" => start.pc = "idle"

OpenInv == SuccessorsForeign /\ StartedAlone /\ OpenCircuitIdle

LEMMA OpenInit == Init => OpenInv
BY SupervisorAssumption
DEF Init, OpenInv, SuccessorsForeign, StartedAlone, OpenCircuitIdle, UpdIdle

\* A listener is attached to a process when it is spawned, and to no other.
ChildrenKept ==
    \A x \in Pid : child[x] = "none" /\ proc[x] # "unused" => child'[x] = "none"

LEMMA EnsureChildren ==
  ASSUME TypeOK, NEW m, NEW open, NEW inst, NEW c \in [Pid -> ChildState],
         \A x \in Pid : child[x] = "none" => c[x] = "none",
         Ensure(m, c, open, inst)
  PROVE  ChildrenKept
<1>1. CASE child' = c
  BY <1>1 DEF ChildrenKept
<1>2. CASE Launch(c)
  BY <1>2 DEF Launch, ChildrenKept
<1> QED
  BY <1>1, <1>2 DEF Ensure, LaunchFails

LEMMA StepChildren ==
  ASSUME TypeOK, [Next]_vars
  PROVE  ChildrenKept
<1> USE DEF osVars, memVars, taskVars, bounds, hostVars
<1>0. child \in [Pid -> ChildState]
  BY DEF TypeOK
<1>1. CASE UNCHANGED child
  BY <1>1 DEF ChildrenKept
<1>2. CASE StartNext
  <2>1. CASE Bootstrap
    BY <1>0, <2>1, EnsureChildren DEF Bootstrap
  <2>2. CASE AdoptKilled
    BY <1>0, <1>1, <2>2 DEF AdoptKilled, Launch, ChildrenKept
  <2>3. CASE SpawnReady
    BY <1>0, <2>3 DEF SpawnReady, Watched, ChildrenKept
  <2> QED
    BY <1>1, <1>2, <2>1, <2>2, <2>3
    DEF StartNext, AdoptConnect, Adopt, AdoptProbeFails, SpawnTimeout,
        SpawnAborted
<1>3. ASSUME NEW p \in Pid, DeathNext(p)
      PROVE  ChildrenKept
  <2>1. ASSUME child[p] # "none"
        PROVE  /\ Reaped(p) \in [Pid -> ChildState]
               /\ \A x \in Pid : child[x] = "none" => Reaped(p)[x] = "none"
    BY <1>0, <2>1 DEF Reaped, ChildState
  <2>2. CASE child' = Reaped(p) /\ child[p] # "none"
    BY <2>1, <2>2 DEF ChildrenKept
  <2>3. ASSUME NEW n \in 1..(crashes + 1), ExitCrash(p, n)
        PROVE  ChildrenKept
    <3>1. /\ child[p] # "none"
          /\ child' = Reaped(p) \/ Ensure(NoPid, Reaped(p), circuitOpen, NoPid)
      BY <2>3 DEF ExitCrash, InstanceExits
    <3> QED
      BY <2>1, <2>2, <3>1, EnsureChildren
  <2> QED
    BY <1>1, <1>3, <2>2, <2>3
    DEF DeathNext, ExitIgnored, ExitExpected, InstanceExits, LivenessPoll
<1>4. ASSUME NEW r \in Caller, RestartNext(r)
      PROVE  ChildrenKept
  <2>1. UNCHANGED child \/ \E m : Ensure(m, child, FALSE, instance)
    BY <1>4
    DEF RestartNext, RestartBegin, RestartGo, RestartKilled, StopNow,
        RestartEnsure
  <2> QED
    BY <1>0, <1>1, <2>1, EnsureChildren
<1>5. CASE UpdateNext \/ UserUpdate \/ \E p \in Pid : PidNext(p)
  BY <1>1, <1>5
  DEF UpdateNext, UserUpdate, UpdateBegin, HandoffRefused, HandoffLost,
      UpdateEscalate, UpdateExited, UpdateProbe, PidNext, HandoffSpawn,
      HandoffAck, HandoffNak, RunAutoUpdate, AutoList, Escalate, Bind,
      BindSuccessor, Leave, Terminated
<1>6. CASE ClientSessions \/ FaultNext
  <2>1. CASE HostCrash
    BY <2>1 DEF HostCrash, ChildrenKept
  <2> QED
    BY <1>1, <1>6, <2>1 DEF ClientSessions, FaultNext, Crash, Hang, Resume
<1> QED
  BY <1>1, <1>2, <1>3, <1>4, <1>5, <1>6 DEF Next, vars

LEMMA SuccessorsStep ==
  ASSUME TypeOK, SparedInv, SuccessorsForeign, [Next]_vars
  PROVE  SuccessorsForeign'
<1> USE DEF osVars, memVars, taskVars, bounds, hostVars
<1>1. Moves /\ ChildrenKept
  BY StepMoves, StepChildren
<1>2. ASSUME parent' = parent, upd'.succ \in {upd.succ, NoPid}
      PROVE  SuccessorsForeign'
  BY <1>1, <1>2, SupervisorAssumption
  DEF SuccessorsForeign, Moves, ChildrenKept
<1>3. ASSUME NEW q \in Pid, HandoffSpawn(q)
      PROVE  SuccessorsForeign'
  <2>1. /\ parent' = [parent EXCEPT ![q] = sock] /\ sock # NoPid
        /\ proc[q] = "unused" /\ proc'[q] # "unused" /\ child' = child
        /\ upd'.succ = q
    BY <1>3 DEF HandoffSpawn, Reachable, TypeOK, UpdState, UpdIdle
  <2>2. child[q] = "none"
    BY <2>1 DEF SparedInv, ChildrenSpawned
  <2>3. parent'[q] = sock /\ \A x \in Pid : x # q => parent'[x] = parent[x]
    BY <2>1 DEF TypeOK
  <2> QED
    BY <1>1, <2>1, <2>2, <2>3 DEF SuccessorsForeign, Moves
<1>4. parent' = parent \/ \E q \in Pid : HandoffSpawn(q)
  BY DEF Next, vars, StartNext, Bootstrap, AdoptConnect, Adopt,
         AdoptProbeFails, AdoptKilled, SpawnReady, SpawnTimeout, SpawnAborted,
         DeathNext, ExitIgnored, ExitExpected, ExitCrash, LivenessPoll,
         RestartNext, RestartBegin, RestartGo, RestartKilled, UpdateNext,
         UserUpdate, UpdateBegin, HandoffRefused, HandoffLost, UpdateEscalate,
         UpdateExited, UpdateProbe, PidNext, HandoffAck, HandoffNak,
         RunAutoUpdate, AutoList, Escalate, Bind, BindSuccessor, Leave,
         Terminated, ClientSessions, FaultNext, Crash, Hang, Resume, HostCrash
<1>5. upd'.succ \in {upd.succ, NoPid} \/ \E q \in Pid : HandoffSpawn(q)
  <2>1. ASSUME NEW o \in PidOrNone, UpdateBegin(o)
        PROVE  upd'.succ = NoPid
    BY <2>1 DEF UpdateBegin
  <2>2. ASSUME NEW b, UpdateEnds(b)
        PROVE  upd'.succ = NoPid
    BY <2>2 DEF UpdateEnds, UpdIdle
  <2>3. CASE UpdateNext
    BY <2>2, <2>3
    DEF UpdateNext, HandoffRefused, HandoffLost, RestoreOnFailure,
        UpdateEscalate, UpdateExited, UpdateProbe, TypeOK, UpdState, UpdIdle
  <2>4. ASSUME NEW p \in Pid, PidNext(p)
        PROVE  upd'.succ \in {upd.succ, NoPid} \/ HandoffSpawn(p)
    <3>1. CASE HandoffAck(p)
      BY <3>1 DEF HandoffAck, TypeOK, UpdState, UpdIdle
    <3>2. CASE HandoffNak(p)
      BY <2>2, <3>2 DEF HandoffNak, RestoreOnFailure
    <3>3. CASE RunAutoUpdate(p)
      BY <2>1, <3>3 DEF RunAutoUpdate, PidOrNone
    <3> QED
      BY <2>4, <3>1, <3>2, <3>3
      DEF PidNext, AutoList, Escalate, Bind, BindSuccessor, Leave, Terminated
  <2>5. CASE UserUpdate
    BY <2>1, <2>5 DEF UserUpdate, PidOrNone
  <2>6. CASE HostCrash
    BY <2>6 DEF HostCrash, UpdIdle
  <2>7. upd' = upd \/ UserUpdate \/ UpdateNext \/ HostCrash
                   \/ \E p \in Pid : PidNext(p)
    BY DEF Next, vars, StartNext, Bootstrap, AdoptConnect, Adopt,
           AdoptProbeFails, AdoptKilled, SpawnReady, SpawnTimeout,
           SpawnAborted, DeathNext, ExitIgnored, ExitExpected, ExitCrash,
           LivenessPoll, RestartNext, RestartBegin, RestartGo, RestartKilled,
           ClientSessions, FaultNext, Crash, Hang, Resume
  <2> QED
    BY <2>3, <2>4, <2>5, <2>6, <2>7
<1> QED
  BY <1>2, <1>3, <1>4, <1>5

OpenNext == StartedAlone' /\ OpenCircuitIdle'

\* The instance is the same, or gone, and no start begins.
LEMMA OpenKept ==
  ASSUME TypeOK, SparedInv, OpenInv, ChildrenKept,
         instance' \in {instance, NoPid},
         circuitOpen' => circuitOpen,
         start' = start \/ start'.pc = "idle" \/ start.pc # "idle"
  PROVE  OpenNext
<1>1. instance' # NoPid => instance' = instance /\ instance \in Pid
  BY DEF TypeOK, PidOrNone
<1>2. instance' # NoPid /\ child'[instance'] # "none"
        => child[instance] # "none" /\ start.pc = "idle"
  BY <1>1 DEF SparedInv, RecordsKnown, Known, ChildrenKept, OpenInv,
              StartedAlone
<1>3. circuitOpen' => start.pc = "idle"
  BY DEF OpenInv, OpenCircuitIdle
<1>4. circuitOpen' /\ instance' # NoPid => child'[instance'] = "none"
  BY <1>1, <1>2 DEF OpenInv, OpenCircuitIdle
<1> QED
  BY <1>2, <1>3, <1>4 DEF OpenNext, StartedAlone, OpenCircuitIdle

\* There is no instance, and no start is in progress with the circuit open.
LEMMA OpenNoInstance ==
  ASSUME instance' = NoPid, circuitOpen' => start'.pc = "idle"
  PROVE  OpenNext
BY DEF OpenNext, StartedAlone, OpenCircuitIdle

LEMMA OpenStep ==
  ASSUME TypeOK, SparedInv, OpenInv, [Next]_vars
  PROVE  OpenNext
<1> USE DEF osVars, memVars, taskVars, bounds, hostVars
<1>0. ChildrenKept
  BY StepChildren
<1>1. ASSUME instance' \in {instance, NoPid}, circuitOpen' => circuitOpen,
             start' = start \/ start'.pc = "idle" \/ start.pc # "idle"
      PROVE  OpenNext
  BY <1>0, <1>1, OpenKept
<1>2. CASE StartNext
  <2>1. CASE Bootstrap
    <3>1. /\ Ensure(manifest, child, circuitOpen, instance)
          /\ UNCHANGED <<instance, circuitOpen>>
      BY <2>1 DEF Bootstrap
    <3>2. start' = start \/ (~circuitOpen /\ instance = NoPid)
      BY <3>1 DEF Ensure, Refused, LaunchFails
    <3>3. (circuitOpen' <=> circuitOpen) /\ instance' = instance
      BY <3>1
    <3> QED
      BY <1>1, <3>2, <3>3, OpenNoInstance
  <2>2. CASE Adopt \/ SpawnReady
    <3>1. start.pc # "idle" /\ start'.pc = "idle" /\ circuitOpen' = circuitOpen
      BY <2>2 DEF Adopt, SpawnReady, StartDone, StartIdle
    <3>2. ~circuitOpen
      BY <3>1 DEF OpenInv, OpenCircuitIdle
    <3> QED
      BY <3>1, <3>2 DEF OpenNext, StartedAlone, OpenCircuitIdle
  <2> QED
    BY <1>1, <1>2, <2>1, <2>2
    DEF StartNext, AdoptConnect, AdoptProbeFails, AdoptKilled, SpawnTimeout,
        SpawnAborted
<1>3. ASSUME NEW p \in Pid, DeathNext(p)
      PROVE  OpenNext
  <2>1. ASSUME NEW n \in 1..(crashes + 1), ExitCrash(p, n)
        PROVE  OpenNext
    <3>1. /\ instance = p /\ child[p] = "watched" /\ instance' = NoPid
          /\ \/ UNCHANGED start
             \/ circuitOpen' = circuitOpen
      BY <2>1 DEF ExitCrash, InstanceExits
    <3>2. instance # NoPid
      BY <3>1, SupervisorAssumption
    <3>3. start.pc = "idle" /\ ~circuitOpen
      BY <3>1, <3>2 DEF OpenInv, StartedAlone, OpenCircuitIdle
    <3> QED
      BY <3>1, <3>3, OpenNoInstance
  <2> QED
    BY <1>1, <1>3, <2>1
    DEF DeathNext, ExitIgnored, ExitExpected, InstanceExits, LivenessPoll
<1>4. ASSUME NEW r \in Caller, RestartNext(r)
      PROVE  OpenNext
  <2>1. ASSUME NEW m, RestartEnsure(r, m), instance' \in {instance, NoPid}
        PROVE  OpenNext
    <3>1. circuitOpen' = FALSE /\ Ensure(m, child, FALSE, instance)
      BY <2>1 DEF RestartEnsure
    <3>2. start' = start \/ instance = NoPid
      BY <3>1 DEF Ensure, Refused, LaunchFails
    <3> QED
      BY <1>1, <2>1, <3>1, <3>2, OpenNoInstance
  <2>2. ASSUME StopNow(r)
        PROVE  OpenNext
    BY <1>1, <2>1, <2>2 DEF StopNow, Forget
  <2> QED
    BY <1>1, <1>4, <2>1, <2>2
    DEF RestartNext, RestartBegin, RestartGo, RestartKilled
<1>5. CASE UpdateProbe
  <2>1. /\ instance' = upd.succ
        /\ UNCHANGED <<child, circuitOpen, start>>
    BY <1>5 DEF UpdateProbe
  <2>2. upd.succ \in PidOrNone
    BY DEF TypeOK, UpdState, UpdIdle, PidOrNone
  <2>3. instance' # NoPid => child'[instance'] = "none"
    BY <2>1, <2>2 DEF OpenInv, SuccessorsForeign, PidOrNone
  <2> QED
    BY <2>1, <2>3 DEF OpenInv, OpenNext, StartedAlone, OpenCircuitIdle
<1>6. CASE UserUpdate \/ UpdateNext
  BY <1>1, <1>5, <1>6
  DEF UserUpdate, UpdateBegin, UpdateNext, HandoffRefused, HandoffLost,
      RestoreOnFailure, UpdateEscalate, UpdateExited
<1>7. ASSUME NEW p \in Pid, PidNext(p)
      PROVE  OpenNext
  BY <1>1, <1>7
  DEF PidNext, HandoffSpawn, HandoffAck, HandoffNak, RestoreOnFailure,
      RunAutoUpdate, UpdateBegin, AutoList, Escalate, Bind, BindSuccessor,
      Leave, Terminated
<1>8. CASE ClientSessions \/ FaultNext
  <2>1. CASE HostCrash
    BY <2>1, OpenNoInstance DEF HostCrash
  <2> QED
    BY <1>1, <1>8, <2>1 DEF ClientSessions, FaultNext, Crash, Hang, Resume
<1>9. CASE UNCHANGED vars
  BY <1>1, <1>9 DEF vars
<1> QED
  BY <1>2, <1>3, <1>4, <1>6, <1>7, <1>8, <1>9 DEF Next

\* While the circuit breaker is open, nothing that the supervisor does brings
\* a daemon up: the exit handler, the bootstrap of a request and the steps of
\* a start that is under way included.
THEOREM OpenCircuitSafe == Spec => []OpenCircuitIdle
<1>1. Init => SparedInv /\ OpenInv
  BY SparedInit, OpenInit
<1>2. TypeOK /\ SparedInv /\ OpenInv /\ [Next]_vars => (SparedInv /\ OpenInv)'
  BY SparedStep, SuccessorsStep, OpenStep DEF OpenInv, OpenNext
<1>3. OpenInv => OpenCircuitIdle
  BY DEF OpenInv
<1> QED
  BY <1>1, <1>2, <1>3, SupervisorTypes, PTL DEF Spec
-----------------------------------------------------------------------------
(***************************************************************************)
(* A restart that no other meets.  While it waits for the process it has   *)
(* signalled, nothing brings that process back: not the start that was in  *)
(* progress, nor the handoff, nor an adoption from the manifest.           *)
(***************************************************************************)
\* forceRestart() is not called while another call is in progress.
Alone == \A r \in Caller : RestartBegin(r) => \A s \in Caller \ {r} : ~Busy(s)
NoOverlap == [][Alone]_vars

\* Nothing is asked of a supervisor before its bootstrap has succeeded.
BootInv ==
    /\ boot = "none" => start.pc = "idle"
    /\ boot # "ok" => /\ instance = NoPid /\ upd.pc = "idle"
                      /\ \A r \in Caller : ~Busy(r)
                      /\ \A p \in Pid : auto[p] = "idle"

OneBusy == \A r, s \in Caller : Busy(r) /\ Busy(s) => r = s

\* The daemon in use, the one that is being started or adopted and the one
\* that is being handed over to are different.
Apart ==
    /\ start.pc # "idle" /\ instance # NoPid => start.pid # instance
    /\ upd.succ \in Pid =>
         /\ upd.succ # instance /\ upd.succ # manifest
         /\ start.pc # "idle" => start.pid # upd.succ

\* The daemon that a restart ends is none of them.
Ending ==
    \A r \in Caller :
       restart[r].pc = "kill" =>
         /\ restart[r].pid # instance /\ restart[r].pid # upd.succ
         /\ start.pc # "idle" => start.pid # restart[r].pid
         /\ proc[restart[r].pid] # "unused"

FreshInv == BootInv /\ OneBusy /\ Apart /\ Ending

LEMMA FreshInit == Init => FreshInv
<1> SUFFICES ASSUME Init PROVE FreshInv
  OBVIOUS
<1>1. \A r \in Caller : restart[r].pc = "idle"
  BY DEF Init, RestartIdle
<1>2. /\ start.pc = "idle" /\ upd.pc = "idle" /\ upd.succ \notin Pid
      /\ instance = NoPid /\ \A p \in Pid : auto[p] = "idle"
  BY SupervisorAssumption DEF Init, StartIdle, UpdIdle
<1> QED
  BY <1>1, <1>2 DEF FreshInv, BootInv, OneBusy, Apart, Ending, Busy

\* What a step does to the daemons on record.
RecordsKept ==
    /\ instance' \in {instance, NoPid} /\ manifest' \in {manifest, NoPid}
    /\ upd'.succ \in {upd.succ, NoPid}
    /\ \/ start'.pc = "idle"
       \/ start.pc # "idle" /\ start'.pid = start.pid
StartUsed ==
    /\ start.pc # "idle" /\ start'.pc = "idle"
    /\ instance' = start.pid /\ manifest' \in {manifest, start.pid}
    /\ upd' = upd
UpdateOver ==
    /\ instance' \in {instance, upd.succ} /\ upd'.succ = NoPid
    /\ start' = start
SuccessorMade ==
    /\ upd'.succ \in Pid /\ proc[upd'.succ] = "unused"
    /\ UNCHANGED <<instance, manifest, start>>
Launched ==
    /\ start'.pid \in Pid /\ proc[start'.pid] = "unused"
    /\ instance' \in {instance, NoPid} /\ manifest' = NoPid /\ upd' = upd
FromManifest ==
    /\ boot = "none" \/ \E r \in Caller : RestartBegin(r) \/ RestartGo(r)
    /\ start'.pid = manifest /\ manifest' = manifest
    /\ instance' = NoPid /\ upd' = upd
RecordMoves ==
    \/ RecordsKept \/ StartUsed \/ UpdateOver
    \/ SuccessorMade \/ Launched \/ FromManifest

\* ensure() when it is given the manifest, or finds it cleared.
LEMMA EnsureRecordMoves ==
  ASSUME TypeOK, NEW m, NEW c, NEW open, NEW inst, Ensure(m, c, open, inst),
         instance' \in {instance, NoPid}, upd' = upd,
         m \in {manifest, NoPid}
  PROVE  \/ RecordsKept \/ Launched
         \/ /\ m = manifest /\ m # NoPid /\ inst = NoPid
            /\ start'.pid = manifest /\ manifest' = manifest
<1>1. CASE UNCHANGED start /\ manifest' \in {m, NoPid}
  BY <1>1 DEF RecordsKept
<1>2. CASE Launch(c) /\ manifest' = NoPid
  <2>1. PICK p \in Pid : proc[p] = "unused" /\ start' = [pc |-> "spawn", pid |-> p]
    BY <1>2 DEF Launch
  <2> QED
    BY <1>2, <2>1 DEF Launched
<1>3. CASE /\ start' = [pc |-> "connect", pid |-> m] /\ manifest' = m
           /\ Adoptable(m) /\ ~Refused(open, inst)
  BY <1>3 DEF Adoptable, Refused
<1> QED
  BY <1>1, <1>2, <1>3 DEF Ensure, LaunchFails

LEMMA StepRecordMoves ==
  ASSUME TypeOK, [Next]_vars
  PROVE  RecordMoves
<1> USE DEF osVars, memVars, taskVars, bounds, hostVars
<1>1. CASE UNCHANGED <<start, upd>> /\ instance' \in {instance, NoPid}
              /\ manifest' \in {manifest, NoPid}
  BY <1>1 DEF RecordMoves, RecordsKept
<1>2. CASE UNCHANGED <<manifest, instance, start, upd>>
  BY <1>1, <1>2
<1>3. CASE StartNext
  <2>1. CASE Bootstrap
    <3>1. /\ Ensure(manifest, child, circuitOpen, instance) /\ boot = "none"
          /\ UNCHANGED <<instance, upd>>
      BY <2>1 DEF Bootstrap
    <3> QED
      BY <3>1, EnsureRecordMoves DEF RecordMoves, FromManifest
  <2>2. ASSUME NEW t \in {"probe", "kill", "abort"}, start.pc # "idle",
               start' = [start EXCEPT !.pc = t],
               UNCHANGED <<instance, manifest, upd>>
        PROVE  RecordMoves
    <3>1. start'.pid = start.pid
      BY <2>2, StartNamed
    <3> QED
      BY <2>2, <3>1 DEF RecordMoves, RecordsKept
  <2>3. CASE AdoptConnect \/ AdoptProbeFails \/ SpawnTimeout
    BY <2>2, <2>3
    DEF AdoptConnect, AdoptProbeFails, SpawnTimeout, AdoptReject
  <2>4. CASE Adopt \/ SpawnReady
    BY <2>4
    DEF Adopt, SpawnReady, StartDone, StartIdle, RecordMoves, StartUsed
  <2>5. CASE AdoptKilled
    <3>1. UNCHANGED <<instance, upd>> /\ manifest' = NoPid
      BY <2>5 DEF AdoptKilled
    <3>2. CASE Launch(child)
      <4>1. PICK p \in Pid : /\ proc[p] = "unused"
                             /\ start' = [pc |-> "spawn", pid |-> p]
        BY <3>2 DEF Launch
      <4> QED
        BY <3>1, <4>1 DEF RecordMoves, Launched
    <3>3. CASE StartDone(FALSE)
      <4>1. start'.pc = "idle"
        BY <3>3 DEF StartDone, StartIdle
      <4> QED
        BY <3>1, <4>1 DEF RecordMoves, RecordsKept
    <3> QED
      BY <2>5, <3>2, <3>3 DEF AdoptKilled
  <2>6. CASE SpawnAborted
    <3>1. start'.pc = "idle"
      BY <2>6 DEF SpawnAborted, StartDone, StartIdle
    <3> QED
      BY <2>6, <3>1 DEF SpawnAborted, RecordMoves, RecordsKept
  <2> QED
    BY <1>3, <2>1, <2>3, <2>4, <2>5, <2>6 DEF StartNext
<1>4. ASSUME NEW p \in Pid, DeathNext(p)
      PROVE  RecordMoves
  <2>1. ASSUME NEW n \in 1..(crashes + 1), ExitCrash(p, n)
        PROVE  RecordMoves
    <3>1. instance' = NoPid /\ upd' = upd
      BY <2>1 DEF ExitCrash, InstanceExits
    <3>2. CASE UNCHANGED start /\ manifest' = NoPid
      BY <1>1, <3>1, <3>2
    <3>3. CASE Ensure(NoPid, Reaped(p), circuitOpen, NoPid)
      BY <3>1, <3>3, EnsureRecordMoves DEF RecordMoves
    <3> QED
      BY <2>1, <3>2, <3>3 DEF ExitCrash
  <2> QED
    BY <1>1, <1>4, <2>1
    DEF DeathNext, ExitIgnored, ExitExpected, InstanceExits, LivenessPoll
<1>5. ASSUME NEW r \in Caller, RestartNext(r)
      PROVE  RecordMoves
  <2>1. ASSUME StopNow(r), upd' = upd, RestartBegin(r) \/ RestartGo(r)
        PROVE  RecordMoves
    <3>1. instance' = NoPid
      BY <2>1 DEF StopNow, Forget
    <3>2. CASE instance = NoPid /\ RestartEnsure(r, manifest)
      <4>1. Ensure(manifest, child, FALSE, instance)
        BY <3>2 DEF RestartEnsure
      <4>2. \/ RecordsKept \/ Launched
            \/ start'.pid = manifest /\ manifest' = manifest
        BY <2>1, <3>1, <4>1, EnsureRecordMoves
      <4> QED
        BY <2>1, <3>1, <4>2 DEF RecordMoves, FromManifest
    <3>3. CASE UNCHANGED <<start, manifest>>
      BY <1>1, <2>1, <3>1, <3>3
    <3> QED
      BY <2>1, <3>2, <3>3 DEF StopNow
  <2>2. CASE RestartBegin(r)
    BY <1>2, <2>1, <2>2 DEF RestartBegin
  <2>3. CASE RestartGo(r)
    BY <2>1, <2>3 DEF RestartGo
  <2>4. CASE RestartKilled(r)
    <3>1. Ensure(NoPid, child, FALSE, instance) /\ UNCHANGED <<instance, upd>>
      BY <2>4 DEF RestartKilled, RestartEnsure
    <3> QED
      BY <3>1, EnsureRecordMoves DEF RecordMoves
  <2> QED
    BY <1>5, <2>2, <2>3, <2>4 DEF RestartNext
<1>6. ASSUME NEW o, UpdateBegin(o)
      PROVE  RecordMoves
  BY <1>6 DEF UpdateBegin, RecordMoves, RecordsKept
<1>7. ASSUME RestoreOnFailure, UNCHANGED start
      PROVE  RecordMoves
  BY <1>7
  DEF RestoreOnFailure, UpdateEnds, UpdIdle, RecordMoves, UpdateOver
<1>8. CASE UserUpdate \/ UpdateNext
  <2>1. CASE UserUpdate
    BY <1>6, <2>1 DEF UserUpdate
  <2>2. CASE UpdateEscalate
    BY <1>2, <2>2 DEF UpdateEscalate
  <2>3. CASE UpdateExited
    <3>1. upd'.succ = upd.succ
      BY <2>3 DEF UpdateExited, TypeOK, UpdState, UpdIdle
    <3> QED
      BY <2>3, <3>1 DEF UpdateExited, RecordMoves, RecordsKept
  <2>4. CASE UpdateProbe
    BY <2>4 DEF UpdateProbe, UpdateEnds, UpdIdle, RecordMoves, UpdateOver
  <2> QED
    BY <1>7, <1>8, <2>1, <2>2, <2>3, <2>4
    DEF UpdateNext, HandoffRefused, HandoffLost
<1>9. ASSUME NEW q \in Pid, PidNext(q)
      PROVE  RecordMoves
  <2>1. CASE HandoffSpawn(q)
    <3>1. upd'.succ = q
      BY <2>1 DEF HandoffSpawn, TypeOK, UpdState, UpdIdle
    <3> QED
      BY <2>1, <3>1 DEF HandoffSpawn, RecordMoves, SuccessorMade
  <2>2. CASE HandoffAck(q)
    <3>1. upd'.succ = upd.succ
      BY <2>2 DEF HandoffAck, TypeOK, UpdState, UpdIdle
    <3> QED
      BY <2>2, <3>1 DEF HandoffAck, RecordMoves, RecordsKept
  <2>3. CASE HandoffNak(q)
    BY <1>2, <1>7, <2>3 DEF HandoffNak
  <2>4. CASE RunAutoUpdate(q)
    BY <1>2, <1>6, <2>4 DEF RunAutoUpdate
  <2> QED
    BY <1>2, <1>9, <2>1, <2>2, <2>3, <2>4
    DEF PidNext, AutoList, Escalate, Bind, BindSuccessor, Leave, Terminated
<1>10. CASE ClientSessions \/ FaultNext
  <2>1. CASE HostCrash
    <3>1. start'.pc = "idle" /\ upd'.succ = NoPid
      BY <2>1 DEF HostCrash, StartIdle, UpdIdle
    <3> QED
      BY <2>1, <3>1 DEF HostCrash, RecordMoves, RecordsKept
  <2> QED
    BY <1>2, <1>10, <2>1 DEF ClientSessions, FaultNext, Crash, Hang, Resume
<1>11. CASE UNCHANGED vars
  BY <1>2, <1>11 DEF vars
<1> QED
  BY <1>3, <1>4, <1>5, <1>8, <1>9, <1>10, <1>11 DEF Next

\* Whom a step makes busy, and with what.
LEMMA RestartMoves ==
  ASSUME TypeOK, [Next]_vars, NEW r \in Caller
  PROVE  \/ restart'[r] = restart[r]
         \/ restart'[r].pc \notin {"wait", "go", "kill"}
         \/ Busy(r) /\ restart'[r].pc = "go"
         \/ RestartBegin(r) \/ RestartGo(r)
<1> USE DEF osVars, memVars, taskVars, bounds, hostVars
<1>1. restart \in [Caller -> RestartState]
  BY DEF TypeOK
<1>2. CASE UNCHANGED restart
  BY <1>2
<1>3. ASSUME NEW ok, StartDone(ok)
      PROVE  \/ restart'[r] = restart[r]
             \/ Busy(r) /\ restart'[r].pc = "go"
  BY <1>1, <1>3 DEF StartDone, Busy, RestartState
<1>4. CASE StartNext
  BY <1>2, <1>3, <1>4
  DEF StartNext, Bootstrap, AdoptConnect, AdoptProbeFails, Adopt, AdoptKilled,
      SpawnReady, SpawnTimeout, SpawnAborted
<1>5. ASSUME NEW s \in Caller, RestartNext(s), s # r
      PROVE  restart'[r] = restart[r]
  BY <1>1, <1>5
  DEF RestartNext, RestartBegin, RestartGo, RestartKilled, StopNow,
      RestartEnsure
<1>6. CASE RestartKilled(r)
  BY <1>1, <1>6 DEF RestartKilled, RestartEnsure, Ended
<1>7. CASE HostCrash
  <2>1. CASE Busy(r)
    BY <1>7, <2>1 DEF HostCrash, Ended
  <2>2. CASE ~Busy(r)
    BY <1>7, <2>2 DEF HostCrash
  <2> QED
    BY <2>1, <2>2
<1>8. \/ UNCHANGED restart \/ StartNext \/ HostCrash
      \/ \E s \in Caller : RestartNext(s)
  BY DEF Next, vars, DeathNext, ExitIgnored, ExitExpected, ExitCrash,
         LivenessPoll, UserUpdate, UpdateBegin, UpdateNext, HandoffRefused,
         HandoffLost, UpdateEscalate, UpdateExited, UpdateProbe, PidNext,
         HandoffSpawn, HandoffAck, HandoffNak, RunAutoUpdate, AutoList,
         Escalate, Bind, BindSuccessor, Leave, Terminated, ClientSessions,
         FaultNext, Crash, Hang, Resume
<1> QED
  BY <1>2, <1>4, <1>5, <1>6, <1>7, <1>8 DEF RestartNext

LEMMA OneBusyStep ==
  ASSUME TypeOK, OneBusy, [Next]_vars, [Alone]_vars
  PROVE  OneBusy'
<1>1. ASSUME NEW r \in Caller, Busy(r)', ~Busy(r)
      PROVE  RestartBegin(r) /\ \A s \in Caller \ {r} : ~Busy(s)
  <2>1. RestartBegin(r)
    BY <1>1, RestartMoves DEF Busy, RestartGo
  <2>2. vars' # vars
    BY <1>1 DEF vars, taskVars, Busy
  <2> QED
    BY <2>1, <2>2 DEF Alone
<1>2. ASSUME NEW r \in Caller, NEW s \in Caller, RestartBegin(r), r # s,
             ~Busy(s)
      PROVE  ~Busy(s)'
  <2>1. restart'[s] = restart[s]
    BY <1>2 DEF RestartBegin, StopNow, RestartEnsure, TypeOK
  <2> QED
    BY <1>2, <2>1 DEF Busy
<1> QED
  BY <1>1, <1>2 DEF OneBusy

\* The bootstrap promise is set before anything else is done, and only the
\* death of host-service unsets one that was fulfilled.
LEMMA BootStep ==
  ASSUME TypeOK, BootInv, [Next]_vars
  PROVE  BootInv'
<1> USE DEF osVars, memVars, taskVars, bounds, hostVars
<1> DEFINE Idle == /\ instance = NoPid /\ upd.pc = "idle"
                   /\ \A r \in Caller : ~Busy(r)
                   /\ \A p \in Pid : auto[p] = "idle"
<1>1. CASE boot = "ok"
  <2>1. CASE HostCrash
    <3>1. start'.pc = "idle" /\ upd'.pc = "idle"
      BY <2>1 DEF HostCrash, StartIdle, UpdIdle
    <3>2. \A r \in Caller : ~Busy(r)'
      BY <2>1 DEF HostCrash, Busy, Ended
    <3> QED
      BY <2>1, <3>1, <3>2 DEF HostCrash, BootInv
  <2>2. CASE boot' = "ok"
    BY <2>2 DEF BootInv
  <2>3. boot' = "ok" \/ HostCrash
    BY <1>1
    DEF Next, vars, StartNext, Bootstrap, AdoptConnect, Adopt, AdoptProbeFails,
        AdoptKilled, SpawnReady, SpawnTimeout, SpawnAborted, StartDone,
        DeathNext, ExitIgnored, ExitExpected, ExitCrash, LivenessPoll,
        RestartNext, RestartBegin, RestartGo, RestartKilled, UpdateNext,
        UserUpdate, UpdateBegin, HandoffRefused, HandoffLost, RestoreOnFailure,
        UpdateEnds, UpdateEscalate, UpdateExited, UpdateProbe, PidNext,
        HandoffSpawn, HandoffAck, HandoffNak, RunAutoUpdate, AutoList,
        Escalate, Bind, BindSuccessor, Leave, Terminated, ClientSessions,
        FaultNext, Crash, Hang, Resume
  <2> QED
    BY <2>1, <2>2, <2>3
<1>2. CASE boot # "ok"
  <2>0. /\ Idle /\ boot \in {"none", "pending"}
        /\ boot = "none" => start.pc = "idle"
    BY <1>2 DEF BootInv, TypeOK
  <2>1. CASE UNCHANGED <<boot, start, instance, upd, restart, auto>>
    BY <2>0, <2>1 DEF BootInv, Busy
  <2>2. CASE StartNext
    <3>1. CASE Bootstrap
      <4>1. UNCHANGED <<instance, upd, restart, auto>>
        BY <3>1 DEF Bootstrap
      <4>2. boot' = "none" => start'.pc = "idle"
        BY <2>0, <3>1 DEF Bootstrap, Ensure, Refused
      <4> QED
        BY <2>0, <4>1, <4>2 DEF BootInv, Busy
    <3>2. CASE AdoptConnect \/ AdoptProbeFails \/ SpawnTimeout
      BY <2>0, <3>2
      DEF AdoptConnect, AdoptProbeFails, SpawnTimeout, BootInv, Busy
    <3>3. ASSUME StartDone(TRUE), start.pc # "idle"
          PROVE  boot' = "ok"
      BY <2>0, <3>3 DEF StartDone
    <3>4. CASE Adopt \/ SpawnReady
      BY <3>3, <3>4 DEF Adopt, SpawnReady, BootInv
    <3>5. ASSUME StartDone(FALSE), UNCHANGED <<instance, upd, auto>>
          PROVE  BootInv'
      <4>1. start'.pc = "idle"
        BY <3>5 DEF StartDone, StartIdle
      <4>2. \A r \in Caller : restart'[r] = restart[r]
        BY <2>0, <3>5 DEF StartDone, Busy
      <4> QED
        BY <2>0, <3>5, <4>1, <4>2 DEF BootInv, Busy
    <3>6. CASE SpawnAborted
      BY <3>5, <3>6 DEF SpawnAborted
    <3>7. CASE AdoptKilled
      <4>1. UNCHANGED <<instance, upd, auto>> /\ start.pc # "idle"
        BY <3>7 DEF AdoptKilled
      <4>2. CASE StartDone(FALSE)
        BY <3>5, <4>1, <4>2
      <4>3. CASE UNCHANGED <<boot, restart>>
        BY <2>0, <4>1, <4>3 DEF BootInv, Busy
      <4> QED
        BY <3>7, <4>2, <4>3 DEF AdoptKilled
    <3> QED
      BY <2>2, <3>1, <3>2, <3>4, <3>6, <3>7 DEF StartNext
  <2>3. ASSUME NEW p \in Pid, DeathNext(p)
        PROVE  BootInv'
    BY <2>0, <2>1, <2>3, SupervisorAssumption
    DEF DeathNext, ExitIgnored, ExitExpected, ExitCrash, InstanceExits,
        LivenessPoll
  <2>4. ~\E r \in Caller : RestartNext(r)
    BY <1>2, <2>0
    DEF RestartNext, RestartBegin, RestartGo, RestartKilled, Busy, Caller
  <2>5. ~UserUpdate /\ ~UpdateNext
    BY <1>2, <2>0
    DEF UserUpdate, UpdateNext, HandoffRefused, HandoffLost, UpdateEscalate,
        UpdateExited, UpdateProbe
  <2>6. ASSUME NEW p \in Pid, PidNext(p)
        PROVE  BootInv'
    BY <2>0, <2>1, <2>6
    DEF PidNext, HandoffSpawn, HandoffAck, HandoffNak, RunAutoUpdate, AutoList,
        Escalate, Bind, BindSuccessor, Leave, Terminated
  <2>7. CASE ClientSessions \/ FaultNext
    <3>1. CASE HostCrash
      <4>1. start'.pc = "idle" /\ upd'.pc = "idle"
        BY <3>1 DEF HostCrash, StartIdle, UpdIdle
      <4>2. \A r \in Caller : ~Busy(r)'
        BY <3>1 DEF HostCrash, Busy, Ended
      <4> QED
        BY <3>1, <4>1, <4>2 DEF HostCrash, BootInv
    <3> QED
      BY <2>1, <2>7, <3>1 DEF ClientSessions, FaultNext, Crash, Hang, Resume
  <2> QED
    BY <2>1, <2>2, <2>3, <2>4, <2>5, <2>6, <2>7 DEF Next, vars
<1> QED
  BY <1>1, <1>2

LEMMA ApartStep ==
  ASSUME TypeOK, SparedInv, Apart, RecordMoves
  PROVE  Apart'
<1>1. /\ instance \in Pid => proc[instance] # "unused"
      /\ manifest \in Pid => proc[manifest] # "unused"
      /\ upd.succ \in Pid => proc[upd.succ] # "unused"
      /\ start.pc # "idle" => start.pid \in Pid /\ proc[start.pid] # "unused"
  BY StartNamed DEF SparedInv, RecordsKnown, Known
<1>2. instance \in PidOrNone /\ manifest \in PidOrNone /\ NoPid \notin Pid
  BY SupervisorAssumption DEF TypeOK
<1>3. upd.succ \in PidOrNone
  BY DEF TypeOK, UpdState, UpdIdle, PidOrNone
<1>4. CASE RecordsKept
  BY <1>1, <1>2, <1>4 DEF RecordsKept, Apart
<1>5. CASE StartUsed
  BY <1>1, <1>2, <1>5 DEF StartUsed, Apart
<1>6. CASE UpdateOver
  BY <1>1, <1>2, <1>3, <1>6 DEF UpdateOver, Apart, PidOrNone
<1>7. CASE SuccessorMade
  BY <1>1, <1>2, <1>7 DEF SuccessorMade, Apart
<1>8. CASE Launched
  BY <1>1, <1>2, <1>8 DEF Launched, Apart, PidOrNone
<1>9. CASE FromManifest
  BY <1>1, <1>2, <1>9 DEF FromManifest, Apart
<1> QED
  BY <1>4, <1>5, <1>6, <1>7, <1>8, <1>9 DEF RecordMoves

\* The daemon that is being ended stays apart from the others.
LEMMA EndingKept ==
  ASSUME TypeOK, SparedInv, FreshInv, [Alone]_vars, RecordMoves, Moves,
         NEW r \in Caller, restart[r].pc = "kill", restart'[r] = restart[r]
  PROVE  /\ restart[r].pid # instance' /\ restart[r].pid # upd'.succ
         /\ start'.pc # "idle" => start'.pid # restart[r].pid
         /\ proc'[restart[r].pid] # "unused"
<1>1. restart[r].pid \in Pid /\ NoPid \notin Pid
  BY SupervisorAssumption DEF TypeOK, RestartState
<1>2. /\ restart[r].pid # instance /\ restart[r].pid # upd.succ
      /\ start.pc # "idle" => start.pid # restart[r].pid
      /\ proc[restart[r].pid] # "unused"
  BY DEF FreshInv, Ending
<1>3. proc'[restart[r].pid] # "unused"
  BY <1>1, <1>2 DEF Moves
<1>4. CASE RecordsKept
  BY <1>1, <1>2, <1>3, <1>4 DEF RecordsKept
<1>5. CASE StartUsed
  BY <1>1, <1>2, <1>3, <1>5 DEF StartUsed
<1>6. CASE UpdateOver
  BY <1>1, <1>2, <1>3, <1>6 DEF UpdateOver
<1>7. CASE SuccessorMade
  BY <1>1, <1>2, <1>3, <1>7 DEF SuccessorMade
<1>8. CASE Launched
  BY <1>1, <1>2, <1>3, <1>8 DEF Launched
<1>9. CASE UNCHANGED vars
  BY <1>1, <1>2, <1>9 DEF vars, osVars, memVars, taskVars
<1>10. ASSUME FromManifest, Alone
       PROVE  FALSE
  <2>1. Busy(r) /\ boot # "none"
    BY DEF FreshInv, BootInv, Busy
  <2>2. ASSUME NEW s \in Caller, RestartGo(s)
        PROVE  FALSE
    <3>1. Busy(s) /\ restart[s].pc = "go"
      BY <2>2 DEF RestartGo, Busy
    <3> QED
      BY <2>1, <3>1 DEF FreshInv, OneBusy
  <2>3. ASSUME NEW s \in Caller, RestartBegin(s)
        PROVE  FALSE
    <3>1. s # r
      BY <2>1, <2>3 DEF RestartBegin
    <3> QED
      BY <1>10, <2>1, <2>3, <3>1 DEF Alone
  <2> QED
    BY <1>10, <2>1, <2>2, <2>3 DEF FromManifest
<1> QED
  BY <1>4, <1>5, <1>6, <1>7, <1>8, <1>9, <1>10 DEF RecordMoves

\* It was the daemon in use, and nobody else had it in hand.
LEMMA EndingBegins ==
  ASSUME TypeOK, SparedInv, FreshInv, Moves, NEW r \in Caller,
         RestartBegin(r) \/ RestartGo(r), restart'[r].pc = "kill"
  PROVE  /\ restart'[r].pid # instance' /\ restart'[r].pid # upd'.succ
         /\ start'.pc # "idle" => start'.pid # restart'[r].pid
         /\ proc'[restart'[r].pid] # "unused"
<1>1. restart \in [Caller -> RestartState]
  BY DEF TypeOK
<1>2. upd' = upd
  BY DEF RestartBegin, RestartGo, vars
<1>3. StopNow(r)
  <2>1. restart' # [restart EXCEPT ![r] = [pc |-> "wait", pid |-> NoPid]]
    BY <1>1
  <2> QED
    BY <2>1 DEF RestartBegin, RestartGo
<1>4. ~RestartEnsure(r, manifest)
  <2>1. Ended(r).pc # "kill"
    BY DEF Ended
  <2> QED
    BY <1>1, <2>1 DEF RestartEnsure
<1>5. /\ instance # NoPid /\ instance' = NoPid /\ start' = start
      /\ restart'[r].pid = instance
  BY <1>1, <1>3, <1>4 DEF StopNow, Forget
<1>6. instance \in Pid /\ proc[instance] # "unused"
  BY <1>5 DEF TypeOK, PidOrNone, SparedInv, RecordsKnown, Known
<1> QED
  BY <1>2, <1>5, <1>6 DEF FreshInv, Apart, Moves

LEMMA FreshStep ==
  ASSUME TypeOK, SparedInv, FreshInv, [Next]_vars, [Alone]_vars
  PROVE  FreshInv'
<1>1. Moves /\ RecordMoves
  BY StepMoves, StepRecordMoves
<1>2. BootInv' /\ OneBusy' /\ Apart'
  BY <1>1, BootStep, OneBusyStep, ApartStep DEF FreshInv
<1>3. ASSUME NEW r \in Caller, restart'[r].pc = "kill"
      PROVE  /\ restart'[r].pid # instance' /\ restart'[r].pid # upd'.succ
             /\ start'.pc # "idle" => start'.pid # restart'[r].pid
             /\ proc'[restart'[r].pid] # "unused"
  <2>1. restart'[r] = restart[r] \/ RestartBegin(r) \/ RestartGo(r)
    BY <1>3, RestartMoves
  <2>2. CASE restart'[r] = restart[r]
    BY <1>1, <1>3, <2>2, EndingKept
  <2> QED
    BY <1>1, <1>3, <2>1, <2>2, EndingBegins
<1> QED
  BY <1>2, <1>3 DEF FreshInv, Ending

\* When restarts do not overlap, one never ends with the daemon it was to end
\* as the current one, whatever starts, updates and failures run beside it.
THEOREM RestartEndsFresh == Spec /\ NoOverlap => RestartFresh
<1>1. Init => SparedInv /\ FreshInv
  BY SparedInit, FreshInit
<1>2. /\ TypeOK /\ SparedInv /\ FreshInv /\ [Next]_vars /\ [Alone]_vars
      => (SparedInv /\ FreshInv)'
  BY SparedStep, FreshStep
<1>3. FreshInv => [\A r \in Caller :
                     restart[r].pc = "kill" /\ restart'[r].pc # "kill"
                     /\ boot' # "none" => instance # restart[r].pid]_vars
  BY DEF FreshInv, Ending
<1> QED
  BY <1>1, <1>2, <1>3, SupervisorTypes, PTL DEF Spec, NoOverlap, RestartFresh

\* Without auto-updates no daemon has a task of its own.
AutoIdle == \A p \in Pid : auto[p] = "idle"

LEMMA AutoOff ==
  ASSUME AutoUpdate = FALSE
  PROVE  Spec => []AutoIdle
<1> USE DEF osVars, memVars, taskVars, bounds, hostVars
<1>1. Init => AutoIdle
  BY DEF Init, AutoIdle
<1>2. TypeOK /\ AutoIdle /\ [Next]_vars => AutoIdle'
  <2> SUFFICES ASSUME TypeOK, AutoIdle, [Next]_vars PROVE AutoIdle'
    OBVIOUS
  <2>1. ASSUME NEW failed, UpdateEnds(failed)
        PROVE  AutoIdle'
    BY <2>1 DEF UpdateEnds, AutoIdle
  <2>2. CASE UpdateNext \/ \E p \in Pid : HandoffNak(p)
    BY <2>1, <2>2
    DEF UpdateNext, HandoffRefused, HandoffLost, RestoreOnFailure,
        UpdateEscalate, UpdateExited, UpdateProbe, HandoffNak, AutoIdle
  <2>3. CASE Adopt
    BY <2>3 DEF Adopt, AutoIdle, TypeOK
  <2>4. CASE HostCrash
    BY <2>4 DEF HostCrash, AutoIdle
  <2>5. ASSUME NEW p \in Pid, RunAutoUpdate(p) \/ AutoList(p)
        PROVE  FALSE
    BY <2>5 DEF RunAutoUpdate, AutoList, AutoIdle
  <2>6. ASSUME NEW r \in Caller, RestartNext(r)
        PROVE  UNCHANGED auto
    BY <2>6
    DEF RestartNext, RestartBegin, RestartGo, RestartKilled, AutoIdle, Caller
  <2>7. \/ UNCHANGED auto \/ UpdateNext \/ Adopt \/ HostCrash
        \/ \E p \in Pid : HandoffNak(p) \/ RunAutoUpdate(p) \/ AutoList(p)
    BY <2>6
    DEF Next, vars, StartNext, Bootstrap, AdoptConnect, AdoptProbeFails,
        AdoptKilled, SpawnReady, SpawnTimeout, SpawnAborted, DeathNext,
        ExitIgnored, ExitExpected, ExitCrash, LivenessPoll, UserUpdate,
        PidNext, HandoffSpawn, HandoffAck, Escalate, Bind, BindSuccessor,
        Leave, Terminated, ClientSessions, FaultNext, Crash, Hang, Resume
  <2> QED
    BY <2>2, <2>3, <2>4, <2>5, <2>7 DEF AutoIdle
<1> QED
  BY <1>1, <1>2, SupervisorTypes, PTL DEF Spec

\* Then one user alone, who asks once, meets no other restart.
THEOREM OneUserAlone ==
  ASSUME AutoUpdate = FALSE, \A r, s \in User : r = s
  PROVE  Spec => NoOverlap
<1> DEFINE UserAlone == AutoIdle /\ \A r \in Pid : ~Busy(r)
<1>1. Init => UserAlone
  BY DEF Init, AutoIdle, Busy, RestartIdle, Caller
<1>2. TypeOK /\ UserAlone /\ AutoIdle' /\ [Next]_vars => UserAlone'
  <2> SUFFICES ASSUME TypeOK, UserAlone, AutoIdle', [Next]_vars, NEW r \in Pid
               PROVE  ~Busy(r)'
    OBVIOUS
  <2>1. r \in Caller /\ r \notin User
    BY SupervisorAssumption DEF Caller
  <2>2. ~RestartBegin(r) /\ ~RestartGo(r)
    BY <2>1 DEF RestartBegin, RestartGo, AutoIdle, Busy
  <2> QED
    BY <2>1, <2>2, RestartMoves DEF Busy
<1>3. UserAlone => [Alone]_vars
  BY SupervisorAssumption DEF Alone, RestartBegin, AutoIdle, Caller, Busy
<1> QED
  BY <1>1, <1>2, <1>3, AutoOff, SupervisorTypes, PTL DEF Spec, NoOverlap
=============================================================================
