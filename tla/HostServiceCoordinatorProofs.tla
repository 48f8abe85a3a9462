-------------------- MODULE HostServiceCoordinatorProofs --------------------
(***************************************************************************)
(* Theorems about the coordinator of host-service processes, for any       *)
(* numbers of processes, versions, quits and faults.                       *)
(***************************************************************************)
EXTENDS HostServiceCoordinator, FiniteSetTheorems, TLAPS

USE CoordinatorAssumption

-----------------------------------------------------------------------------
(***************************************************************************)
(* Types.                                                                  *)
(***************************************************************************)
\* The bound on the ends of Electron is met when one begins.
Closing == electron \in {"quitting", "closing"} => quits < MaxQuits

\* Groups of the steps of Next.
StartNext ==
    \/ Start \/ \E c \in {"start", "quit"} : Answer(c)
    \/ Adopt \/ Replace \/ Disown
SpawnNext ==
    \/ PortFound \/ PortFails \/ EnvFails \/ SpawnFails
    \/ Healthy \/ HealthTimeout
    \/ \E p \in Proc : SpawnChild(p) \/ ExitEvent(p)
ControlNext == Stop \/ Restart \/ Reset \/ Poll
ElectronNext == Release \/ QuitCompletely \/ TearDown \/ Exit \/ CrashElectron \/ Relaunch
ServiceNext(p) == Listen(p) \/ Terminate(p) \/ Crash(p) \/ Stall(p) \/ Recover(p)

LEMMA NextGroups ==
  ASSUME Next
  PROVE  \/ StartNext \/ SpawnNext \/ ControlNext \/ ElectronNext
         \/ \E p \in Proc : ServiceNext(p)
  BY DEF Next, StartNext, SpawnNext, ControlNext, ElectronNext, ServiceNext

LEMMA CheckTypes ==
  ASSUME TypeOK
  PROVE  /\ check["start"].pid \in Pid /\ check["quit"].pid \in Pid
         /\ check["start"].answer \in {"none", "ok", "bad"}
         /\ check["quit"].answer \in {"none", "ok", "bad"}
         /\ instance.pid \in Pid
         /\ instance.status \in {"starting", "running", "stopped"}
  BY DEF TypeOK

LEMMA RecordTypes ==
  /\ NoCheck \in [pid : Pid, answer : {"none", "ok", "bad"}]
  /\ NoInstance \in [pid : Pid, status : {"starting", "running", "stopped"}]
  /\ \A p \in Pid : /\ Awaited(p) \in [pid : Pid, answer : {"none", "ok", "bad"}]
                    /\ Running(p) \in [pid : Pid, status : {"starting", "running", "stopped"}]
                    /\ Starting(p) \in [pid : Pid, status : {"starting", "running", "stopped"}]
  BY DEF NoCheck, NoInstance, Awaited, Running, Starting, Pid

LEMMA BeginTypes ==
  ASSUME TypeOK, NEW i, NEW m \in Pid, Begin(i, m)
  PROVE  /\ manifest' \in Pid
         /\ phase' \in {"idle", "discover", "verify", "port", "env", "health"}
         /\ check' \in [{"start", "quit"} -> [pid : Pid, answer : {"none", "ok", "bad"}]]
<1>1. NoProc \in Pid /\ Awaited(m) \in [pid : Pid, answer : {"none", "ok", "bad"}]
  BY RecordTypes DEF Pid
<1>2. QED  BY <1>1 DEF Begin, TypeOK

LEMMA StartTypes ==
  ASSUME TypeOK, Closing, StartNext
  PROVE  TypeOK' /\ Closing'
<1>1. CASE Start
  BY <1>1, BeginTypes DEF Start, services, tracked, bounds, TypeOK, Closing
<1>2. ASSUME NEW c \in {"start", "quit"}, Answer(c)  PROVE TypeOK' /\ Closing'
  <2>1. check' \in [{"start", "quit"} -> [pid : Pid, answer : {"none", "ok", "bad"}]]
    BY <1>2 DEF Answer, TypeOK
  <2>2. QED  BY <1>2, <2>1 DEF Answer, services, tracked, bounds, TypeOK, Closing
<1>3. CASE Adopt
  BY <1>3, CheckTypes, RecordTypes
     DEF Adopt, Verified, services, tracked, bounds, TypeOK, Closing
<1>4. CASE Replace
  BY <1>4, RecordTypes
     DEF Replace, Verified, NotAdopted, Sigkill, Pid, services, tracked, bounds, TypeOK,
         Closing
<1>5. CASE Disown
  BY <1>5, RecordTypes
     DEF Disown, Verified, NotAdopted, Alive, Pid, services, tracked, bounds, TypeOK, Closing
<1>6. QED  BY <1>1, <1>2, <1>3, <1>4, <1>5 DEF StartNext

LEMMA SpawnTypes ==
  ASSUME TypeOK, Closing, SpawnNext
  PROVE  TypeOK' /\ Closing'
<1>0. NoProc \in Pid
  BY DEF Pid
<1>1. CASE PortFound
  BY <1>0, <1>1, RecordTypes DEF PortFound, services, bounds, TypeOK, Closing
<1>2. CASE PortFails
  BY <1>2 DEF PortFails, services, tracked, bounds, TypeOK, Closing
<1>3. CASE EnvFails
  BY <1>3 DEF EnvFails, services, tracked, bounds, TypeOK, Closing
<1>4. CASE SpawnFails
  BY <1>4, RecordTypes DEF SpawnFails, services, bounds, TypeOK, Closing
<1>5. CASE Healthy
  BY <1>5, CheckTypes, RecordTypes
     DEF Healthy, Verified, services, bounds, TypeOK, Closing
<1>6. CASE HealthTimeout
  BY <1>6, RecordTypes
     DEF HealthTimeout, Verified, Sigterm, Listening, bounds, TypeOK, Closing
<1>7. ASSUME NEW p \in Proc, SpawnChild(p)  PROVE TypeOK' /\ Closing'
  <2>1. p \in Pid /\ appVersion \in 0..MaxVersion
    BY DEF Pid, TypeOK
  <2>2. QED  BY <1>7, <2>1, RecordTypes DEF SpawnChild, bounds, TypeOK, Closing
<1>8. ASSUME NEW p \in Proc, ExitEvent(p)  PROVE TypeOK' /\ Closing'
  BY <1>0, <1>8, RecordTypes DEF ExitEvent, services, bounds, TypeOK, Closing
<1>9. QED
  BY <1>1, <1>2, <1>3, <1>4, <1>5, <1>6, <1>7, <1>8 DEF SpawnNext

LEMMA ControlTypes ==
  ASSUME TypeOK, Closing, ControlNext
  PROVE  TypeOK' /\ Closing'
<1>0. NoProc \in Pid /\ ManifestLeft \in Pid
  BY DEF Pid, ManifestLeft, TypeOK
<1>1. CASE Stop
  BY <1>0, <1>1, RecordTypes
     DEF Stop, Untrack, Sigterm, Listening, bounds, TypeOK, Closing
<1>2. CASE Restart
  <2>1. Begin(NoInstance, ManifestLeft)
    BY <1>2 DEF Restart
  <2>2. QED  BY <1>0, <1>2, <2>1, RecordTypes, BeginTypes
                DEF Restart, Untrack, Sigterm, Listening, bounds, TypeOK, Closing
<1>3. CASE Reset
  <2>1. Begin(NoInstance, NoProc)
    BY <1>3 DEF Reset
  <2>2. QED  BY <1>0, <1>3, <2>1, RecordTypes, BeginTypes
                DEF Reset, Untrack, Listening, bounds, TypeOK, Closing
<1>4. CASE Poll
  BY <1>0, <1>4, RecordTypes
     DEF Poll, Listening, services, bounds, TypeOK, Closing
<1>5. QED  BY <1>1, <1>2, <1>3, <1>4 DEF ControlNext

LEMMA GoneTypes ==
  ASSUME TypeOK, quits < MaxQuits, Gone
  PROVE  TypeOK' /\ Closing'
<1>1. quits' \in 0..MaxQuits
  BY DEF Gone, TypeOK
<1>2. DOMAIN check = {"start", "quit"} /\ NoProc \in Pid
  BY DEF TypeOK, Pid
<1>3. QED  BY <1>1, <1>2, RecordTypes DEF Gone, services, TypeOK, Closing

LEMMA ElectronTypes ==
  ASSUME TypeOK, Closing, ElectronNext
  PROVE  TypeOK' /\ Closing'
<1>0. NoProc \in Pid /\ ManifestLeft \in Pid
  BY DEF Pid, ManifestLeft, TypeOK
<1>1. CASE Release
  BY <1>0, <1>1, RecordTypes DEF Release, UntrackAll, services, bounds, TypeOK, Closing
<1>2. CASE QuitCompletely
  <2>1. check' \in [{"start", "quit"} -> [pid : Pid, answer : {"none", "ok", "bad"}]]
    BY <1>2 DEF QuitCompletely, TypeOK
  <2>2. QED  BY <1>2, <2>1
                DEF QuitCompletely, services, tracked, bounds, TypeOK, Closing
<1>3. CASE TearDown
  BY <1>0, <1>3, RecordTypes
     DEF TearDown, UntrackAll, Verified, Listening, bounds, TypeOK, Closing
<1>4. CASE Exit \/ CrashElectron
  BY <1>4, GoneTypes DEF Exit, CrashElectron, Closing
<1>5. CASE Relaunch
  <2>1. appVersion' \in 1..MaxVersion
    BY <1>5 DEF Relaunch, TypeOK
  <2>2. manifest' \in Pid /\ Awaited(manifest) \in [pid : Pid, answer : {"none", "ok", "bad"}]
    BY <1>0, <1>5, RecordTypes DEF Relaunch, TypeOK
  <2>3. QED  BY <1>5, <2>1, <2>2
                DEF Relaunch, services, tracked, bounds, TypeOK, Closing
<1>6. QED  BY <1>1, <1>2, <1>3, <1>4, <1>5 DEF ElectronNext

LEMMA ServiceTypes ==
  ASSUME TypeOK, Closing, NEW p \in Proc, ServiceNext(p)
  PROVE  TypeOK' /\ Closing'
<1>1. CASE Listen(p)
  BY <1>1 DEF Listen, Listening, Pid, tracked, bounds, TypeOK, Closing
<1>2. CASE Terminate(p)
  BY <1>2 DEF Terminate, Sigkill, ServiceOnly, tracked, TypeOK, Closing
<1>3. CASE Crash(p)
  <2>1. faults' \in 0..MaxFaults
    BY <1>3 DEF Crash, TypeOK
  <2>2. QED  BY <1>3, <2>1 DEF Crash, Sigkill, ServiceOnly, tracked, TypeOK, Closing
<1>4. CASE Stall(p)
  <2>1. faults' \in 0..MaxFaults
    BY <1>4 DEF Stall, TypeOK
  <2>2. QED  BY <1>4, <2>1 DEF Stall, ServiceOnly, tracked, TypeOK, Closing
<1>5. CASE Recover(p)
  BY <1>5 DEF Recover, ServiceOnly, tracked, TypeOK, Closing
<1>6. QED  BY <1>1, <1>2, <1>3, <1>4, <1>5 DEF ServiceNext

LEMMA StepTypes == TypeOK /\ Closing /\ [Next]_vars => TypeOK' /\ Closing'
<1> SUFFICES ASSUME TypeOK, Closing, [Next]_vars  PROVE TypeOK' /\ Closing'
  OBVIOUS
<1>1. CASE UNCHANGED vars
  BY <1>1 DEF vars, services, tracked, bounds, TypeOK, Closing
<1>2. CASE Next
  BY <1>2, NextGroups, StartTypes, SpawnTypes, ControlTypes, ElectronTypes, ServiceTypes
<1>3. QED  BY <1>1, <1>2

LEMMA InitTypes == Init => TypeOK /\ Closing
  BY RecordTypes DEF Init, TypeOK, Closing, Pid

\* The coordinator and its services keep their types, and Electron ends no
\* more often than the bound says.
THEOREM CoordinatorTypes == Spec => []TypeOK
<1>1. TypeOK /\ Closing /\ [Next]_vars => TypeOK' /\ Closing'
  BY StepTypes
<1>2. QED  BY InitTypes, <1>1, PTL DEF Spec

-----------------------------------------------------------------------------
(***************************************************************************)
(* Who knows of a service.                                                 *)
(***************************************************************************)
\* Services that were neither told to end nor let go of.
Kept == Unsignalled \ strays
\* The service whose answer start or discoverAll waits for.
Asked == check["start"].pid

\* There is a service to ask in some phases, and nothing pends when Electron
\* is down.
Phases ==
    /\ (Asked = NoProc) <=> phase \in {"idle", "port", "env"}
    /\ electron = "down" => phase = "idle" /\ instance = NoInstance

\* The manifest names a service that has listened, and a check that has been
\* answered, or that is not of a child, is of one.
Booted ==
    /\ manifest # NoProc => proc[manifest] \notin {"unused", "boot"}
    /\ Asked # NoProc =>
          /\ proc[Asked] # "unused"
          /\ proc[Asked] = "boot" => phase = "health" /\ check["start"].answer # "ok"

\* What the entry of instances is, phase by phase.
Entry ==
    /\ instance.status = "stopped" => instance = NoInstance
    /\ instance.status = "running" => phase = "idle"
    /\ phase = "health" => instance \in {NoInstance, Starting(Asked)}
    /\ phase # "health" /\ instance.status = "starting" => instance.pid = NoProc

\* A service that was kept is awaited until it listens, and then named by the
\* manifest.
Recorded ==
    \A p \in Kept : IF proc[p] = "boot" THEN phase = "health" /\ Asked = p
                                        ELSE manifest = p

\* It is the one that is asked, if one is, and the instance, if there is one.
Single ==
    manifest \in Kept =>
       /\ phase # "idle" => manifest = Asked
       /\ instance # NoInstance => manifest = instance.pid

\* Somebody will notice the end of the instance.
Watched ==
    instance.pid # NoProc \/ instance.status = "running" =>
       instance.pid \in children \/ timer = instance.pid

IInv ==
    /\ TypeOK /\ Closing
    /\ Phases /\ Booted /\ Entry /\ Recorded /\ Single /\ Watched

LEMMA InitInv == Init => IInv
<1> SUFFICES ASSUME Init  PROVE IInv
  OBVIOUS
<1>1. Phases /\ Booted /\ Entry /\ Watched
  BY DEF Init, Phases, Booted, Entry, Watched, Asked, NoCheck, NoInstance
<1>2. Recorded /\ Single
  BY DEF Init, Recorded, Single, Kept, Unsignalled, Alive
<1>3. QED  BY <1>1, <1>2, InitTypes DEF IInv

\* What the records say: the fields of the constructors.
LEMMA Fields ==
  /\ NoInstance.pid = NoProc /\ NoInstance.status = "stopped"
  /\ NoCheck.pid = NoProc /\ NoCheck.answer = "none"
  /\ \A p : /\ Awaited(p).pid = p /\ Awaited(p).answer = "none"
            /\ Running(p).pid = p /\ Running(p).status = "running"
            /\ Starting(p).pid = p /\ Starting(p).status = "starting"
  BY DEF NoInstance, NoCheck, Awaited, Running, Starting

\* Up to its first await start asks the service of the manifest, looks for a
\* port, or leaves it at the start that is pending.
LEMMA BeginSteps ==
  ASSUME TypeOK, NEW i, NEW m \in Pid, Begin(i, m), i.status # "running"
  PROVE  \/ /\ phase = "idle" /\ phase' = "verify"
            /\ m \in Proc /\ proc'[m] \in {"boot", "up", "wedged"} /\ manifest' = m
            /\ check'["start"].pid = m /\ check'["start"].answer = "none"
         \/ /\ phase = "idle" /\ phase' = "port"
            /\ m \in Proc => proc'[m] \notin {"boot", "up", "wedged"}
            /\ manifest' = NoProc /\ check' = check
         \/ phase # "idle" /\ manifest' = m /\ phase' = phase /\ check' = check
  BY Fields DEF Begin, TypeOK, Pid

LEMMA StartInv ==
  ASSUME IInv, TypeOK', StartNext
  PROVE  Phases' /\ Booted' /\ Entry' /\ Recorded' /\ Single' /\ Watched'
<1> USE DEF IInv, Phases, Booted, Entry, Recorded, Single, Watched, Kept, Asked,
            Unsignalled, Alive, services, tracked, bounds, TypeOK, Pid
<1>1. CASE Start
  <2>1. /\ UNCHANGED <<proc, signalled, instance, timer, electron, children, strays>>
        /\ phase = "idle" /\ instance.status # "running" /\ electron # "down"
    BY <1>1 DEF Start, Ready
  <2>2. Begin(instance, manifest)
    BY <1>1 DEF Start
  <2>3. QED  BY <2>1, <2>2, BeginSteps
<1>2. CASE \E c \in {"start", "quit"} : Answer(c)
  BY <1>2 DEF Answer
<1>3. CASE Adopt
  BY <1>3, Fields DEF Adopt, Verified, Answered
<1>4. CASE Replace
  BY <1>4, Fields DEF Replace, Sigkill, NotAdopted, Verified, Answered
<1>5. CASE Disown
  BY <1>5, Fields DEF Disown, NotAdopted, Verified, Answered
<1>6. QED  BY <1>1, <1>2, <1>3, <1>4, <1>5 DEF StartNext

LEMMA SpawnInv ==
  ASSUME IInv, TypeOK', SpawnNext
  PROVE  Phases' /\ Booted' /\ Entry' /\ Recorded' /\ Single' /\ Watched'
<1> USE DEF IInv, Phases, Booted, Entry, Recorded, Single, Watched, Kept, Asked,
            Unsignalled, Alive, services, tracked, bounds, TypeOK, Pid
<1>1. CASE PortFound
  BY <1>1, Fields DEF PortFound
<1>2. CASE PortFails \/ EnvFails \/ SpawnFails
  BY <1>2, Fields DEF PortFails, EnvFails, SpawnFails
<1>3. CASE Healthy
  BY <1>3, Fields DEF Healthy, Verified, Answered
<1>4. CASE HealthTimeout
  BY <1>4, Fields DEF HealthTimeout, Verified, Answered, Sigterm, Listening
<1>5. ASSUME NEW p \in Proc, SpawnChild(p)
      PROVE  Phases' /\ Booted' /\ Entry' /\ Recorded' /\ Single' /\ Watched'
  BY <1>5, Fields DEF SpawnChild
<1>6. ASSUME NEW p \in Proc, ExitEvent(p)
      PROVE  Phases' /\ Booted' /\ Entry' /\ Recorded' /\ Single' /\ Watched'
  BY <1>6, Fields DEF ExitEvent
<1>7. QED  BY <1>1, <1>2, <1>3, <1>4, <1>5, <1>6 DEF SpawnNext

\* stop and then start, as restart and reset do: the process of the instance
\* has been told to end, and the manifest m names what is left.
LEMMA RestartInv ==
  ASSUME IInv, TypeOK', NEW m \in {manifest, NoProc}, Begin(NoInstance, m),
         instance' = NoInstance, electron' # "down",
         \A q \in Kept' : q \in Kept /\ proc'[q] = proc[q] /\ q # instance.pid,
         \A q \in Proc : proc'[q] \in {proc[q], "dead"},
         m \notin Kept' => manifest \notin Kept'
  PROVE  Phases' /\ Booted' /\ Entry' /\ Recorded' /\ Single' /\ Watched'
<1> USE DEF IInv, TypeOK, Pid
<1>1. \/ /\ phase = "idle" /\ phase' = "verify"
         /\ m \in Proc /\ proc'[m] \in {"boot", "up", "wedged"} /\ manifest' = m
         /\ Asked' = m /\ check'["start"].answer = "none"
      \/ /\ phase = "idle" /\ phase' = "port"
         /\ m \in Proc => proc'[m] \notin {"boot", "up", "wedged"}
         /\ manifest' = NoProc /\ check' = check
      \/ phase # "idle" /\ manifest' = m /\ phase' = phase /\ check' = check
  BY BeginSteps, Fields DEF Asked
<1>2. m = manifest \/ (m = NoProc /\ manifest \notin Kept')
  BY DEF Kept, Unsignalled, Alive
<1>3. Phases'
  BY <1>1 DEF Phases, Asked
<1>4. Booted'
  BY <1>1, <1>2 DEF Phases, Booted, Asked
<1>5. Entry' /\ Watched'
  BY Fields DEF Entry, Watched
<1>6. Recorded'
  <2> SUFFICES ASSUME NEW q \in Kept'
               PROVE  IF proc'[q] = "boot" THEN phase' = "health" /\ Asked' = q
                                           ELSE manifest' = q
    BY DEF Recorded
  <2>1. q \in Kept /\ proc'[q] = proc[q] /\ q \in Proc /\ proc'[q] \in {"boot", "up", "wedged"}
    BY DEF Kept, Unsignalled, Alive
  <2>2. CASE proc[q] = "boot"
    BY <1>1, <2>1, <2>2 DEF Recorded, Asked
  <2>3. CASE proc[q] # "boot"
    <3>1. manifest = q
      BY <2>1, <2>3 DEF Recorded
    <3>2. m = q
      BY <1>2, <3>1
    <3>3. QED  BY <1>1, <2>1, <2>3, <3>2
  <2>4. QED  BY <2>2, <2>3
<1>7. Single'
  <2> SUFFICES ASSUME manifest' \in Kept', phase' # "idle"  PROVE manifest' = Asked'
    BY DEF Single
  <2>1. manifest' \in Proc
    BY DEF Kept, Unsignalled, Alive
  <2>2. manifest' = m /\ m = manifest
    BY <1>1, <1>2, <2>1
  <2>3. CASE phase = "idle"
    BY <1>1, <2>1, <2>2, <2>3
  <2>4. CASE phase # "idle"
    <3>1. Asked' = Asked
      BY <1>1, <2>4 DEF Asked
    <3>2. manifest \in Kept
      BY <2>2
    <3>3. QED  BY <2>2, <2>4, <3>1, <3>2 DEF Single
  <2>5. QED  BY <2>3, <2>4
<1>8. QED  BY <1>3, <1>4, <1>5, <1>6, <1>7

LEMMA ControlInv ==
  ASSUME IInv, TypeOK', ControlNext
  PROVE  Phases' /\ Booted' /\ Entry' /\ Recorded' /\ Single' /\ Watched'
<1> USE DEF IInv, Phases, Booted, Entry, Recorded, Single, Watched, Kept, Asked,
            Unsignalled, Alive, services, tracked, bounds, TypeOK, Pid
<1>1. CASE Stop
  BY <1>1, Fields DEF Stop, Untrack, Sigterm, Listening, Tracked, ManifestLeft, Ready
<1>2. CASE Restart
  <2>1. Begin(NoInstance, ManifestLeft) /\ ManifestLeft \in Pid
    BY <1>2 DEF Restart, ManifestLeft
  <2>2. /\ instance' = NoInstance /\ electron' # "down"
        /\ Sigterm(Tracked) /\ UNCHANGED <<children, strays>>
    BY <1>2 DEF Restart, Untrack, Ready
  <2>3. /\ \A q \in Kept' : q \in Kept /\ proc'[q] = proc[q] /\ q # instance.pid
        /\ \A q \in Proc : proc'[q] \in {proc[q], "dead"}
    BY <2>2 DEF Sigterm, Listening, Tracked
  <2>4. ManifestLeft \in {manifest, NoProc} /\ (ManifestLeft \notin Kept' => manifest \notin Kept')
    BY <2>3 DEF ManifestLeft
  <2>5. QED  BY <2>1, <2>2, <2>3, <2>4, RestartInv, Fields
<1>3. CASE Reset
  <2>1. Begin(NoInstance, NoProc) /\ NoProc \in Pid
    BY <1>3 DEF Reset
  <2>2. instance' = NoInstance /\ electron' # "down" /\ UNCHANGED <<children, strays>>
    BY <1>3 DEF Reset, Untrack, Ready
  <2>3. /\ \A q \in Kept' : q \in Kept /\ proc'[q] = proc[q] /\ q # instance.pid
        /\ \A q \in Proc : proc'[q] \in {proc[q], "dead"}
        /\ manifest \notin Kept'
    BY <1>3 DEF Reset, Listening, Tracked
  <2>4. QED  BY <2>1, <2>2, <2>3, RestartInv
<1>4. CASE Poll
  BY <1>4, Fields DEF Poll, Listening
<1>5. QED  BY <1>1, <1>2, <1>3, <1>4 DEF ControlNext

LEMMA ElectronInv ==
  ASSUME IInv, TypeOK', ElectronNext
  PROVE  Phases' /\ Booted' /\ Entry' /\ Recorded' /\ Single' /\ Watched'
<1> USE DEF IInv, Phases, Booted, Entry, Recorded, Single, Watched, Kept, Asked,
            Unsignalled, Alive, services, tracked, bounds, TypeOK, Pid
<1>1. CASE Release
  BY <1>1, Fields DEF Release, UntrackAll
<1>2. CASE QuitCompletely
  BY <1>2, Fields DEF QuitCompletely
<1>3. CASE TearDown
  BY <1>3, Fields
     DEF TearDown, UntrackAll, Verified, Listening, Tracked, ManifestLeft
<1>4. CASE Exit \/ CrashElectron
  BY <1>4, Fields DEF Exit, CrashElectron, Gone
<1>5. CASE Relaunch
  BY <1>5, Fields DEF Relaunch
<1>6. QED  BY <1>1, <1>2, <1>3, <1>4, <1>5 DEF ElectronNext

LEMMA ServiceInv ==
  ASSUME IInv, TypeOK', NEW p \in Proc, ServiceNext(p)
  PROVE  Phases' /\ Booted' /\ Entry' /\ Recorded' /\ Single' /\ Watched'
<1> USE DEF IInv, Phases, Booted, Entry, Recorded, Single, Watched, Kept, Asked,
            Unsignalled, Alive, services, tracked, bounds, TypeOK, Pid
<1>1. CASE Listen(p)
  BY <1>1, Fields DEF Listen, Listening
<1>2. CASE Terminate(p) \/ Crash(p)
  BY <1>2 DEF Terminate, Crash, Sigkill, ServiceOnly
<1>3. CASE Stall(p) \/ Recover(p)
  BY <1>3 DEF Stall, Recover, ServiceOnly
<1>4. QED  BY <1>1, <1>2, <1>3 DEF ServiceNext

LEMMA StepInv == IInv /\ [Next]_vars => IInv'
<1> SUFFICES ASSUME IInv, [Next]_vars  PROVE IInv'
  OBVIOUS
<1>1. TypeOK' /\ Closing'
  BY StepTypes DEF IInv
<1>2. CASE UNCHANGED vars
  BY <1>1, <1>2
     DEF vars, services, tracked, bounds, IInv, Phases, Booted, Entry, Recorded, Single,
         Watched, Kept, Asked, Unsignalled, Alive
<1>3. CASE Next
  <2>1. Phases' /\ Booted' /\ Entry' /\ Recorded' /\ Single' /\ Watched'
    BY <1>1, <1>3, NextGroups, StartInv, SpawnInv, ControlInv, ElectronInv, ServiceInv
  <2>2. QED  BY <1>1, <2>1 DEF IInv
<1>4. QED  BY <1>2, <1>3

\* The inductive invariant of the coordinator.
THEOREM Invariance == Spec => []IInv
  BY InitInv, StepInv, PTL DEF Spec

\* A service that was neither told to end nor let go of is tracked, on its
\* way or named by the manifest.
THEOREM KeptIsFound == Spec => []NothingLost
<1>1. IInv => NothingLost
  BY DEF IInv, Recorded, NothingLost, Kept, Asked
<1>2. QED  BY Invariance, <1>1, PTL

\* The end of a service that is handed out is noticed.
THEOREM InstanceWatched == Spec => []DeathNoticed
<1>1. IInv => DeathNoticed
  <2> SUFFICES ASSUME IInv, instance.status = "running", instance.pid \notin Alive
               PROVE  instance.pid \in children \/ timer = instance.pid
    BY DEF DeathNoticed
  <2>1. QED  BY DEF IInv, Watched
<1>2. QED  BY Invariance, <1>1, PTL

\* While no service was let go of there is one at most.
THEOREM OneAtMost == Spec => []OneService
<1>1. IInv => OneService
  <2> SUFFICES ASSUME IInv, strays = {}  PROVE Cardinality(Unsignalled) <= 1
    BY DEF OneService
  <2>1. \A p, q \in Unsignalled : p = q
    BY DEF IInv, Recorded, Single, Booted, Kept, Asked, Unsignalled, Alive
  <2>2. CASE Unsignalled = {}
    BY <2>2, FS_EmptySet
  <2>3. ASSUME NEW p \in Unsignalled  PROVE Cardinality(Unsignalled) <= 1
    <3>1. Unsignalled = {p}
      BY <2>1
    <3>2. QED  BY <3>1, FS_Singleton
  <2>4. QED  BY <2>2, <2>3
<1>2. QED  BY Invariance, <1>1, PTL
=============================================================================
