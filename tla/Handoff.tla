------------------------------ MODULE Handoff ------------------------------
(***************************************************************************)
(* The upgrade of a pty-daemon (prepareUpgrade of the Server, and main.ts  *)
(* in the successor): the old process writes a snapshot of its sessions,   *)
(* spawns a successor that inherits the master descriptors of their PTYs,  *)
(* waits for its answer and leaves the socket path to it.                  *)
(*                                                                         *)
(* Every action is a callback of one process or a step of the system.  A   *)
(* session is one PTY: an id that is opened again is another session.      *)
(* Both processes read the same masters while both have them, and each     *)
(* byte goes to one of them; a shell is hung up when nobody has its master *)
(* any more.                                                               *)
(***************************************************************************)
EXTENDS Naturals, FiniteSets

CONSTANTS
    Daemon,    \* processes
    NoDaemon,
    Session,   \* sessions that clients open, each once
    MaxOut,    \* bound: bytes a session produces
    MaxFaults  \* bound: processes that crash

ASSUME HandoffAssumption ==
    /\ NoDaemon \notin Daemon
    /\ MaxOut \in Nat
    /\ MaxFaults \in Nat

VARIABLES
    proc,    \* proc[d]: what the process is doing
    parent,  \* parent[e]: the process that spawned e to succeed it
    store,   \* store[d]: entries of its SessionStore; until e has adopted
             \* them, those of the snapshot and the descriptors
    ring,    \* ring[d][s]: positions in the ring buffer, or in the snapshot
    wait,    \* successors whose answer is awaited: waitForHandoffAck
    ipc,     \* ipc[e]: message on the channel from e to its parent
    told,    \* told[e]: the upgrade-prepared reply about e
    path,    \* the process whose listener the socket path leads to
    shell,   \* shell[s]
    made,    \* made[s]: bytes the shell has written
    read,    \* read[s]: bytes taken out of the kernel's queue
    gap,     \* history: positions read while two processes had the master
    breach,  \* history: upgrades that overlapped, or a bind before the exit
    faults

vars == <<proc, parent, store, ring, wait, ipc, told, path, shell, made,
          read, gap, breach, faults>>
out == <<made, read, gap>>

ProcState == {"unused", "boot", "adopted", "up", "closing", "closed", "dead"}

TypeOK ==
    /\ proc \in [Daemon -> ProcState]
    /\ parent \in [Daemon -> Daemon \cup {NoDaemon}]
    /\ store \in [Daemon -> SUBSET Session]
    /\ ring \in [Daemon -> [Session -> SUBSET Nat]]
    /\ wait \subseteq Daemon
    /\ ipc \in [Daemon -> {"none", "ack", "nak"}]
    /\ told \in [Daemon -> {"none", "ok", "failed"}]
    /\ path \in Daemon \cup {NoDaemon}
    /\ shell \in [Session -> {"none", "live", "dead"}]
    /\ made \in [Session -> Nat]
    /\ read \in [Session -> Nat]
    /\ gap \in [Session -> SUBSET Nat]
    /\ breach \subseteq {"overlap", "early"}
    /\ faults \in Nat

Init ==
    /\ \E d \in Daemon :
         /\ proc = [x \in Daemon |-> IF x = d THEN "up" ELSE "unused"]
         /\ path = d
    /\ parent = [d \in Daemon |-> NoDaemon]
    /\ store = [d \in Daemon |-> {}]
    /\ ring = [d \in Daemon |-> [s \in Session |-> {}]]
    /\ wait = {}
    /\ ipc = [d \in Daemon |-> "none"]
    /\ told = [d \in Daemon |-> "none"]
    /\ shell = [s \in Session |-> "none"]
    /\ made = [s \in Session |-> 0]
    /\ read = [s \in Session |-> 0]
    /\ gap = [s \in Session |-> {}]
    /\ breach = {}
    /\ faults = 0

Alive(d) == proc[d] \notin {"unused", "dead"}
\* The event loop of a daemon that has its sessions.
Running(d) == proc[d] \in {"adopted", "up", "closing", "closed"}
\* Connections are open and requests are answered.
Serving(d) == proc[d] \in {"up", "closing"}
Parent(e) == IF parent[e] = NoDaemon THEN FALSE ELSE Alive(parent[e])
Holders(s) == {d \in Daemon : Alive(d) /\ s \in store[d]}
Live == {s \in Session : shell[s] = "live"}

\* The processes of D are gone, with their descriptors.
Gone(D) ==
    /\ proc' = [d \in Daemon |-> IF d \in D THEN "dead" ELSE proc[d]]
    /\ store' = [d \in Daemon |-> IF d \in D THEN {} ELSE store[d]]
    /\ ring' = [d \in Daemon |-> IF d \in D THEN [s \in Session |-> {}]
                                            ELSE ring[d]]
    /\ shell' = [s \in Session |->
                   IF shell[s] = "live" /\ Holders(s) \subseteq D
                   THEN "dead" ELSE shell[s]]
-----------------------------------------------------------------------------
(***************************************************************************)
(* Sessions.                                                               *)
(***************************************************************************)
\* A client that reached the daemon, when the path led to it, opens a session.
Open(d, s) ==
    /\ Serving(d) /\ shell[s] = "none"
    /\ store' = [store EXCEPT ![d] = @ \cup {s}]
    /\ shell' = [shell EXCEPT ![s] = "live"]
    /\ UNCHANGED <<proc, parent, ring, wait, ipc, told, path, out, breach,
                   faults>>

Produce(s) ==
    /\ s \in Live /\ made[s] < MaxOut
    /\ made' = [made EXCEPT ![s] = @ + 1]
    /\ UNCHANGED <<proc, parent, store, ring, wait, ipc, told, path, shell,
                   read, gap, breach, faults>>

\* The shell ends of itself or because a client closes the session.
ShellExits(s) ==
    /\ s \in Live
    /\ shell' = [shell EXCEPT ![s] = "dead"]
    /\ UNCHANGED <<proc, parent, store, ring, wait, ipc, told, path, out,
                   breach, faults>>

\* onData in the process that gets the bytes.
OnData(d, s) ==
    /\ Running(d) /\ s \in store[d] /\ read[s] < made[s]
    /\ read' = [read EXCEPT ![s] = @ + 1]
    /\ ring' = [ring EXCEPT ![d][s] = @ \cup {read[s] + 1}]
    /\ gap' = [gap EXCEPT ![s] = IF Holders(s) = {d} THEN @
                                 ELSE @ \cup {read[s] + 1}]
    /\ UNCHANGED <<proc, parent, store, wait, ipc, told, path, shell, made,
                   breach, faults>>

\* onExit: the child's exit, the end of the stream or the poll of the pid.
OnExit(d, s) ==
    /\ Running(d) /\ s \in store[d] /\ shell[s] = "dead"
    /\ store' = [store EXCEPT ![d] = @ \ {s}]
    /\ ring' = [ring EXCEPT ![d][s] = {}]
    /\ UNCHANGED <<proc, parent, wait, ipc, told, path, shell, out, breach,
                   faults>>
-----------------------------------------------------------------------------
(***************************************************************************)
(* The process that is replaced.                                           *)
(***************************************************************************)
\* prepare-upgrade: nothing stops a second one while the first is awaited.
\* (A snapshot that cannot be written, or a spawn that throws, is answered
\* and changes nothing.)
PrepareUpgrade(d, e) ==
    /\ Serving(d) /\ proc[e] = "unused"
    /\ proc' = [proc EXCEPT ![e] = "boot"]
    /\ parent' = [parent EXCEPT ![e] = d]
    /\ store' = [store EXCEPT ![e] = store[d]]
    /\ ring' = [ring EXCEPT ![e] = ring[d]]
    /\ wait' = wait \cup {e}
    /\ breach' = IF \E x \in Daemon : parent[x] = d /\ Alive(x)
                 THEN breach \cup {"overlap"} ELSE breach
    /\ UNCHANGED <<ipc, told, path, shell, out, faults>>

Awaits(e) == e \in wait /\ Parent(e)

\* mutant: a reply that the protocol does not have
AckedMisnamed(e) ==
    /\ Awaits(e) /\ ipc[e] = "ack"
    /\ told' = [told EXCEPT ![e] = "acked"]
    /\ UNCHANGED <<proc, parent, store, ring, wait, ipc, path, shell, out,
                   breach, faults>>
\* upgrade-ack: reply, then finalizeHandoff.
Acked(e) ==
    /\ Awaits(e) /\ ipc[e] = "ack"
    /\ wait' = wait \ {e}
    /\ told' = [told EXCEPT ![e] = "ok"]
    /\ proc' = [proc EXCEPT ![parent[e]] = IF @ = "up" THEN "closing" ELSE @]
    /\ UNCHANGED <<parent, store, ring, ipc, path, shell, out, breach, faults>>

\* mutant: the daemon leaves whatever the answer was
RefusedLeaving(e) ==
    /\ Awaits(e)
    /\ wait' = wait \ {e}
    /\ told' = [told EXCEPT ![e] = "failed"]
    /\ proc' = [proc EXCEPT ![e] = "dead",
                            ![parent[e]] = IF @ = "up" THEN "closing" ELSE @]
    /\ store' = [store EXCEPT ![e] = {}]
    /\ ring' = [ring EXCEPT ![e] = [s \in Session |-> {}]]
    /\ UNCHANGED <<parent, ipc, path, shell, out, breach, faults>>
\* upgrade-nak, exit or disconnect of the successor, or the time-out, which
\* may be due before an answer that has arrived is read: SIGKILL to it.
Refused(e) ==
    /\ Awaits(e)
    /\ wait' = wait \ {e}
    /\ told' = [told EXCEPT ![e] = "failed"]
    /\ Gone({e})
    /\ UNCHANGED <<parent, ipc, path, out, breach, faults>>

\* close({ killSessions: false }): no connections, and no socket path,
\* whoever has bound it.
Close(d) ==
    /\ proc[d] = "closing"
    /\ proc' = [proc EXCEPT ![d] = "closed"]
    /\ path' = NoDaemon
    /\ UNCHANGED <<parent, store, ring, wait, ipc, told, shell, out, breach,
                   faults>>

\* process.exit, 50 ms later.
Exit(d) ==
    /\ proc[d] = "closed"
    /\ Gone({d})
    /\ UNCHANGED <<parent, wait, ipc, told, path, out, breach, faults>>
-----------------------------------------------------------------------------
(***************************************************************************)
(* The successor: runHandoffReceiver.                                      *)
(***************************************************************************)
\* mutant: the ring buffers of the snapshot are not taken over
AdoptBare(e) ==
    /\ proc[e] = "boot" /\ Parent(e)
    /\ proc' = [proc EXCEPT ![e] = "adopted"]
    /\ ring' = [ring EXCEPT ![e] = [s \in Session |-> {}]]
    /\ ipc' = [ipc EXCEPT ![e] = "ack"]
    /\ UNCHANGED <<parent, store, wait, told, path, shell, out, breach, faults>>
\* readSnapshot, adoptSnapshot and upgrade-ack, in one go.
Adopt(e) ==
    /\ proc[e] = "boot" /\ Parent(e)
    /\ proc' = [proc EXCEPT ![e] = "adopted"]
    /\ ipc' = [ipc EXCEPT ![e] = "ack"]
    /\ UNCHANGED <<parent, store, ring, wait, told, path, shell, out, breach,
                   faults>>

\* A snapshot that cannot be read or adopted: upgrade-nak and exit; or a
\* message to a parent that is gone, which throws.
AdoptFails(e) ==
    /\ proc[e] = "boot"
    /\ Gone({e})
    /\ ipc' = [ipc EXCEPT ![e] = IF Parent(e) THEN "nak" ELSE @]
    /\ UNCHANGED <<parent, wait, told, path, out, breach, faults>>

\* mutant: the successor does not wait at all
BindAtOnce(e) ==
    /\ proc[e] = "adopted"
    /\ proc' = [proc EXCEPT ![e] = "up"]
    /\ path' = e
    /\ UNCHANGED <<parent, store, ring, wait, ipc, told, shell, out, breach,
                   faults>>
\* The parent has gone: bind, over whatever the path leads to.
Bind(e) ==
    /\ proc[e] = "adopted" /\ ~Parent(e)
    /\ proc' = [proc EXCEPT ![e] = "up"]
    /\ path' = e
    /\ UNCHANGED <<parent, store, ring, wait, ipc, told, shell, out, breach,
                   faults>>

\* One second after the acknowledgement, with the parent still there.
BindEarly(e) ==
    /\ proc[e] = "adopted" /\ Parent(e)
    /\ proc' = [proc EXCEPT ![e] = "up"]
    /\ path' = e
    /\ breach' = breach \cup {"early"}
    /\ UNCHANGED <<parent, store, ring, wait, ipc, told, shell, out, faults>>

Crash(d) ==
    /\ Alive(d) /\ faults < MaxFaults
    /\ faults' = faults + 1
    /\ Gone({d})
    /\ UNCHANGED <<parent, wait, ipc, told, path, out, breach>>
-----------------------------------------------------------------------------
SessionNext(s) ==
    \/ Produce(s) \/ ShellExits(s)
    \/ \E d \in Daemon : Open(d, s) \/ OnData(d, s) \/ OnExit(d, s)

DaemonNext(d) ==
    \/ \E e \in Daemon : PrepareUpgrade(d, e)
    \/ Acked(d) \/ Refused(d)
    \/ Close(d) \/ Exit(d)
    \/ Adopt(d) \/ AdoptFails(d)
    \/ Bind(d) \/ BindEarly(d)
    \/ Crash(d)

Next ==
    \/ \E s \in Session : SessionNext(s)
    \/ \E d \in Daemon : DaemonNext(d)

Spec == Init /\ [][Next]_vars

\* A process that does not crash goes on: the successor adopts or gives up,
\* the old one reads the answer or times out, closes and exits, and the
\* successor binds when it is gone.
Fairness ==
    \A d \in Daemon :
       /\ WF_vars(Adopt(d) \/ AdoptFails(d))
       /\ WF_vars(Acked(d) \/ Refused(d))
       /\ WF_vars(Close(d))
       /\ WF_vars(Exit(d))
       /\ WF_vars(Bind(d) \/ BindEarly(d))
FairSpec == Spec /\ Fairness
-----------------------------------------------------------------------------
(***************************************************************************)
(* Properties.                                                             *)
(***************************************************************************)
\* No upgrade is under way.
Quiet == \A d \in Daemon : proc[d] \in {"unused", "up", "dead"}

\* After upgrades that did not overlap, in which no successor bound before
\* its predecessor had gone, the one daemon that has a running session is
\* the one clients reach.
SoleCustodian ==
    Quiet /\ breach = {} => \A s \in Live : Holders(s) = {path}

\* A daemon can replay whatever was read of its sessions, except what was
\* read while an upgrade had two processes at the same masters.
ReplayKept ==
    \A d \in Daemon : Running(d) =>
       \A s \in store[d] : (1..read[s]) \ gap[s] \subseteq ring[d][s]

\* A successor that was reported to the supervisor comes to serve the socket
\* path, until it is gone, unless upgrades overlapped or one bound early.
ReportedServes ==
    \A e \in Daemon :
       told[e] = "ok" ~> (path = e \/ proc[e] = "dead" \/ breach # {})

\* How the promise of SessionSurvival sees this state.  A process is safe with
\* a session when it has it, is not to be given up by its parent, and has no
\* successor that was not given it; a session is late when no process is.
Successors == {e \in Daemon : /\ Alive(e)
                              /\ proc[e] \in {"boot", "adopted"} \/ Parent(e)}
Safe(d, s) ==
    /\ Running(d) /\ s \in store[d]
    /\ ~Awaits(d)
    /\ \A e \in Daemon : parent[e] = d /\ Alive(e) => s \in store[e]
Late == {s \in Live : \A d \in Daemon : ~Safe(d, s)}
Survival == INSTANCE SessionSurvival WITH
    held <- Live,
    late <- Late,
    upgrading <- Successors # {},
    failures <- IF "early" \in breach THEN faults + 1 ELSE faults

\* An upgrade keeps its promise.
UpgradeKeepsPromise == Survival!Spec
=============================================================================
