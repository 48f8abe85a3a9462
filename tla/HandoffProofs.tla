--------------------------- MODULE HandoffProofs ---------------------------
(***************************************************************************)
(* Theorems about the upgrade of a daemon, for any numbers of processes,   *)
(* sessions, bytes and crashes.                                            *)
(***************************************************************************)
EXTENDS Handoff, TLAPS

USE HandoffAssumption

-----------------------------------------------------------------------------
(***************************************************************************)
(* Types.                                                                  *)
(***************************************************************************)
LEMMA GoneTypes ==
  ASSUME TypeOK, NEW D, Gone(D)
  PROVE  /\ proc' \in [Daemon -> ProcState]
         /\ store' \in [Daemon -> SUBSET Session]
         /\ ring' \in [Daemon -> [Session -> SUBSET Nat]]
         /\ shell' \in [Session -> {"none", "live", "dead"}]
  BY DEF TypeOK, Gone, ProcState

LEMMA SessionTypes ==
  ASSUME TypeOK, NEW s \in Session, SessionNext(s)
  PROVE  TypeOK'
<1>1. CASE Produce(s)
  BY <1>1 DEF Produce, TypeOK
<1>2. CASE ShellExits(s)
  BY <1>2 DEF ShellExits, out, TypeOK
<1>3. ASSUME NEW d \in Daemon, Open(d, s)  PROVE TypeOK'
  BY <1>3 DEF Open, out, TypeOK
<1>4. ASSUME NEW d \in Daemon, OnData(d, s)  PROVE TypeOK'
  <2>1. read[s] + 1 \in Nat
    BY DEF TypeOK
  <2>2. read' \in [Session -> Nat] /\ gap' \in [Session -> SUBSET Nat]
    BY <1>4, <2>1 DEF OnData, TypeOK
  <2>3. ring' \in [Daemon -> [Session -> SUBSET Nat]]
    BY <1>4, <2>1 DEF OnData, TypeOK
  <2>4. QED  BY <1>4, <2>2, <2>3 DEF OnData, TypeOK
<1>5. ASSUME NEW d \in Daemon, OnExit(d, s)  PROVE TypeOK'
  <2>1. ring' \in [Daemon -> [Session -> SUBSET Nat]]
    BY <1>5 DEF OnExit, TypeOK
  <2>2. QED  BY <1>5, <2>1 DEF OnExit, out, TypeOK
<1>6. QED  BY <1>1, <1>2, <1>3, <1>4, <1>5 DEF SessionNext

LEMMA DaemonTypes ==
  ASSUME TypeOK, NEW d \in Daemon, DaemonNext(d)
  PROVE  TypeOK'
<1>1. ASSUME NEW e \in Daemon, PrepareUpgrade(d, e)  PROVE TypeOK'
  BY <1>1 DEF PrepareUpgrade, out, TypeOK, ProcState
<1>2. CASE Acked(d)
  BY <1>2 DEF Acked, Awaits, out, TypeOK, ProcState
<1>3. CASE Refused(d)
  BY <1>3, GoneTypes DEF Refused, out, TypeOK
<1>4. CASE Close(d)
  BY <1>4 DEF Close, out, TypeOK, ProcState
<1>5. CASE Exit(d)
  BY <1>5, GoneTypes DEF Exit, out, TypeOK
<1>6. CASE Adopt(d)
  BY <1>6 DEF Adopt, out, TypeOK, ProcState
<1>7. CASE AdoptFails(d)
  BY <1>7, GoneTypes DEF AdoptFails, out, TypeOK
<1>8. CASE Bind(d)
  BY <1>8 DEF Bind, out, TypeOK, ProcState
<1>9. CASE BindEarly(d)
  BY <1>9 DEF BindEarly, out, TypeOK, ProcState
<1>10. CASE Crash(d)
  <2>1. faults' \in Nat
    BY <1>10 DEF Crash, TypeOK
  <2>2. QED  BY <1>10, <2>1, GoneTypes DEF Crash, out, TypeOK
<1>11. QED
  BY <1>1, <1>2, <1>3, <1>4, <1>5, <1>6, <1>7, <1>8, <1>9, <1>10
     DEF DaemonNext

LEMMA StepTypes == TypeOK /\ [Next]_vars => TypeOK'
<1> SUFFICES ASSUME TypeOK, [Next]_vars  PROVE TypeOK'
  OBVIOUS
<1>1. CASE UNCHANGED vars
  BY <1>1 DEF vars, TypeOK
<1>2. CASE Next
  BY <1>2, SessionTypes, DaemonTypes DEF Next
<1>3. QED  BY <1>1, <1>2

\* The processes, their stores and what was read keep their types.
THEOREM HandoffTypes == Spec => []TypeOK
<1>1. Init => TypeOK
  BY DEF Init, TypeOK, ProcState
<1>2. QED  BY <1>1, StepTypes, PTL DEF Spec

-----------------------------------------------------------------------------
(***************************************************************************)
(* Who holds what.                                                         *)
(***************************************************************************)
\* A session has its master in a live process; a process that had no child
\* yet has none; an awaited process has a parent; a session that was not
\* opened has no output.
Held == \A s \in Live : \E d \in Daemon : Alive(d) /\ s \in store[d]

Family ==
    /\ \A e \in Daemon : parent[e] # NoDaemon =>
          /\ parent[e] # e
          /\ proc[e] # "unused"
          /\ proc[parent[e]] \notin {"unused", "boot", "adopted"}
    /\ \A e \in Daemon : proc[e] = "unused" => ipc[e] = "none"
    /\ \A e \in wait : parent[e] # NoDaemon

Unopened ==
    \A s \in Session : shell[s] = "none" =>
       /\ made[s] = 0
       /\ \A d \in Daemon : s \notin store[d]

\* Bytes are taken by one process, and the snapshot has those that were
\* taken before it.
Replay ==
    /\ \A s \in Session : read[s] <= made[s]
    /\ \A d \in Daemon : Alive(d) =>
          \A s \in store[d] : (1..read[s]) \ gap[s] \subseteq ring[d][s]

\* While upgrades do not overlap and nobody binds early: one process serves
\* or leaves, one at most is to come, and is its child.
Old(d) == proc[d] \in {"up", "closing", "closed"}
New(e) == proc[e] \in {"boot", "adopted"}
OneByOne ==
    breach = {} =>
       /\ \A d, x \in Daemon : Old(d) /\ Old(x) => d = x
       /\ \A d, x \in Daemon : New(d) /\ New(x) => d = x
       /\ \A d, e \in Daemon : Old(d) /\ New(e) => parent[e] = d
       /\ \A d \in Daemon : proc[d] = "up" => path = d

IInv == TypeOK /\ Held /\ Family /\ Unopened /\ Replay /\ OneByOne

LEMMA InitInv == Init => IInv
<1> SUFFICES ASSUME Init  PROVE IInv
  OBVIOUS
<1>1. TypeOK
  BY DEF Init, TypeOK, ProcState
<1>2. Held /\ Family /\ Unopened /\ Replay
  BY DEF Init, Held, Family, Unopened, Replay, Live, Alive
<1>3. OneByOne
  BY DEF Init, OneByOne, Old, New
<1>4. QED  BY <1>1, <1>2, <1>3 DEF IInv

\* What the end of one process does to the others.
LEMMA GoneInv ==
  ASSUME IInv, NEW d \in Daemon, proc[d] # "unused", Gone({d}),
         wait' \subseteq wait,
         \A e \in Daemon : proc[e] = "unused" => ipc'[e] = ipc[e],
         UNCHANGED <<parent, path, out, breach>>
  PROVE  Held' /\ Family' /\ Unopened' /\ Replay' /\ OneByOne'
<1>1. \A x \in Daemon : /\ proc'[x] = IF x = d THEN "dead" ELSE proc[x]
                        /\ store'[x] = IF x = d THEN {} ELSE store[x]
                        /\ x # d => ring'[x] = ring[x]
  BY DEF Gone, IInv, TypeOK
<1>2. \A s \in Session :
         shell'[s] = IF shell[s] = "live" /\ Holders(s) \subseteq {d}
                     THEN "dead" ELSE shell[s]
  BY DEF Gone
<1>3. Held'
  <2> SUFFICES ASSUME NEW s \in Live'
               PROVE  \E x \in Daemon : Alive(x)' /\ s \in store'[x]
    BY DEF Held
  <2>1. s \in Live /\ ~(Holders(s) \subseteq {d})
    BY <1>2 DEF Live
  <2>2. PICK x \in Holders(s) : x # d
    BY <2>1
  <2>3. QED  BY <1>1, <2>2 DEF Holders, Alive
<1>4. Family'
  <2>1. \A e \in Daemon : parent[e] \in Daemon \cup {NoDaemon}
    BY DEF IInv, TypeOK
  <2>2. wait \subseteq Daemon
    BY DEF IInv, TypeOK
  <2>3. QED  BY <1>1, <2>1, <2>2 DEF IInv, Family
<1>5. Unopened' /\ Replay'
  BY <1>1, <1>2 DEF IInv, Unopened, Replay, Alive, out
<1>6. OneByOne'
  BY <1>1 DEF IInv, OneByOne, Old, New
<1>7. QED  BY <1>3, <1>4, <1>5, <1>6

LEMMA SessionInv ==
  ASSUME IInv, NEW s \in Session, SessionNext(s)
  PROVE  Held' /\ Family' /\ Unopened' /\ Replay' /\ OneByOne'
<1> USE DEF IInv
<1>1. CASE Produce(s)
  BY <1>1 DEF Produce, Held, Family, Unopened, Replay, OneByOne, Old, New, Live,
              Alive, TypeOK
<1>2. CASE ShellExits(s)
  BY <1>2 DEF ShellExits, Held, Family, Unopened, Replay, OneByOne, Old, New, Live,
              Alive, TypeOK, out
<1>3. ASSUME NEW d \in Daemon, Open(d, s)
      PROVE  Held' /\ Family' /\ Unopened' /\ Replay' /\ OneByOne'
  <2>1. /\ \A x \in Daemon : store'[x] = IF x = d THEN store[x] \cup {s} ELSE store[x]
        /\ \A x \in Session : shell'[x] = IF x = s THEN "live" ELSE shell[x]
        /\ UNCHANGED <<proc, parent, ring, wait, ipc, path, made, read, gap, breach>>
        /\ shell[s] = "none" /\ proc[d] \in {"up", "closing"}
    BY <1>3 DEF Open, Serving, out, TypeOK
  <2>2. Held'
    BY <2>1 DEF Held, Live, Alive
  <2>3. Family' /\ OneByOne'
    BY <2>1 DEF Family, OneByOne, Old, New
  <2>4. read[s] = 0 /\ made[s] = 0
    BY <2>1 DEF Unopened, Replay, TypeOK
  <2>5. Unopened'
    BY <2>1 DEF Unopened
  <2>6. Replay'
    <3>1. \A t \in Session : read'[t] <= made'[t]
      BY <2>1 DEF Replay
    <3>2. ASSUME NEW x \in Daemon, Alive(x)', NEW t \in store'[x]
          PROVE  (1..read'[t]) \ gap'[t] \subseteq ring'[x][t]
      <4>1. CASE t = s
        BY <2>1, <2>4, <4>1
      <4>2. CASE t # s
        <5>1. t \in store[x] /\ Alive(x)
          BY <2>1, <3>2, <4>2 DEF Alive
        <5>2. (1..read[t]) \ gap[t] \subseteq ring[x][t]
          BY <5>1 DEF Replay
        <5>3. QED  BY <2>1, <5>2
      <4>3. QED  BY <4>1, <4>2
    <3>3. QED  BY <3>1, <3>2 DEF Replay
  <2>7. QED  BY <2>2, <2>3, <2>5, <2>6
<1>4. ASSUME NEW d \in Daemon, OnData(d, s)
      PROVE  Held' /\ Family' /\ Unopened' /\ Replay' /\ OneByOne'
  <2>1. /\ UNCHANGED <<proc, parent, store, wait, ipc, path, shell, made, breach>>
        /\ s \in store[d] /\ read[s] < made[s] /\ Alive(d)
    BY <1>4 DEF OnData, Running, Alive
  <2>2. Held' /\ Family' /\ Unopened' /\ OneByOne'
    BY <2>1 DEF Held, Family, Unopened, OneByOne, Live, Alive, Old, New
  <2>3. /\ read[s] \in Nat /\ made[s] \in Nat
        /\ \A x \in Session : read'[x] = IF x = s THEN read[x] + 1 ELSE read[x]
    BY <1>4 DEF OnData, TypeOK
  <2>4. \A x \in Daemon, t \in Session :
           ring'[x][t] = IF x = d /\ t = s THEN ring[x][t] \cup {read[s] + 1}
                         ELSE ring[x][t]
    BY <1>4 DEF OnData, TypeOK
  <2>5. \A t \in Session :
           gap'[t] = IF t = s /\ Holders(s) # {d} THEN gap[t] \cup {read[s] + 1}
                     ELSE gap[t]
    BY <1>4 DEF OnData, TypeOK
  <2>6. \A t \in Session : read'[t] <= made'[t]
    BY <2>1, <2>3 DEF Replay, TypeOK
  <2>7. ASSUME NEW x \in Daemon, Alive(x), NEW t \in store[x]
        PROVE  (1..read'[t]) \ gap'[t] \subseteq ring'[x][t]
    <3>1. t \in Session
      BY DEF TypeOK
    <3>2. (1..read[t]) \ gap[t] \subseteq ring[x][t]
      BY <2>7 DEF Replay
    <3>3. CASE t # s
      BY <2>3, <2>4, <2>5, <3>1, <3>2, <3>3
    <3>4. CASE t = s /\ x = d
      <4>1. 1..read'[t] = (1..read[t]) \cup {read[s] + 1}
        BY <2>3, <3>4
      <4>2. ring'[x][t] = ring[x][t] \cup {read[s] + 1}
        BY <2>4, <3>1, <3>4
      <4>3. gap[t] \subseteq gap'[t]
        BY <2>5, <3>1
      <4>4. QED  BY <3>2, <4>1, <4>2, <4>3
    <3>5. CASE t = s /\ x # d
      <4>1. Holders(s) # {d}
        BY <2>7, <3>5 DEF Holders
      <4>2. gap'[t] = gap[t] \cup {read[s] + 1} /\ ring'[x][t] = ring[x][t]
        BY <2>4, <2>5, <3>1, <3>5, <4>1
      <4>3. 1..read'[t] = (1..read[t]) \cup {read[s] + 1}
        BY <2>3, <3>5
      <4>4. QED  BY <3>2, <4>2, <4>3
    <3>6. QED  BY <3>3, <3>4, <3>5
  <2>8. Replay'
    BY <2>1, <2>6, <2>7 DEF Replay, Alive
  <2>9. QED  BY <2>2, <2>8
<1>5. ASSUME NEW d \in Daemon, OnExit(d, s)
      PROVE  Held' /\ Family' /\ Unopened' /\ Replay' /\ OneByOne'
  <2>1. /\ \A x \in Daemon : store'[x] = IF x = d THEN store[x] \ {s} ELSE store[x]
        /\ \A x \in Daemon, t \in Session :
              ring'[x][t] = IF x = d /\ t = s THEN {} ELSE ring[x][t]
        /\ UNCHANGED <<proc, parent, wait, ipc, path, shell, made, read, gap, breach>>
        /\ shell[s] = "dead"
    BY <1>5 DEF OnExit, out, TypeOK
  <2>2. Family' /\ Unopened' /\ OneByOne'
    BY <2>1 DEF Family, Unopened, OneByOne, Old, New
  <2>3. Held'
    <3>1. Live' = Live /\ s \notin Live
      BY <2>1 DEF Live
    <3>2. QED  BY <2>1, <3>1 DEF Held, Alive
  <2>4. ASSUME NEW x \in Daemon, Alive(x)', NEW t \in store'[x]
        PROVE  (1..read'[t]) \ gap'[t] \subseteq ring'[x][t]
    <3>1. t \in store[x] /\ t \in Session /\ ~(x = d /\ t = s)
      BY <2>1 DEF TypeOK
    <3>2. ring'[x][t] = ring[x][t] /\ Alive(x)
      BY <2>1, <2>4, <3>1 DEF Alive
    <3>3. QED  BY <2>1, <3>1, <3>2 DEF Replay
  <2>5. Replay'
    BY <2>1, <2>4 DEF Replay
  <2>6. QED  BY <2>2, <2>3, <2>5
<1>6. QED  BY <1>1, <1>2, <1>3, <1>4, <1>5 DEF SessionNext

LEMMA PrepareInv ==
  ASSUME IInv, NEW d \in Daemon, NEW e \in Daemon, PrepareUpgrade(d, e)
  PROVE  Held' /\ Family' /\ Unopened' /\ Replay' /\ OneByOne'
<1> USE DEF IInv
<1>1. /\ \A x \in Daemon : /\ proc'[x] = IF x = e THEN "boot" ELSE proc[x]
                           /\ parent'[x] = IF x = e THEN d ELSE parent[x]
                           /\ store'[x] = IF x = e THEN store[d] ELSE store[x]
                           /\ ring'[x] = IF x = e THEN ring[d] ELSE ring[x]
      /\ wait' = wait \cup {e}
      /\ UNCHANGED <<ipc, path, shell, made, read, gap>>
      /\ proc[d] \in {"up", "closing"} /\ proc[e] = "unused"
  BY DEF PrepareUpgrade, Serving, out, TypeOK
<1>2. \A x \in Daemon : parent[x] \in Daemon \cup {NoDaemon}
  BY DEF TypeOK
<1>3. Family'
  <2>1. \A x \in Daemon : parent[x] # NoDaemon => parent[x] # e /\ x # e
    BY <1>1 DEF Family
  <2>2. ASSUME NEW x \in Daemon, parent'[x] # NoDaemon
        PROVE  /\ parent'[x] # x
               /\ proc'[x] # "unused"
               /\ proc'[parent'[x]] \notin {"unused", "boot", "adopted"}
    <3>1. CASE x = e
      BY <1>1, <3>1
    <3>2. CASE x # e
      BY <1>1, <1>2, <2>1, <2>2, <3>2 DEF Family
    <3>3. QED  BY <3>1, <3>2
  <2>3. \A x \in Daemon : proc'[x] = "unused" => ipc'[x] = "none"
    BY <1>1 DEF Family
  <2>4. \A x \in wait' : parent'[x] # NoDaemon
    BY <1>1 DEF Family, TypeOK
  <2>5. QED  BY <2>2, <2>3, <2>4 DEF Family
<1>4. Held'
  BY <1>1 DEF Held, Live, Alive
<1>5. Unopened'
  BY <1>1 DEF Unopened
<1>6. Replay'
  <2>1. ASSUME NEW x \in Daemon, Alive(x)', NEW t \in store'[x]
        PROVE  (1..read'[t]) \ gap'[t] \subseteq ring'[x][t]
    <3>1. CASE x = e
      <4>1. t \in store[d] /\ Alive(d) /\ ring'[x] = ring[d]
        BY <1>1, <3>1 DEF Alive
      <4>2. QED  BY <1>1, <4>1 DEF Replay
    <3>2. CASE x # e
      <4>1. t \in store[x] /\ Alive(x) /\ ring'[x] = ring[x]
        BY <1>1, <2>1, <3>2 DEF Alive
      <4>2. QED  BY <1>1, <4>1 DEF Replay
    <3>3. QED  BY <3>1, <3>2
  <2>2. QED  BY <1>1, <2>1 DEF Replay
<1>7. OneByOne'
  <2> SUFFICES ASSUME breach' = {}
               PROVE  /\ \A x, y \in Daemon : Old(x)' /\ Old(y)' => x = y
                      /\ \A x, y \in Daemon : New(x)' /\ New(y)' => x = y
                      /\ \A x, y \in Daemon : Old(x)' /\ New(y)' => parent'[y] = x
                      /\ \A x \in Daemon : proc'[x] = "up" => path' = x
    BY DEF OneByOne
  <2>1. breach = {} /\ \A x \in Daemon : parent[x] = d => ~Alive(x)
    BY DEF PrepareUpgrade
  <2>2. \A x \in Daemon : ~New(x)
    BY <1>1, <2>1 DEF OneByOne, Old, New, Alive
  <2>3. \A x \in Daemon : Old(x) => x = d
    BY <1>1, <2>1 DEF OneByOne, Old
  <2>4. /\ \A x \in Daemon : New(x)' => x = e
        /\ \A x \in Daemon : Old(x)' => Old(x)
    BY <1>1, <2>2 DEF New, Old
  <2>5. \A x \in Daemon : proc'[x] = "up" => path' = x
    BY <1>1, <2>1 DEF OneByOne
  <2>6. QED  BY <1>1, <2>3, <2>4, <2>5
<1>8. QED  BY <1>3, <1>4, <1>5, <1>6, <1>7

\* A step that changes what one process does, and neither who is alive nor
\* what anyone has.
LEMMA MoveInv ==
  ASSUME IInv, NEW e \in Daemon, NEW p,
         proc' = [proc EXCEPT ![e] = p],
         proc[e] \notin {"unused", "dead"}, p \notin {"unused", "dead"},
         p \in {"boot", "adopted"} => proc[e] \in {"boot", "adopted"},
         wait' \subseteq wait,
         \A x \in Daemon : proc[x] = "unused" => ipc'[x] = ipc[x],
         UNCHANGED <<parent, store, ring, shell, out>>
  PROVE  Held' /\ Family' /\ Unopened' /\ Replay'
<1> USE DEF IInv
<1>1. \A x \in Daemon : proc'[x] = IF x = e THEN p ELSE proc[x]
  BY DEF TypeOK
<1>2. \A x \in Daemon : Alive(x)' <=> Alive(x)
  BY <1>1 DEF Alive
<1>3. Held' /\ Unopened' /\ Replay'
  BY <1>2 DEF Held, Unopened, Replay, Live, out
<1>4. \A x \in Daemon : parent[x] \in Daemon \cup {NoDaemon}
  BY DEF TypeOK
<1>5. Family'
  BY <1>1, <1>4 DEF Family, TypeOK
<1>6. QED  BY <1>3, <1>5

LEMMA DaemonInv ==
  ASSUME IInv, NEW d \in Daemon, DaemonNext(d)
  PROVE  Held' /\ Family' /\ Unopened' /\ Replay' /\ OneByOne'
<1> USE DEF IInv
<1> DEFINE Kept == Held' /\ Family' /\ Unopened' /\ Replay' /\ OneByOne'
<1>1. ASSUME NEW e \in Daemon, PrepareUpgrade(d, e)  PROVE Kept
  BY <1>1, PrepareInv
<1>2. CASE Acked(d)
  <2>1. parent[d] \in Daemon /\ proc[parent[d]] \notin {"unused", "dead"}
    BY <1>2 DEF Acked, Awaits, Parent, Alive, TypeOK
  <2> DEFINE p == IF proc[parent[d]] = "up" THEN "closing" ELSE proc[parent[d]]
  <2>2. /\ proc' = [proc EXCEPT ![parent[d]] = p]
        /\ wait' \subseteq wait
        /\ UNCHANGED <<parent, store, ring, ipc, path, shell, out, breach>>
    BY <1>2 DEF Acked
  <2>3. Held' /\ Family' /\ Unopened' /\ Replay'
    <3>1. /\ p \notin {"unused", "dead"}
          /\ p \in {"boot", "adopted"} => proc[parent[d]] \in {"boot", "adopted"}
      BY <2>1
    <3>2. \A x \in Daemon : proc[x] = "unused" => ipc'[x] = ipc[x]
      BY <2>2
    <3> HIDE DEF p
    <3>3. QED  BY <2>1, <2>2, <3>1, <3>2, MoveInv
  <2>4. OneByOne'
    BY <2>1, <2>2 DEF OneByOne, Old, New, TypeOK
  <2>5. QED  BY <2>3, <2>4
<1>3. CASE Refused(d)
  <2>1. proc[d] # "unused"
    BY <1>3 DEF Refused, Awaits, Family
  <2>2. QED  BY <1>3, <2>1, GoneInv DEF Refused
<1>4. CASE Close(d)
  <2>1. Held' /\ Family' /\ Unopened' /\ Replay'
    BY <1>4, MoveInv DEF Close
  <2>2. OneByOne'
    BY <1>4 DEF Close, OneByOne, Old, New, TypeOK
  <2>3. QED  BY <2>1, <2>2
<1>5. CASE Exit(d)
  BY <1>5, GoneInv DEF Exit
<1>6. CASE Adopt(d)
  <2>1. Held' /\ Family' /\ Unopened' /\ Replay'
    <3>1. \A x \in Daemon : proc[x] = "unused" => ipc'[x] = ipc[x]
      BY <1>6 DEF Adopt, TypeOK
    <3>2. QED  BY <1>6, <3>1, MoveInv DEF Adopt
  <2>2. OneByOne'
    BY <1>6 DEF Adopt, OneByOne, Old, New, TypeOK
  <2>3. QED  BY <2>1, <2>2
<1>7. CASE AdoptFails(d)
  <2>1. \A x \in Daemon : proc[x] = "unused" => ipc'[x] = ipc[x]
    BY <1>7 DEF AdoptFails, TypeOK
  <2>2. QED  BY <1>7, <2>1, GoneInv DEF AdoptFails
<1>8. CASE Bind(d)
  <2>1. Held' /\ Family' /\ Unopened' /\ Replay'
    BY <1>8, MoveInv DEF Bind
  <2>2. OneByOne'
    <3>1. breach = {} => \A x \in Daemon : ~Old(x)
      BY <1>8 DEF Bind, Parent, Alive, OneByOne, Old, New, TypeOK
    <3>2. QED  BY <1>8, <3>1 DEF Bind, OneByOne, Old, New, TypeOK
  <2>3. QED  BY <2>1, <2>2
<1>9. CASE BindEarly(d)
  <2>1. Held' /\ Family' /\ Unopened' /\ Replay'
    BY <1>9, MoveInv DEF BindEarly
  <2>2. OneByOne'
    BY <1>9 DEF BindEarly, OneByOne
  <2>3. QED  BY <2>1, <2>2
<1>10. CASE Crash(d)
  BY <1>10, GoneInv DEF Crash, Alive
<1>11. QED
  BY <1>1, <1>2, <1>3, <1>4, <1>5, <1>6, <1>7, <1>8, <1>9, <1>10
     DEF DaemonNext

LEMMA StepInv == IInv /\ [Next]_vars => IInv'
<1> SUFFICES ASSUME IInv, [Next]_vars  PROVE IInv'
  OBVIOUS
<1>1. TypeOK'
  BY StepTypes DEF IInv
<1>2. CASE UNCHANGED vars
  BY <1>1, <1>2 DEF vars, out, IInv, Held, Family, Unopened, Replay, OneByOne, Live,
                    Alive, Old, New
<1>3. CASE Next
  BY <1>1, <1>3, SessionInv, DaemonInv DEF Next, IInv
<1>4. QED  BY <1>2, <1>3

\* The inductive invariant of the handoff.
THEOREM Invariance == Spec => []IInv
  BY InitInv, StepInv, PTL DEF Spec

\* What was read of a session can be replayed by whoever has it, except what
\* was read while two processes had its master.
THEOREM ReplaySurvives == Spec => []ReplayKept
<1>1. IInv => ReplayKept
  BY DEF IInv, Replay, ReplayKept, Running, Alive
<1>2. QED  BY Invariance, <1>1, PTL

\* Between upgrades that were kept apart, the process that clients reach is
\* the only one that has the running sessions.
THEOREM OneCustodian == Spec => []SoleCustodian
<1>1. IInv => SoleCustodian
  <2> SUFFICES ASSUME IInv, Quiet, breach = {}, NEW s \in Live
               PROVE  Holders(s) = {path}
    BY DEF SoleCustodian
  <2>1. \A d \in Daemon : Alive(d) => proc[d] = "up"
    BY DEF Quiet, Alive
  <2>2. \A d \in Daemon : proc[d] = "up" => path = d
    BY DEF IInv, OneByOne
  <2>3. \E d \in Daemon : Alive(d) /\ s \in store[d]
    BY DEF IInv, Held
  <2>4. QED  BY <2>1, <2>2, <2>3 DEF Holders
<1>2. QED  BY Invariance, <1>1, PTL

-----------------------------------------------------------------------------
(***************************************************************************)
(* A handoff keeps the promise of SessionSurvival.                         *)
(***************************************************************************)
\* As long as no process failed or was late: a successor that serves has no
\* parent any more, one that acknowledged and is awaited has adopted, and a
\* process that leaves has a successor that adopted and is not given up.
Calm == faults = 0 /\ "early" \notin breach

Leaving ==
    Calm =>
       /\ \A e \in Daemon : Alive(e) /\ Parent(e) => New(e)
       /\ \A e \in wait : Parent(e) /\ ipc[e] = "ack" => proc[e] = "adopted"
       /\ \A d \in Daemon : proc[d] \in {"closing", "closed"} =>
             \E e \in Daemon : parent[e] = d /\ proc[e] = "adopted" /\ e \notin wait

RInv == IInv /\ Leaving

LEMMA InitLeaving == Init => Leaving
  BY DEF Init, Leaving, Parent

\* Steps of sessions leave alone what Leaving is about.
LEMMA SessionFrame ==
  ASSUME NEW s \in Session, SessionNext(s)
  PROVE  UNCHANGED <<proc, parent, wait, ipc, told, path, breach, faults>>
  BY DEF SessionNext, Produce, ShellExits, Open, OnData, OnExit

LEMMA CalmBefore ==
  ASSUME TypeOK, Next, Calm'
  PROVE  Calm
<1>1. ASSUME NEW s \in Session, SessionNext(s)  PROVE Calm
  BY <1>1, SessionFrame DEF Calm
<1>2. ASSUME NEW d \in Daemon, DaemonNext(d)  PROVE Calm
  BY <1>2 DEF Calm, TypeOK, DaemonNext, PrepareUpgrade, Acked, Refused, Close, Exit,
              Adopt, AdoptFails, Bind, BindEarly, Crash
<1>3. QED  BY <1>1, <1>2 DEF Next

\* The end of a process that is not the one a process leaves to.
LEMMA GoneLeaving ==
  ASSUME RInv, Calm, NEW d \in Daemon, Gone({d}), UNCHANGED parent,
         wait' \subseteq wait, proc[d] = "adopted" => d \in wait,
         \A e \in Daemon : ipc'[e] = "ack" => ipc[e] = "ack",
         d \in wait' /\ Parent(d) => ipc'[d] # "ack"
  PROVE  Leaving'
<1> USE DEF RInv, IInv
<1>1. \A x \in Daemon : proc'[x] = IF x = d THEN "dead" ELSE proc[x]
  BY DEF Gone, TypeOK
<1>2. \A e \in Daemon : Parent(e)' => Parent(e)
  BY <1>1 DEF Parent, Alive, TypeOK
<1>3. \A e \in Daemon : Alive(e)' => Alive(e) /\ e # d
  BY <1>1 DEF Alive
<1>4. \A e \in Daemon : Alive(e)' /\ Parent(e)' => New(e)'
  BY <1>1, <1>2, <1>3 DEF Leaving, New
<1>5. \A e \in wait' : Parent(e)' /\ ipc'[e] = "ack" => proc'[e] = "adopted"
  BY <1>1, <1>2 DEF Leaving, TypeOK
<1>6. \A x \in Daemon : proc'[x] \in {"closing", "closed"} =>
         \E e \in Daemon : parent'[e] = x /\ proc'[e] = "adopted" /\ e \notin wait'
  BY <1>1 DEF Leaving
<1>7. QED  BY <1>4, <1>5, <1>6 DEF Leaving

\* A process goes on, and answers that are awaited are as before.
LEMMA MoveLeaving ==
  ASSUME RInv, Calm, NEW d \in Daemon, NEW p,
         proc' = [proc EXCEPT ![d] = p],
         proc[d] \notin {"unused", "dead"}, p \notin {"unused", "dead"},
         p \in {"boot", "adopted"} \/ ~Parent(d),
         proc[d] = "adopted" => p = "adopted" \/ ~Parent(d),
         p \in {"closing", "closed"} => proc[d] \in {"closing", "closed"},
         UNCHANGED <<parent, wait>>,
         \A e \in Daemon : ipc'[e] = "ack" =>
            ipc[e] = "ack" \/ (e = d /\ p = "adopted")
  PROVE  Leaving'
<1> USE DEF RInv, IInv
<1>1. \A x \in Daemon : proc'[x] = IF x = d THEN p ELSE proc[x]
  BY DEF TypeOK
<1>2. \A e \in Daemon : Alive(e)' <=> Alive(e)
  BY <1>1 DEF Alive
<1>3. \A e \in Daemon : Parent(e)' <=> Parent(e)
  BY <1>2 DEF Parent, TypeOK
<1>4. \A e \in Daemon : Alive(e)' /\ Parent(e)' => New(e)'
  BY <1>1, <1>2, <1>3 DEF Leaving, New
<1>5. \A e \in wait' : Parent(e)' /\ ipc'[e] = "ack" => proc'[e] = "adopted"
  <2> SUFFICES ASSUME NEW e \in wait, Parent(e), ipc'[e] = "ack"
               PROVE  proc'[e] = "adopted"
    BY <1>3 DEF TypeOK
  <2>1. e \in Daemon
    BY DEF TypeOK
  <2>2. QED  BY <1>1, <2>1 DEF Leaving
<1>6. ASSUME NEW x \in Daemon, proc'[x] \in {"closing", "closed"}
      PROVE  \E e \in Daemon : parent'[e] = x /\ proc'[e] = "adopted" /\ e \notin wait'
  <2>1. proc[x] \in {"closing", "closed"}
    BY <1>1, <1>6
  <2>2. PICK e \in Daemon : parent[e] = x /\ proc[e] = "adopted" /\ e \notin wait
    BY <2>1 DEF Leaving
  <2>3. Parent(e)
    BY <2>1, <2>2 DEF Parent, Alive
  <2>4. proc'[e] = "adopted"
    BY <1>1, <2>2, <2>3
  <2>5. QED  BY <2>2, <2>4
<1>7. QED  BY <1>4, <1>5, <1>6 DEF Leaving

LEMMA PrepareLeaving ==
  ASSUME RInv, Calm, NEW d \in Daemon, NEW e \in Daemon, PrepareUpgrade(d, e)
  PROVE  Leaving'
<1> USE DEF RInv, IInv
<1>1. /\ \A x \in Daemon : /\ proc'[x] = IF x = e THEN "boot" ELSE proc[x]
                           /\ parent'[x] = IF x = e THEN d ELSE parent[x]
      /\ wait' = wait \cup {e}
      /\ UNCHANGED ipc
      /\ proc[e] = "unused" /\ proc[d] \in {"up", "closing"}
  BY DEF PrepareUpgrade, Serving, TypeOK
<1>2. \A x \in Daemon : parent[x] # e
  BY <1>1 DEF Family, TypeOK
<1>3. \A x \in Daemon : x # e => /\ Alive(x)' <=> Alive(x)
                                 /\ Parent(x)' <=> Parent(x)
  BY <1>1, <1>2 DEF Parent, Alive, TypeOK
<1>4. \A x \in Daemon : Alive(x)' /\ Parent(x)' => New(x)'
  BY <1>1, <1>3 DEF Leaving, New
<1>5. \A x \in wait' : Parent(x)' /\ ipc'[x] = "ack" => proc'[x] = "adopted"
  <2> SUFFICES ASSUME NEW x \in wait', Parent(x)', ipc[x] = "ack"
               PROVE  proc'[x] = "adopted"
    BY <1>1
  <2>1. ipc[e] = "none"
    BY <1>1 DEF Family
  <2>2. x # e /\ x \in wait /\ x \in Daemon
    BY <1>1, <2>1 DEF TypeOK
  <2>3. QED  BY <1>1, <1>3, <2>2 DEF Leaving
<1>6. \A x \in Daemon : proc'[x] \in {"closing", "closed"} =>
         \E y \in Daemon : parent'[y] = x /\ proc'[y] = "adopted" /\ y \notin wait'
  BY <1>1 DEF Leaving
<1>7. QED  BY <1>4, <1>5, <1>6 DEF Leaving

LEMMA AckedLeaving ==
  ASSUME RInv, Calm, NEW d \in Daemon, Acked(d)
  PROVE  Leaving'
<1> USE DEF RInv, IInv
<1>1. /\ d \in wait /\ Parent(d) /\ ipc[d] = "ack" /\ proc[d] = "adopted"
      /\ parent[d] \in Daemon /\ parent[d] # d
  BY DEF Acked, Awaits, Leaving, Parent, Family, TypeOK
<1>2. /\ \A x \in Daemon :
            proc'[x] = IF x = parent[d] /\ proc[x] = "up" THEN "closing" ELSE proc[x]
      /\ wait' = wait \ {d} /\ UNCHANGED <<parent, ipc>>
  BY DEF Acked, TypeOK
<1>3. \A x \in Daemon : /\ Alive(x)' <=> Alive(x)
                        /\ Parent(x)' <=> Parent(x)
  BY <1>2 DEF Parent, Alive, TypeOK
<1>4. \A x \in Daemon : Alive(x)' /\ Parent(x)' => New(x)'
  BY <1>2, <1>3 DEF Leaving, New
<1>5. \A x \in wait' : Parent(x)' /\ ipc'[x] = "ack" => proc'[x] = "adopted"
  BY <1>2, <1>3 DEF Leaving, TypeOK
<1>6. \A x \in Daemon : proc'[x] \in {"closing", "closed"} =>
         \E y \in Daemon : parent'[y] = x /\ proc'[y] = "adopted" /\ y \notin wait'
  BY <1>1, <1>2 DEF Leaving
<1>7. QED  BY <1>4, <1>5, <1>6 DEF Leaving

LEMMA DaemonLeaving ==
  ASSUME RInv, Calm, Calm', NEW d \in Daemon, DaemonNext(d)
  PROVE  Leaving'
<1>0. TypeOK /\ Leaving
  BY DEF RInv, IInv
<1>1. ASSUME NEW e \in Daemon, PrepareUpgrade(d, e)  PROVE Leaving'
  BY <1>1, PrepareLeaving
<1>2. CASE Acked(d)
  BY <1>2, AckedLeaving
<1>3. CASE Refused(d)
  BY <1>3, GoneLeaving DEF Refused, Awaits
<1>4. CASE Close(d)
  <2> DEFINE p == "closed"
  <2>1. p \notin {"unused", "dead"} /\ proc[d] = "closing" /\ ~Parent(d)
    BY <1>0, <1>4 DEF Close, Leaving, Alive, New
  <2>2. proc' = [proc EXCEPT ![d] = p] /\ UNCHANGED <<parent, wait, ipc>>
    BY <1>4 DEF Close
  <2> HIDE DEF p
  <2>3. QED  BY <2>1, <2>2, MoveLeaving
<1>5. CASE Exit(d)
  <2>1. ~Parent(d)
    BY <1>0, <1>5 DEF Exit, Leaving, Alive, New
  <2>2. QED  BY <1>5, <2>1, GoneLeaving DEF Exit
<1>6. CASE Adopt(d)
  <2>1. \A e \in Daemon : ipc'[e] = "ack" => ipc[e] = "ack" \/ e = d
    BY <1>0, <1>6 DEF Adopt, TypeOK
  <2>2. QED  BY <1>6, <2>1, MoveLeaving DEF Adopt
<1>7. CASE AdoptFails(d)
  <2>1. \A e \in Daemon : ipc'[e] = "ack" => ipc[e] = "ack"
    BY <1>0, <1>7 DEF AdoptFails, TypeOK
  <2>2. Parent(d) => ipc'[d] # "ack"
    BY <1>0, <1>7 DEF AdoptFails, TypeOK
  <2>3. Gone({d}) /\ proc[d] = "boot" /\ UNCHANGED <<parent, wait>>
    BY <1>7 DEF AdoptFails
  <2>4. QED  BY <2>1, <2>2, <2>3, GoneLeaving
<1>8. CASE Bind(d)
  BY <1>8, MoveLeaving DEF Bind
<1>9. CASE BindEarly(d) \/ Crash(d)
  BY <1>0, <1>9 DEF BindEarly, Crash, Calm, TypeOK
<1>10. QED
  BY <1>1, <1>2, <1>3, <1>4, <1>5, <1>6, <1>7, <1>8, <1>9 DEF DaemonNext

LEMMA StepRInv == RInv /\ [Next]_vars => RInv'
<1> SUFFICES ASSUME RInv, [Next]_vars  PROVE RInv'
  OBVIOUS
<1>1. IInv'
  BY StepInv DEF RInv
<1>2. CASE UNCHANGED vars
  BY <1>1, <1>2 DEF vars, RInv, Leaving, Calm, Alive, Parent, New
<1>3. CASE Next
  <2> SUFFICES ASSUME Calm'  PROVE Leaving'
    BY <1>1 DEF RInv, Leaving
  <2>1. Calm
    BY <1>3, CalmBefore DEF RInv, IInv
  <2>2. ASSUME NEW s \in Session, SessionNext(s)  PROVE Leaving'
    BY <2>1, <2>2, SessionFrame DEF RInv, Leaving, Calm, Alive, Parent, New
  <2>3. QED  BY <1>3, <2>1, <2>2, DaemonLeaving DEF Next
<1>4. QED  BY <1>2, <1>3

\* The variables of SessionSurvival.
Failures == IF "early" \in breach THEN faults + 1 ELSE faults

\* A session is late only during an upgrade.
LEMMA LateUpgrading == TypeOK /\ Held /\ Late # {} => Successors # {}
<1> SUFFICES ASSUME TypeOK, Held, Late # {}  PROVE Successors # {}
  OBVIOUS
<1>1. PICK s \in Live : \A d \in Daemon : ~Safe(d, s)
  BY DEF Late
<1>2. PICK h \in Daemon : Alive(h) /\ s \in store[h]
  BY DEF Held
<1>3. CASE ~Running(h)
  BY <1>2, <1>3 DEF Running, Alive, Successors, TypeOK, ProcState
<1>4. CASE Awaits(h)
  BY <1>2, <1>4 DEF Awaits, Successors
<1>5. CASE \E e \in Daemon : parent[e] = h /\ Alive(e)
  BY <1>2, <1>5 DEF Successors, Parent
<1>6. QED  BY <1>1, <1>2, <1>3, <1>4, <1>5 DEF Safe

LEMMA LateUpgradingNext ==
  (TypeOK /\ Held /\ Late # {} => Successors # {})'
  BY LateUpgrading, PTL

LEMMA HandoverStep ==
  ASSUME TypeOK', Held', Live' \subseteq Live, Failures' = Failures,
         \A s \in Live : s \notin Late => s \in Live' /\ s \notin Late'
  PROVE  Survival!Handover
<1>1. Late \subseteq Live /\ (Late \subseteq Live)'
  BY DEF Late
<1>2. Live' = (Live \ Late) \cup (Live' \cap Late)
  BY <1>1
<1>3. Late' \subseteq Late \cap Live'
  BY <1>1
<1>4. Late' # {} => (Successors # {})'
  BY LateUpgradingNext
<1>5. QED  BY <1>2, <1>3, <1>4 DEF Survival!Handover, Failures

LEMMA FailStep ==
  ASSUME Live' \subseteq Live, Failures' \in {Failures, Failures + 1}, Failures' > 0
  PROVE  Survival!Fail
<1>1. Late' \subseteq Live'
  BY DEF Late
<1>2. QED  BY <1>1 DEF Survival!Fail, Failures

\* A process that is safe with a session stays so as long as processes only
\* go on, or others end.
LEMMA SafeStays ==
  ASSUME TypeOK, NEW h \in Daemon, NEW s, Safe(h, s), UNCHANGED parent,
         wait' \subseteq wait, s \in store'[h], Running(h)',
         \A x \in Daemon : Alive(x)' => Alive(x) /\ store'[x] = store[x]
  PROVE  Safe(h, s)'
<1>1. Awaits(h)' => Awaits(h)
  BY DEF Awaits, Parent, TypeOK
<1>2. QED  BY <1>1 DEF Safe

\* A process moves on: those who are safe stay so.
LEMMA MoveSurvives ==
  ASSUME RInv, RInv', UNCHANGED <<parent, store, shell, faults, breach>>,
         wait' \subseteq wait,
         \A x \in Daemon : /\ Alive(x)' => Alive(x)
                           /\ Running(x) => Running(x)'
  PROVE  Survival!Handover
<1>1. Live' = Live /\ Failures' = Failures
  BY DEF Live, Failures
<1>2. ASSUME NEW s \in Live, s \notin Late  PROVE s \notin Late'
  <2>1. PICK h \in Daemon : Safe(h, s)
    BY <1>2 DEF Late
  <2>2. Safe(h, s)'
    BY <2>1, SafeStays DEF RInv, IInv, Safe
  <2>3. QED  BY <2>2 DEF Late
<1>3. QED  BY <1>1, <1>2, HandoverStep DEF RInv, IInv

\* A process ends that nobody relied on: its sessions are safe elsewhere.
LEMMA GoneSurvives ==
  ASSUME RInv, RInv', NEW d \in Daemon, Gone({d}),
         UNCHANGED <<parent, faults, breach>>, wait' \subseteq wait,
         Calm => \A s \in Live : Safe(d, s) => \E h \in Daemon : h # d /\ Safe(h, s)
  PROVE  Survival!Handover \/ Survival!Fail
<1>1. Live' \subseteq Live /\ Failures' = Failures
  BY DEF Gone, Live, Failures
<1>2. CASE ~Calm
  <2>1. Failures > 0
    BY <1>2 DEF Calm, Failures, RInv, IInv, TypeOK
  <2>2. QED  BY <1>1, <2>1, FailStep
<1>3. CASE Calm
  <2>1. ASSUME NEW s \in Live, s \notin Late  PROVE s \in Live' /\ s \notin Late'
    <3>1. PICK h \in Daemon : h # d /\ Safe(h, s)
      BY <1>3, <2>1 DEF Late
    <3>2. h \in Holders(s)
      BY <3>1 DEF Safe, Running, Holders, Alive
    <3>3. s \in Live'
      BY <3>1, <3>2 DEF Gone, Live
    <3>4. \A x \in Daemon : /\ proc'[x] = IF x = d THEN "dead" ELSE proc[x]
                            /\ store'[x] = IF x = d THEN {} ELSE store[x]
      BY DEF Gone, RInv, IInv, TypeOK
    <3>5. Running(h)' /\ s \in store'[h]
      BY <3>1, <3>4 DEF Safe, Running
    <3>6. \A x \in Daemon : Alive(x)' => Alive(x) /\ store'[x] = store[x]
      BY <3>4 DEF Alive
    <3>7. Safe(h, s)'
      BY <3>1, <3>5, <3>6, SafeStays DEF RInv, IInv
    <3>8. QED  BY <3>3, <3>7 DEF Late
  <2>2. QED  BY <1>1, <2>1, HandoverStep DEF RInv, IInv
<1>4. QED  BY <1>2, <1>3

\* A process that leaves is not the only one that is safe.
LEMMA ExitRelies ==
  ASSUME RInv, Calm, NEW d \in Daemon, proc[d] = "closed", NEW s, Safe(d, s)
  PROVE  \E h \in Daemon : h # d /\ Safe(h, s)
<1>1. PICK e \in Daemon : parent[e] = d /\ proc[e] = "adopted" /\ e \notin wait
  BY DEF RInv, Leaving
<1>2. e # d /\ Alive(e) /\ Running(e)
  BY <1>1 DEF Alive, Running
<1>3. s \in store[e]
  BY <1>1, <1>2 DEF Safe
<1>4. \A x \in Daemon : parent[x] # e
  BY <1>1 DEF RInv, IInv, Family, TypeOK
<1>5. Safe(e, s)
  BY <1>1, <1>2, <1>3, <1>4 DEF Safe, Awaits
<1>6. QED  BY <1>2, <1>5

\* Who is safe with a session depends on the processes and on who has it.
LEMMA SafeSame ==
  ASSUME TypeOK, UNCHANGED <<proc, parent, wait>>, NEW x \in Daemon, NEW t,
         \A y \in Daemon : t \in store'[y] <=> t \in store[y]
  PROVE  Safe(x, t)' <=> Safe(x, t)
<1>1. \A y \in Daemon : Alive(y)' <=> Alive(y)
  BY DEF Alive
<1>2. (Awaits(x)' <=> Awaits(x)) /\ (Running(x)' <=> Running(x))
  BY DEF Awaits, Parent, Alive, Running
<1>3. QED  BY <1>1, <1>2 DEF Safe

LEMMA SessionRefines ==
  ASSUME RInv, RInv', NEW s \in Session, SessionNext(s)
  PROVE  Survival!Next \/ UNCHANGED Survival!vars
<1> USE DEF RInv, IInv
<1>1. UNCHANGED <<proc, parent, wait, breach, faults>>
  BY SessionFrame
<1>2. Successors' = Successors /\ Failures' = Failures
  BY <1>1 DEF Successors, Parent, Alive, Failures
<1>3. CASE Produce(s) \/ \E d \in Daemon : OnData(d, s) \/ OnExit(d, s)
  <2>1. Live' = Live
    BY <1>3 DEF Produce, OnData, OnExit, out, Live
  <2>2. ASSUME NEW t \in Live, NEW y \in Daemon  PROVE t \in store'[y] <=> t \in store[y]
    BY <1>3 DEF Produce, OnData, OnExit, out, Live, TypeOK
  <2>3. \A t \in Live, x \in Daemon : Safe(x, t)' <=> Safe(x, t)
    BY <1>1, <2>2, SafeSame
  <2>4. Late' = Late
    BY <2>1, <2>3 DEF Late
  <2>5. QED  BY <1>2, <2>1, <2>4 DEF Survival!vars, Failures
<1>4. CASE ShellExits(s)
  <2>1. Live' = Live \ {s} /\ UNCHANGED store
    BY <1>4 DEF ShellExits, Live, TypeOK
  <2>2. \A t \in Live, x \in Daemon : Safe(x, t)' <=> Safe(x, t)
    BY <1>1, <2>1, SafeSame
  <2>3. Late' = Late \ {s}
    BY <2>1, <2>2 DEF Late
  <2>4. Survival!End(s)
    BY <1>2, <2>1, <2>3 DEF Survival!End, Failures
  <2>5. QED  BY <2>4 DEF Survival!Next
<1>5. ASSUME NEW d \in Daemon, Open(d, s)  PROVE Survival!Open(s)
  <2>1. s \notin Live /\ Live' = Live \cup {s}
    BY <1>5 DEF Open, Live, TypeOK
  <2>2. ASSUME NEW t \in Live, NEW y \in Daemon  PROVE t \in store'[y] <=> t \in store[y]
    BY <1>5, <2>1 DEF Open, TypeOK
  <2>3. \A t \in Live, x \in Daemon : Safe(x, t)' <=> Safe(x, t)
    BY <1>1, <2>2, SafeSame
  <2>4. Late' = Late \/ Late' = Late \cup {s}
    BY <2>1, <2>3 DEF Late
  <2>5. Successors = {} => Late' = {}
    BY <1>2, LateUpgradingNext
  <2>6. QED  BY <1>2, <2>1, <2>4, <2>5 DEF Survival!Open, Failures
<1>6. CASE \E d \in Daemon : Open(d, s)
  BY <1>5, <1>6 DEF Survival!Next
<1>7. QED  BY <1>3, <1>4, <1>6 DEF SessionNext

\* A successor that is being started takes nothing away: it has the
\* sessions of its parent.
LEMMA PrepareRefines ==
  ASSUME RInv, NEW d \in Daemon, NEW e \in Daemon, PrepareUpgrade(d, e)
  PROVE  Survival!Prepare
<1> USE DEF RInv, IInv
<1>1. /\ \A x \in Daemon : /\ proc'[x] = IF x = e THEN "boot" ELSE proc[x]
                           /\ parent'[x] = IF x = e THEN d ELSE parent[x]
                           /\ store'[x] = IF x = e THEN store[d] ELSE store[x]
      /\ wait' = wait \cup {e}
      /\ UNCHANGED <<shell, faults>>
      /\ "early" \in breach' <=> "early" \in breach
      /\ proc[e] = "unused"
  BY DEF PrepareUpgrade, out, TypeOK
<1>2. \A x \in Daemon : parent[x] # e
  BY <1>1 DEF Family, TypeOK
<1>3. \A x \in Daemon : x # e => /\ Alive(x)' <=> Alive(x)
                                 /\ Running(x)' <=> Running(x)
                                 /\ Awaits(x)' <=> Awaits(x)
  BY <1>1, <1>2 DEF Alive, Running, Awaits, Parent, TypeOK
<1>4. ASSUME NEW x \in Daemon, NEW t  PROVE Safe(x, t)' <=> Safe(x, t)
  <2>1. CASE x = e
    BY <1>1, <2>1 DEF Safe, Running
  <2>2. CASE x # e
    <3>1. ~Alive(e)
      BY <1>1 DEF Alive
    <3>2. t \in store[x] =>
            ((\A y \in Daemon : parent'[y] = x /\ Alive(y)' => t \in store'[y])
             <=> (\A y \in Daemon : parent[y] = x /\ Alive(y) => t \in store[y]))
      BY <1>1, <1>3, <3>1
    <3>3. t \in store'[x] <=> t \in store[x]
      BY <1>1, <2>2
    <3>4. QED  BY <1>3, <2>2, <3>2, <3>3 DEF Safe
  <2>3. QED  BY <2>1, <2>2
<1>5. Live' = Live /\ Late' = Late
  BY <1>1, <1>4 DEF Live, Late
<1>6. (Successors # {})' = TRUE
  BY <1>1 DEF Successors, Alive
<1>7. Failures' = Failures
  BY <1>1 DEF Failures
<1>8. QED  BY <1>5, <1>6, <1>7 DEF Survival!Prepare, Failures

LEMMA DaemonRefines ==
  ASSUME RInv, RInv', NEW d \in Daemon, DaemonNext(d)
  PROVE  Survival!Next
<1>0. TypeOK
  BY DEF RInv, IInv
<1>1. ASSUME NEW e \in Daemon, PrepareUpgrade(d, e)  PROVE Survival!Next
  BY <1>1, PrepareRefines DEF Survival!Next
<1>2. CASE Acked(d) \/ Close(d) \/ Adopt(d) \/ Bind(d)
  <2>1. UNCHANGED <<parent, store, shell, faults, breach>> /\ wait' \subseteq wait
    BY <1>2 DEF Acked, Close, Adopt, Bind
  <2>2. \A x \in Daemon : (Alive(x)' => Alive(x)) /\ (Running(x) => Running(x)')
    BY <1>0, <1>2 DEF Acked, Awaits, Parent, Close, Adopt, Bind, Alive, Running, TypeOK
  <2>3. QED  BY <2>1, <2>2, MoveSurvives DEF Survival!Next
<1>3. CASE Refused(d)
  <2>1. \A s : ~Safe(d, s)
    BY <1>3 DEF Refused, Safe
  <2>2. Gone({d}) /\ UNCHANGED <<parent, faults, breach>> /\ wait' \subseteq wait
    BY <1>3 DEF Refused
  <2>3. QED  BY <2>1, <2>2, GoneSurvives DEF Survival!Next
<1>4. CASE AdoptFails(d)
  <2>1. \A s : ~Safe(d, s)
    BY <1>4 DEF AdoptFails, Safe, Running
  <2>2. Gone({d}) /\ UNCHANGED <<parent, faults, breach>> /\ wait' \subseteq wait
    BY <1>4 DEF AdoptFails
  <2>3. QED  BY <2>1, <2>2, GoneSurvives DEF Survival!Next
<1>5. CASE Exit(d)
  <2>1. Calm => \A s \in Live : Safe(d, s) => \E h \in Daemon : h # d /\ Safe(h, s)
    BY <1>5, ExitRelies DEF Exit
  <2>2. Gone({d}) /\ UNCHANGED <<parent, faults, breach>> /\ wait' \subseteq wait
    BY <1>5 DEF Exit
  <2>3. QED  BY <2>1, <2>2, GoneSurvives DEF Survival!Next
<1>6. CASE BindEarly(d)
  <2>1. Live' = Live /\ Failures' = faults + 1
    BY <1>6 DEF BindEarly, Live, Failures
  <2>2. Failures' \in {Failures, Failures + 1} /\ Failures' > 0
    BY <1>0, <2>1 DEF Failures, TypeOK
  <2>3. QED  BY <2>1, <2>2, FailStep DEF Survival!Next
<1>7. CASE Crash(d)
  <2>1. Live' \subseteq Live
    BY <1>7 DEF Crash, Gone, Live
  <2>2. Failures' = Failures + 1 /\ Failures' > 0
    BY <1>0, <1>7 DEF Crash, Failures, TypeOK
  <2>3. QED  BY <2>1, <2>2, FailStep DEF Survival!Next
<1>8. QED  BY <1>1, <1>2, <1>3, <1>4, <1>5, <1>6, <1>7 DEF DaemonNext

LEMMA InitRefines == Init => Survival!Init
<1> SUFFICES ASSUME Init  PROVE Survival!Init
  OBVIOUS
<1>1. Live = {} /\ Late = {}
  BY DEF Init, Live, Late
<1>2. Successors = {}
  BY DEF Init, Successors, Parent, Alive
<1>3. faults = 0 /\ "early" \notin breach
  BY DEF Init
<1>4. QED  BY <1>1, <1>2, <1>3 DEF Survival!Init

\* Whatever the upgrades, the crashes and the successors that bind early, the
\* daemons keep the promise of SessionSurvival.
THEOREM UpgradeRefines == Spec => UpgradeKeepsPromise
<1>1. Init => RInv
  BY InitInv, InitLeaving DEF RInv
<1>2. RInv /\ RInv' /\ [Next]_vars => [Survival!Next]_(Survival!vars)
  <2> SUFFICES ASSUME RInv, RInv', [Next]_vars
               PROVE  [Survival!Next]_(Survival!vars)
    OBVIOUS
  <2>1. CASE UNCHANGED vars
    BY <2>1 DEF vars, Survival!vars, Live, Late, Safe, Awaits, Parent, Alive, Running,
                Successors
  <2>2. CASE Next
    BY <2>2, SessionRefines, DaemonRefines DEF Next
  <2>3. QED  BY <2>1, <2>2
<1>3. QED
  BY <1>1, <1>2, StepRInv, InitRefines, PTL DEF Spec, UpgradeKeepsPromise, Survival!Spec
=============================================================================
