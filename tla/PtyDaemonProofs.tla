-------------------------- MODULE PtyDaemonProofs --------------------------
(***************************************************************************)
(* Theorems about one pty-daemon, for every set of sessions and            *)
(* connections and every cap.                                              *)
(***************************************************************************)
EXTENDS PtyDaemon, TLAPS

USE DaemonAssumption DEF vars, ptyVars

LEMMA ReplyType ==
  ASSUME NEW t \in FrameType, NEW i \in Id \cup {"none"}
  PROVE  Reply(t, i) \in Frame
  BY DEF Reply, Frame

\* Send writes frames and breaks connections, nothing else.
LEMMA SendType ==
  ASSUME TypeOK, NEW R, NEW f, R \subseteq Conn,
         \A c \in R : f[c] \in Frame, Send(R, f)
  PROVE  /\ conn' \in [Conn -> {"closed", "open", "ready", "destroyed"}]
         /\ outq' \in [Conn -> Seq(Frame)]
<1>1. conn' \in [Conn -> {"closed", "open", "ready", "destroyed"}]
  BY DEF TypeOK, Send
<1>2. outq' \in [Conn -> Seq(Frame)]
  <2>1. SUFFICES ASSUME NEW c \in Conn PROVE outq'[c] \in Seq(Frame)
    BY DEF Send
  <2>2. outq[c] \in Seq(Frame)
    BY DEF TypeOK
  <2>3. c \in R => Append(outq[c], f[c]) \in Seq(Frame)
    BY <2>2
  <2>4. QED  BY <2>2, <2>3 DEF Send
<1>3. QED  BY <1>1, <1>2

LEMMA AnswerType ==
  ASSUME TypeOK, NEW c \in Conn, NEW t \in FrameType,
         NEW i \in Id \cup {"none"}, Answer(c, t, i)
  PROVE  /\ conn' \in [Conn -> {"closed", "open", "ready", "destroyed"}]
         /\ outq' \in [Conn -> Seq(Frame)]
  BY ReplyType, SendType DEF Answer

LEMMA DestroyType ==
  ASSUME TypeOK, NEW c \in Conn, Destroy(c)
  PROVE  /\ conn' \in [Conn -> {"closed", "open", "ready", "destroyed"}]
         /\ outq' \in [Conn -> Seq(Frame)]
  BY DEF Destroy, TypeOK

LEMMA ExitType ==
  ASSUME TypeOK, NEW i \in Id
  PROVE  Exit(i) \in Frame
  BY DEF Exit, Frame, FrameType, TypeOK

LEMMA OutputType ==
  ASSUME NEW i \in Id, NEW a \in Nat, NEW b \in Nat, NEW g \in BOOLEAN
  PROVE  Output(i, a, b, g) \in Frame
  BY DEF Output, Frame, FrameType

-----------------------------------------------------------------------------
(***************************************************************************)
(* The inductive invariant: types, subscriptions, ring buffer.             *)
(***************************************************************************)
\* The position where a session began is not past its newest byte.
BaseBehind == \A i \in Id : base[i] <= total[i]

Inv == TypeOK /\ NoDanglingSubscription /\ ReplayBounded /\ BaseBehind

LEMMA InitInv == Init => Inv
  BY DEF Init, Inv, TypeOK, NoDanglingSubscription, ReplayBounded, BaseBehind

\* Steps that only talk to connections keep all that is said of sessions.
LEMMA QuietStep ==
  ASSUME Inv, UNCHANGED <<up, store, ptyVars, subs, fresh>>,
         conn' \in [Conn -> {"closed", "open", "ready", "destroyed"}],
         outq' \in [Conn -> Seq(Frame)],
         recv' \in [Conn -> [Id -> Nat]]
  PROVE  Inv'
  BY DEF Inv, TypeOK, NoDanglingSubscription, ReplayBounded, BaseBehind

LEMMA ConnStep ==
  ASSUME Inv, NEW c \in Conn, ConnNext(c)
  PROVE  Inv'
<1> USE DEF Inv
<1>0. TypeOK  OBVIOUS
<1>1. CASE Connect(c)
  BY <1>1, QuietStep DEF Connect, TypeOK
<1>2. CASE SocketClosed(c)
  BY <1>2 DEF SocketClosed, TypeOK, NoDanglingSubscription, ReplayBounded,
              BaseBehind
<1>3. ASSUME NEW offered \in SUBSET Protocols, Hello(c, offered)
      PROVE  Inv'
  <2>1. CASE PickProtocol(offered) = {}
    BY <1>0, <1>3, <2>1, DestroyType, QuietStep DEF Hello, TypeOK
  <2>2. CASE PickProtocol(offered) # {}
    <3>1. Reply("hello-ack", "none") \in Frame
      BY ReplyType DEF FrameType
    <3>2. outq[c] \in Seq(Frame)
      BY DEF TypeOK
    <3>3. Append(outq[c], Reply("hello-ack", "none")) \in Seq(Frame)
      BY <3>1, <3>2
    <3>4. /\ outq' \in [Conn -> Seq(Frame)]
          /\ conn' \in [Conn -> {"closed", "open", "ready", "destroyed"}]
      BY <1>3, <2>2, <3>3 DEF Hello, TypeOK
    <3>5. QED  BY <1>3, <2>2, <3>4, QuietStep DEF Hello, TypeOK
  <2>3. QED  BY <2>1, <2>2
<1>4. CASE NotHello(c)
  BY <1>0, <1>4, DestroyType, QuietStep DEF NotHello, TypeOK
<1>5. CASE HandleList(c)
  BY <1>0, <1>5, AnswerType, QuietStep DEF HandleList, TypeOK, FrameType
<1>6. CASE Receive(c)
  <2>1. outq[c] \in Seq(Frame) /\ outq[c] # <<>>
    BY <1>6 DEF Receive, TypeOK
  <2>2. Head(outq[c]) \in Frame /\ Tail(outq[c]) \in Seq(Frame)
    BY <2>1
  <2>3. outq' \in [Conn -> Seq(Frame)]
    BY <1>6, <2>2 DEF Receive, TypeOK
  <2>4. recv' \in [Conn -> [Id -> Nat]]
    BY <1>6, <2>2 DEF Receive, TypeOK, Frame
  <2>5. QED  BY <1>6, <2>3, <2>4, QuietStep DEF Receive, TypeOK
<1>7. ASSUME NEW i \in Id, HandleOpen(c, i)
      PROVE  Inv'
  <2>1. /\ conn' \in [Conn -> {"closed", "open", "ready", "destroyed"}]
        /\ outq' \in [Conn -> Seq(Frame)]
    BY <1>0, <1>7, AnswerType DEF HandleOpen, FrameType
  <2>2. TypeOK'
    BY <1>7, <2>1 DEF HandleOpen, FreshPty, TypeOK
  <2>3. NoDanglingSubscription'
    BY <1>7 DEF HandleOpen, NoDanglingSubscription
  <2>4. (ReplayBounded /\ BaseBehind)'
    BY <1>7 DEF HandleOpen, FreshPty, ReplayBounded, BaseBehind, TypeOK
  <2>5. QED  BY <2>2, <2>3, <2>4
<1>8. ASSUME NEW i \in Id, HandleError(c, i)
      PROVE  Inv'
  BY <1>0, <1>8, AnswerType, QuietStep DEF HandleError, TypeOK, FrameType
<1>9. ASSUME NEW i \in Id, NEW sig \in {"hup", "kill"}, HandleClose(c, i, sig)
      PROVE  Inv'
  <2>1. /\ conn' \in [Conn -> {"closed", "open", "ready", "destroyed"}]
        /\ outq' \in [Conn -> Seq(Frame)]
    BY <1>0, <1>9, AnswerType DEF HandleClose, FrameType
  <2>2. TypeOK'
    BY <1>9, <2>1 DEF HandleClose, Kill, TypeOK
  <2>3. QED
    BY <1>9, <2>2 DEF HandleClose, NoDanglingSubscription, ReplayBounded,
                      BaseBehind
<1>10. ASSUME NEW i \in Id, NEW replay \in BOOLEAN,
              HandleSubscribe(c, i, replay)
       PROVE  Inv'
  <2>1. /\ conn' \in [Conn -> {"closed", "open", "ready", "destroyed"}]
        /\ outq' \in [Conn -> Seq(Frame)]
    <3>1. CASE replay /\ chunks[i] # {}
      <4>1. chunks[i] \subseteq Nat /\ total[i] \in Nat
        BY DEF TypeOK
      <4>2. PICK b \in Oldest(i) :
               Send({c}, [d \in {c} |-> Output(i, b, total[i], TRUE)])
        BY <1>10, <3>1 DEF HandleSubscribe
      <4>3. Output(i, b, total[i], TRUE) \in Frame
        BY <4>1, OutputType DEF Oldest
      <4>4. QED  BY <1>0, <4>2, <4>3, SendType
    <3>2. CASE ~(replay /\ chunks[i] # {})
      BY <1>10, <3>2 DEF HandleSubscribe, TypeOK
    <3>3. QED  BY <3>1, <3>2
  <2>2. TypeOK'
    <3>1. fresh' \in [Conn -> SUBSET Id] /\ subs' \in [Conn -> SUBSET Id]
      <4>1. \/ fresh' = [fresh EXCEPT ![c] = @ \ {i}]
            \/ fresh' = [fresh EXCEPT ![c] = @ \cup {i}]
        BY <1>10 DEF HandleSubscribe
      <4>2. subs' = [subs EXCEPT ![c] = @ \cup {i}]
        BY <1>10 DEF HandleSubscribe
      <4>3. subs[c] \subseteq Id /\ fresh[c] \subseteq Id
        BY DEF TypeOK
      <4>4. subs[c] \cup {i} \in SUBSET Id /\ fresh[c] \cup {i} \in SUBSET Id
            /\ fresh[c] \ {i} \in SUBSET Id
        BY <4>3
      <4>5. QED  BY <4>1, <4>2, <4>4 DEF TypeOK
    <3>2. QED  BY <1>10, <2>1, <3>1 DEF HandleSubscribe, TypeOK
  <2>3. NoDanglingSubscription'
    BY <1>10 DEF HandleSubscribe, NoDanglingSubscription, TypeOK
  <2>4. QED
    BY <1>10, <2>2, <2>3 DEF HandleSubscribe, ReplayBounded, BaseBehind
<1>11. ASSUME NEW i \in Id, HandleUnsubscribe(c, i)
       PROVE  Inv'
  BY <1>11 DEF HandleUnsubscribe, TypeOK, NoDanglingSubscription,
               ReplayBounded, BaseBehind
<1>12. QED
  BY <1>1, <1>2, <1>3, <1>4, <1>5, <1>6, <1>7, <1>8, <1>9, <1>10, <1>11
     DEF ConnNext

LEMMA KeptFits ==
  ASSUME NEW i \in Id, NEW end \in Nat, NEW b \in Kept(i, end)
  PROVE  b \in chunks[i] \cup {total[i]} /\ end - b <= BufferCap
  BY DEF Kept

LEMMA PtyStep ==
  ASSUME Inv, NEW i \in Id, PtyNext(i)
  PROVE  Inv'
<1> USE DEF Inv
<1>0. TypeOK  OBVIOUS
<1>1. ASSUME NEW n \in 1..MaxChunk, OnData(i, n)
      PROVE  Inv'
  <2>0. n \in Nat /\ n > 0 /\ total[i] \in Nat /\ chunks[i] \subseteq Nat
    BY <1>1 DEF TypeOK
  <2>1. /\ conn' \in [Conn -> {"closed", "open", "ready", "destroyed"}]
        /\ outq' \in [Conn -> Seq(Frame)]
    <3>1. \A c \in Subscribers(i) :
             Output(i, total[i], total[i] + n, i \in fresh[c]) \in Frame
      <4>1. TAKE c \in Subscribers(i)
      <4>2. (i \in fresh[c]) \in BOOLEAN
        OBVIOUS
      <4>3. total[i] + n \in Nat
        BY <2>0
      <4>4. QED  BY <2>0, <4>2, <4>3, OutputType
    <3>2. Subscribers(i) \subseteq Conn
      BY DEF Subscribers
    <3>3. DEFINE f == [c \in Subscribers(i) |->
                         Output(i, total[i], total[i] + n, i \in fresh[c])]
    <3>4. Send(Subscribers(i), f) /\ \A c \in Subscribers(i) : f[c] \in Frame
      BY <1>1, <3>1 DEF OnData
    <3> HIDE DEF f
    <3>5. QED  BY <1>0, <3>2, <3>4, SendType
  <2>2. Kept(i, total[i] + n) \subseteq Nat
    BY <2>0 DEF Kept
  <2>3. TypeOK'
    BY <1>1, <2>0, <2>1, <2>2 DEF OnData, TypeOK
  <2>4. NoDanglingSubscription'
    BY <1>1 DEF OnData, NoDanglingSubscription, TypeOK
  <2>5. ReplayBounded'
    <3>1. ASSUME NEW k \in Id, NEW b \in chunks'[k]
          PROVE  /\ k \in store'
                 /\ base'[k] <= b /\ b < total'[k]
                 /\ total'[k] - b <= BufferCap
      <4>1. CASE k = i
        <5>1. chunks'[i] = Kept(i, total[i] + n) /\ total'[i] = total[i] + n
          BY <1>1 DEF OnData, TypeOK
        <5>2. b \in chunks[i] \cup {total[i]} /\ (total[i] + n) - b <= BufferCap
          BY <2>0, <3>1, <4>1, <5>1, KeptFits
        <5>3. base[i] <= b /\ b <= total[i]
          BY <5>2, <2>0 DEF ReplayBounded, BaseBehind, TypeOK
        <5>4. base'[i] = base[i] /\ i \in store'
          BY <1>1 DEF OnData
        <5>5. b \in Nat
          BY <5>2, <2>0
        <5>6. b < total[i] + n
          BY <2>0, <5>3, <5>5
        <5>7. b < total'[i] /\ total'[i] - b <= BufferCap
          BY <2>0, <5>1, <5>2, <5>5, <5>6
        <5>8. base'[i] <= b
          BY <5>3, <5>4
        <5>9. QED  BY <4>1, <5>4, <5>7, <5>8
      <4>2. CASE k # i
        <5>1. /\ chunks'[k] = chunks[k] /\ total'[k] = total[k]
              /\ base' = base /\ store' = store
          BY <1>1, <4>2 DEF OnData, TypeOK
        <5>2. QED  BY <3>1, <5>1 DEF ReplayBounded
      <4>3. QED  BY <4>1, <4>2
    <3>2. QED  BY <3>1 DEF ReplayBounded
  <2>6. BaseBehind'
    BY <1>1, <2>0 DEF OnData, BaseBehind, TypeOK
  <2>7. QED  BY <2>3, <2>4, <2>5, <2>6
<1>2. CASE OnExit(i)
  <2>1. /\ conn' \in [Conn -> {"closed", "open", "ready", "destroyed"}]
        /\ outq' \in [Conn -> Seq(Frame)]
    BY <1>0, <1>2, ExitType, SendType DEF OnExit, Subscribers
  <2>2. TypeOK'
    BY <1>2, <2>1 DEF OnExit, DropSubscriptions, TypeOK
  <2>3. NoDanglingSubscription'
    BY <1>2 DEF OnExit, DropSubscriptions, NoDanglingSubscription, TypeOK
  <2>4. QED
    BY <1>2, <2>2, <2>3 DEF OnExit, ReplayBounded, BaseBehind, TypeOK
<1>3. CASE Escalate(i)
  BY <1>3 DEF Escalate, TypeOK, NoDanglingSubscription, ReplayBounded,
              BaseBehind
<1>4. QED  BY <1>1, <1>2, <1>3 DEF PtyNext, OnData

\* The invariant is inductive.
LEMMA InductiveInv == Inv /\ [Next]_vars => Inv'
<1> SUFFICES ASSUME Inv, [Next]_vars PROVE Inv'
  OBVIOUS
<1>1. CASE \E c \in Conn : ConnNext(c)
  BY <1>1, ConnStep
<1>2. CASE \E i \in Id : PtyNext(i)
  BY <1>2, PtyStep
<1>3. CASE Stop
  <2>1. chunks' = [i \in Id |-> {}] /\ UNCHANGED <<base, total>>
    BY <1>3 DEF Stop
  <2>2. (ReplayBounded /\ BaseBehind)'
    BY <2>1 DEF Inv, ReplayBounded, BaseBehind
  <2>3. outq' \in [Conn -> Seq(Frame)]
    BY <1>3 DEF Stop
  <2>4. TypeOK'
    BY <1>3, <2>1, <2>3 DEF Stop, Inv, TypeOK
  <2>5. NoDanglingSubscription'
    BY <1>3 DEF Stop, NoDanglingSubscription
  <2>6. QED  BY <2>2, <2>4, <2>5 DEF Inv
<1>4. CASE Listen
  BY <1>4 DEF Listen, Inv, TypeOK, NoDanglingSubscription, ReplayBounded,
              BaseBehind
<1>5. CASE UNCHANGED vars
  BY <1>5 DEF Inv, TypeOK, NoDanglingSubscription, ReplayBounded, BaseBehind
<1>6. QED  BY <1>1, <1>2, <1>3, <1>4, <1>5 DEF Next

LEMMA Invariance == Spec => []Inv
  BY InitInv, InductiveInv, PTL DEF Spec

\* Every variable keeps its type through every callback of the daemon.
THEOREM DaemonTypes == Spec => []TypeOK
  BY Invariance, PTL DEF Inv

\* No subscription outlives its session: the output of a reopened id never
\* reaches a connection that subscribed to an earlier session of that id.
THEOREM NoStaleSubscription == Spec => []NoDanglingSubscription
  BY Invariance, PTL DEF Inv

\* A replay holds only output of the running session, at most bufferCap
\* bytes of it, and ends at its newest byte.
THEOREM ReplaySafety == Spec => []ReplayBounded
  BY Invariance, PTL DEF Inv
-----------------------------------------------------------------------------
(***************************************************************************)
(* The queue of a connection, and what a subscription has in it.  q is a   *)
(* queue, i a session, r the position its client has read i up to.         *)
(***************************************************************************)
Out(q, i, k) == q[k].type = "output" /\ q[k].id = i
Left(q, i, k) == q[k].type = "exit" /\ q[k].id = i

\* The last output of i among the first p frames, or read before, ends at e.
End(q, i, r, p, e) ==
    \/ (\A k \in 1..p : ~Out(q, i, k)) /\ e = r
    \/ \E k \in 1..p : /\ Out(q, i, k) /\ e = q[k].to
                       /\ \A l \in (k + 1)..p : ~Out(q, i, l)

Contiguous(q, i, r) ==
    \A j \in DOMAIN q :
       Out(q, i, j) => q[j].first \/ End(q, i, r, j - 1, q[j].from)

\* A subscription to i began among the frames after j, up to p.
Renewed(q, i, j, p) == \E l \in (j + 1)..p : Out(q, i, l) /\ q[l].first

Final(q, i) ==
    \A j, k \in DOMAIN q :
       j < k /\ Left(q, i, j) /\ Out(q, i, k) => Renewed(q, i, j, k)

\* The next output of a subscription to i may start at t.
Current(q, i, r, t) ==
    /\ End(q, i, r, Len(q), t)
    /\ \A j \in DOMAIN q : Left(q, i, j) => Renewed(q, i, j, Len(q))

Sound(q, i, r) == Contiguous(q, i, r) /\ Final(q, i)

LEMMA SoundEmpty == \A i, r : Sound(<<>>, i, r)
  BY DEF Sound, Contiguous, Final

LEMMA AppendFacts ==
  ASSUME NEW q \in Seq(Frame), NEW f \in Frame
  PROVE  /\ Append(q, f) \in Seq(Frame)
         /\ Len(Append(q, f)) = Len(q) + 1
         /\ DOMAIN q = 1..Len(q) /\ DOMAIN Append(q, f) = 1..(Len(q) + 1)
         /\ Append(q, f)[Len(q) + 1] = f
         /\ \A k \in 1..Len(q) : Append(q, f)[k] = q[k]
         /\ Len(q) \in Nat
  OBVIOUS

\* What is said of the first frames of a queue does not change at its end.
LEMMA AppendKeeps ==
  ASSUME NEW q \in Seq(Frame), NEW f \in Frame, NEW i, NEW r
  PROVE  /\ \A k \in 1..Len(q) : /\ Out(Append(q, f), i, k) <=> Out(q, i, k)
                                 /\ Left(Append(q, f), i, k) <=> Left(q, i, k)
         /\ \A p \in 0..Len(q) : \A e :
               End(q, i, r, p, e) => End(Append(q, f), i, r, p, e)
         /\ \A j \in 1..Len(q), p \in 0..Len(q) :
               Renewed(q, i, j, p) => Renewed(Append(q, f), i, j, p)
<1> DEFINE a == Append(q, f)
<1>1. /\ Len(q) \in Nat /\ \A k \in 1..Len(q) : a[k] = q[k]
  BY AppendFacts
<1> HIDE DEF a
<1>2. \A k \in 1..Len(q) : /\ Out(a, i, k) <=> Out(q, i, k)
                           /\ Left(a, i, k) <=> Left(q, i, k)
  BY <1>1 DEF Out, Left
<1>3. ASSUME NEW p \in 0..Len(q), NEW e, End(q, i, r, p, e)
      PROVE  End(a, i, r, p, e)
  <2>1. CASE (\A k \in 1..p : ~Out(q, i, k)) /\ e = r
    <3>1. \A k \in 1..p : ~Out(a, i, k)
      BY <1>1, <1>2, <2>1
    <3>2. QED  BY <2>1, <3>1 DEF End
  <2>2. CASE \E k \in 1..p : /\ Out(q, i, k) /\ e = q[k].to
                             /\ \A l \in (k + 1)..p : ~Out(q, i, l)
    <3>1. PICK k \in 1..p : /\ Out(q, i, k) /\ e = q[k].to
                            /\ \A l \in (k + 1)..p : ~Out(q, i, l)
      BY <2>2
    <3>2. /\ Out(a, i, k) /\ e = a[k].to
          /\ \A l \in (k + 1)..p : ~Out(a, i, l)
      BY <1>1, <1>2, <3>1
    <3>3. QED  BY <3>2 DEF End
  <2>3. QED  BY <1>3, <2>1, <2>2 DEF End
<1>4. ASSUME NEW j \in 1..Len(q), NEW p \in 0..Len(q), Renewed(q, i, j, p)
      PROVE  Renewed(a, i, j, p)
  <2>1. PICK l \in (j + 1)..p : Out(q, i, l) /\ q[l].first
    BY <1>4 DEF Renewed
  <2>2. Out(a, i, l) /\ a[l].first
    BY <1>1, <1>2, <2>1
  <2>3. QED  BY <2>2 DEF Renewed
<1>5. QED  BY <1>2, <1>3, <1>4 DEF a

\* A frame that is neither output nor exit of i tells i nothing.
LEMMA AppendOther ==
  ASSUME NEW q \in Seq(Frame), NEW f \in Frame, NEW i, NEW r,
         ~(f.type = "output" /\ f.id = i), ~(f.type = "exit" /\ f.id = i),
         Sound(q, i, r)
  PROVE  /\ Sound(Append(q, f), i, r)
         /\ \A t : Current(q, i, r, t) => Current(Append(q, f), i, r, t)
<1> DEFINE a == Append(q, f)
           n == Len(q)
<1>1. /\ n \in Nat /\ Len(a) = n + 1 /\ DOMAIN q = 1..n /\ DOMAIN a = 1..(n + 1)
      /\ a[n + 1] = f /\ \A k \in 1..n : a[k] = q[k]
  BY AppendFacts
<1>2. /\ \A k \in 1..n : /\ Out(a, i, k) <=> Out(q, i, k)
                         /\ Left(a, i, k) <=> Left(q, i, k)
      /\ \A p \in 0..n : \A e : End(q, i, r, p, e) => End(a, i, r, p, e)
      /\ \A j \in 1..n, p \in 0..n : Renewed(q, i, j, p) => Renewed(a, i, j, p)
  BY AppendKeeps
<1> HIDE DEF a, n
<1>3. ~Out(a, i, n + 1) /\ ~Left(a, i, n + 1)
  BY <1>1 DEF Out, Left
<1>4. Contiguous(a, i, r)
  <2>1. ASSUME NEW j \in DOMAIN a, Out(a, i, j)
        PROVE  a[j].first \/ End(a, i, r, j - 1, a[j].from)
    <3>1. j \in 1..n /\ Out(q, i, j) /\ a[j] = q[j] /\ j - 1 \in 0..n
      BY <1>1, <1>2, <1>3, <2>1
    <3>2. q[j].first \/ End(q, i, r, j - 1, q[j].from)
      BY <1>1, <3>1 DEF Sound, Contiguous
    <3>3. QED  BY <1>2, <3>1, <3>2
  <2>2. QED  BY <2>1 DEF Contiguous
<1>5. Final(a, i)
  <2>1. ASSUME NEW j \in DOMAIN a, NEW k \in DOMAIN a,
               j < k, Left(a, i, j), Out(a, i, k)
        PROVE  Renewed(a, i, j, k)
    <3>1. j \in 1..n /\ k \in 1..n /\ k \in 0..n
      BY <1>1, <1>3, <2>1
    <3>2. Left(q, i, j) /\ Out(q, i, k)
      BY <1>2, <2>1, <3>1
    <3>3. Renewed(q, i, j, k)
      BY <1>1, <2>1, <3>1, <3>2 DEF Sound, Final
    <3>4. QED  BY <1>2, <3>1, <3>3
  <2>2. QED  BY <2>1 DEF Final
<1>6. ASSUME NEW t, Current(q, i, r, t)  PROVE Current(a, i, r, t)
  <2>1. End(a, i, r, n, t)
    BY <1>1, <1>2, <1>6 DEF Current, n
  <2>2. End(a, i, r, n + 1, t)
    <3>1. CASE (\A k \in 1..n : ~Out(a, i, k)) /\ t = r
      <4>1. \A k \in 1..(n + 1) : ~Out(a, i, k)
        BY <1>1, <1>3, <3>1
      <4>2. QED  BY <3>1, <4>1 DEF End
    <3>2. CASE \E k \in 1..n : /\ Out(a, i, k) /\ t = a[k].to
                               /\ \A l \in (k + 1)..n : ~Out(a, i, l)
      <4>1. PICK k \in 1..n : /\ Out(a, i, k) /\ t = a[k].to
                              /\ \A l \in (k + 1)..n : ~Out(a, i, l)
        BY <3>2
      <4>2. \A l \in (k + 1)..(n + 1) : ~Out(a, i, l)
        BY <1>1, <1>3, <4>1
      <4>3. k \in 1..(n + 1)
        BY <1>1
      <4>4. QED  BY <4>1, <4>2, <4>3 DEF End
    <3>3. QED  BY <2>1, <3>1, <3>2 DEF End
  <2>3. ASSUME NEW j \in DOMAIN a, Left(a, i, j)  PROVE Renewed(a, i, j, n + 1)
    <3>1. j \in 1..n /\ Left(q, i, j) /\ n \in 0..n
      BY <1>1, <1>2, <1>3, <2>3
    <3>2. Renewed(q, i, j, n)
      BY <1>1, <1>6, <3>1 DEF Current, n
    <3>3. Renewed(a, i, j, n)
      BY <1>2, <3>1, <3>2
    <3>4. QED  BY <1>1, <3>1, <3>3 DEF Renewed
  <2>4. QED  BY <1>1, <2>2, <2>3 DEF Current
<1>7. QED  BY <1>4, <1>5, <1>6 DEF Sound, a

\* Output of i either starts a subscription or goes on where it stands.
LEMMA AppendOutput ==
  ASSUME NEW q \in Seq(Frame), NEW f \in Frame, NEW i, NEW r,
         f.type = "output", f.id = i,
         Sound(q, i, r), f.first \/ Current(q, i, r, f.from)
  PROVE  Sound(Append(q, f), i, r) /\ Current(Append(q, f), i, r, f.to)
<1> DEFINE a == Append(q, f)
           n == Len(q)
<1>1. /\ n \in Nat /\ Len(a) = n + 1 /\ DOMAIN q = 1..n /\ DOMAIN a = 1..(n + 1)
      /\ a[n + 1] = f /\ \A k \in 1..n : a[k] = q[k]
  BY AppendFacts
<1>2. /\ \A k \in 1..n : /\ Out(a, i, k) <=> Out(q, i, k)
                         /\ Left(a, i, k) <=> Left(q, i, k)
      /\ \A p \in 0..n : \A e : End(q, i, r, p, e) => End(a, i, r, p, e)
      /\ \A j \in 1..n, p \in 0..n : Renewed(q, i, j, p) => Renewed(a, i, j, p)
  BY AppendKeeps
<1>3. f.first \/ (End(q, i, r, n, f.from)
                  /\ \A j \in DOMAIN q : Left(q, i, j) => Renewed(q, i, j, n))
  BY DEF Current
<1> HIDE DEF a, n
<1>4. Out(a, i, n + 1) /\ ~Left(a, i, n + 1)
  BY <1>1 DEF Out, Left
<1>5. Contiguous(a, i, r)
  <2>1. ASSUME NEW j \in DOMAIN a, Out(a, i, j)
        PROVE  a[j].first \/ End(a, i, r, j - 1, a[j].from)
    <3>1. CASE j = n + 1
      <4>1. a[j] = f /\ j - 1 = n /\ n \in 0..n
        BY <1>1, <3>1
      <4>2. QED  BY <1>2, <1>3, <4>1
    <3>2. CASE j \in 1..n
      <4>1. Out(q, i, j) /\ a[j] = q[j] /\ j - 1 \in 0..n
        BY <1>1, <1>2, <2>1, <3>2
      <4>2. q[j].first \/ End(q, i, r, j - 1, q[j].from)
        BY <1>1, <3>2, <4>1 DEF Sound, Contiguous
      <4>3. QED  BY <1>2, <4>1, <4>2
    <3>3. QED  BY <1>1, <2>1, <3>1, <3>2
  <2>2. QED  BY <2>1 DEF Contiguous
<1>6. ASSUME NEW j \in DOMAIN a, Left(a, i, j)  PROVE Renewed(a, i, j, n + 1)
  <2>1. j \in 1..n /\ Left(q, i, j) /\ n \in 0..n
    BY <1>1, <1>2, <1>4, <1>6
  <2>2. CASE f.first
    <3>1. n + 1 \in (j + 1)..(n + 1) /\ a[n + 1].first
      BY <1>1, <2>1, <2>2
    <3>2. QED  BY <1>4, <3>1 DEF Renewed
  <2>3. CASE ~f.first
    <3>1. Renewed(a, i, j, n)
      BY <1>1, <1>2, <1>3, <2>1, <2>3
    <3>2. QED  BY <1>1, <2>1, <3>1 DEF Renewed
  <2>4. QED  BY <2>2, <2>3
<1>7. Final(a, i)
  <2>1. ASSUME NEW j \in DOMAIN a, NEW k \in DOMAIN a,
               j < k, Left(a, i, j), Out(a, i, k)
        PROVE  Renewed(a, i, j, k)
    <3>1. CASE k = n + 1
      BY <1>6, <2>1, <3>1
    <3>2. CASE k \in 1..n
      <4>1. j \in 1..n /\ k \in 0..n /\ Left(q, i, j) /\ Out(q, i, k)
        BY <1>1, <1>2, <2>1, <3>2
      <4>2. Renewed(q, i, j, k)
        BY <1>1, <2>1, <3>2, <4>1 DEF Sound, Final
      <4>3. QED  BY <1>2, <4>1, <4>2
    <3>3. QED  BY <1>1, <3>1, <3>2
  <2>2. QED  BY <2>1 DEF Final
<1>8. Current(a, i, r, f.to)
  <2>1. n + 1 \in 1..(n + 1) /\ f.to = a[n + 1].to
        /\ \A l \in ((n + 1) + 1)..(n + 1) : ~Out(a, i, l)
    BY <1>1
  <2>2. End(a, i, r, n + 1, f.to)
    BY <1>4, <2>1 DEF End
  <2>3. QED  BY <1>1, <1>6, <2>2 DEF Current
<1>9. QED  BY <1>5, <1>7, <1>8 DEF Sound, a

\* The exit of i is sound wherever it stands.
LEMMA AppendExit ==
  ASSUME NEW q \in Seq(Frame), NEW f \in Frame, NEW i, NEW r,
         f.type = "exit", Sound(q, i, r)
  PROVE  Sound(Append(q, f), i, r)
<1> DEFINE a == Append(q, f)
           n == Len(q)
<1>1. /\ n \in Nat /\ Len(a) = n + 1 /\ DOMAIN q = 1..n /\ DOMAIN a = 1..(n + 1)
      /\ a[n + 1] = f /\ \A k \in 1..n : a[k] = q[k]
  BY AppendFacts
<1>2. /\ \A k \in 1..n : /\ Out(a, i, k) <=> Out(q, i, k)
                         /\ Left(a, i, k) <=> Left(q, i, k)
      /\ \A p \in 0..n : \A e : End(q, i, r, p, e) => End(a, i, r, p, e)
      /\ \A j \in 1..n, p \in 0..n : Renewed(q, i, j, p) => Renewed(a, i, j, p)
  BY AppendKeeps
<1> HIDE DEF a, n
<1>3. ~Out(a, i, n + 1)
  BY <1>1 DEF Out
<1>4. ASSUME NEW j \in DOMAIN a, Out(a, i, j)
      PROVE  a[j].first \/ End(a, i, r, j - 1, a[j].from)
  <2>1. j \in 1..n /\ Out(q, i, j) /\ a[j] = q[j] /\ j - 1 \in 0..n
    BY <1>1, <1>2, <1>3, <1>4
  <2>2. q[j].first \/ End(q, i, r, j - 1, q[j].from)
    BY <1>1, <2>1 DEF Sound, Contiguous
  <2>3. QED  BY <1>2, <2>1, <2>2
<1>5. ASSUME NEW j \in DOMAIN a, NEW k \in DOMAIN a,
             j < k, Left(a, i, j), Out(a, i, k)
      PROVE  Renewed(a, i, j, k)
  <2>1. j \in 1..n /\ k \in 1..n /\ k \in 0..n
    BY <1>1, <1>3, <1>5
  <2>2. Left(q, i, j) /\ Out(q, i, k)
    BY <1>2, <1>5, <2>1
  <2>3. Renewed(q, i, j, k)
    BY <1>1, <1>5, <2>1, <2>2 DEF Sound, Final
  <2>4. QED  BY <1>2, <2>1, <2>3
<1>6. QED  BY <1>4, <1>5 DEF Sound, Contiguous, Final, a

LEMMA TailFacts ==
  ASSUME NEW q \in Seq(Frame), q # <<>>
  PROVE  /\ Tail(q) \in Seq(Frame) /\ Len(q) \in Nat /\ Len(q) >= 1
         /\ Len(Tail(q)) = Len(q) - 1
         /\ DOMAIN q = 1..Len(q) /\ DOMAIN Tail(q) = 1..(Len(q) - 1)
         /\ \A k \in 1..(Len(q) - 1) : Tail(q)[k] = q[k + 1]
         /\ Head(q) = q[1] /\ q[1] \in Frame
  OBVIOUS

\* When the client reads a frame, its position takes over from the frame.
LEMMA TailSound ==
  ASSUME NEW q \in Seq(Frame), q # <<>>, NEW i, NEW r, NEW r2,
         r2 = IF Out(q, i, 1) THEN q[1].to ELSE r, Sound(q, i, r)
  PROVE  /\ Sound(Tail(q), i, r2)
         /\ \A t : Current(q, i, r, t) => Current(Tail(q), i, r2, t)
<1> DEFINE b == Tail(q)
           m == Len(q) - 1
<1>1. /\ m \in Nat /\ Len(b) = m /\ Len(q) = m + 1
      /\ DOMAIN q = 1..(m + 1) /\ DOMAIN b = 1..m
      /\ \A k \in 1..m : b[k] = q[k + 1]
  BY TailFacts
<1> HIDE DEF b, m
<1>2. \A k \in 1..m : /\ Out(b, i, k) <=> Out(q, i, k + 1)
                      /\ Left(b, i, k) <=> Left(q, i, k + 1)
  BY <1>1 DEF Out, Left
<1>3. ASSUME NEW p \in 0..m, NEW e, End(q, i, r, p + 1, e)
      PROVE  End(b, i, r2, p, e)
  <2>1. CASE (\A k \in 1..(p + 1) : ~Out(q, i, k)) /\ e = r
    <3>1. ~Out(q, i, 1) /\ \A k \in 1..p : ~Out(b, i, k)
      BY <1>1, <1>2, <2>1
    <3>2. QED  BY <2>1, <3>1 DEF End
  <2>2. CASE \E k \in 1..(p + 1) : /\ Out(q, i, k) /\ e = q[k].to
                                   /\ \A l \in (k + 1)..(p + 1) : ~Out(q, i, l)
    <3>1. PICK k \in 1..(p + 1) : /\ Out(q, i, k) /\ e = q[k].to
                                  /\ \A l \in (k + 1)..(p + 1) : ~Out(q, i, l)
      BY <2>2
    <3>2. CASE k = 1
      <4>1. r2 = e
        BY <3>1, <3>2
      <4>2. \A l \in 1..p : l + 1 \in (k + 1)..(p + 1) /\ l \in 1..m
        BY <1>1, <3>2
      <4>3. \A l \in 1..p : ~Out(b, i, l)
        BY <1>2, <3>1, <4>2
      <4>4. QED  BY <4>1, <4>3 DEF End
    <3>3. CASE k # 1
      <4>1. k - 1 \in 1..p /\ k - 1 \in 1..m /\ (k - 1) + 1 = k
        BY <1>1, <3>3
      <4>2. Out(b, i, k - 1) /\ b[k - 1] = q[k]
        BY <1>1, <1>2, <3>1, <4>1
      <4>3. \A l \in ((k - 1) + 1)..p :
               l + 1 \in (k + 1)..(p + 1) /\ l \in 1..m
        BY <1>1, <4>1
      <4>4. \A l \in ((k - 1) + 1)..p : ~Out(b, i, l)
        BY <1>2, <3>1, <4>3
      <4>5. QED  BY <3>1, <4>1, <4>2, <4>4 DEF End
    <3>4. QED  BY <3>2, <3>3
  <2>3. QED  BY <1>3, <2>1, <2>2 DEF End
<1>4. ASSUME NEW j \in 1..m, NEW p \in 0..m, Renewed(q, i, j + 1, p + 1)
      PROVE  Renewed(b, i, j, p)
  <2>1. PICK l \in ((j + 1) + 1)..(p + 1) : Out(q, i, l) /\ q[l].first
    BY <1>4 DEF Renewed
  <2>2. l - 1 \in (j + 1)..p /\ l - 1 \in 1..m /\ (l - 1) + 1 = l
    BY <1>1, <2>1
  <2>3. Out(b, i, l - 1) /\ b[l - 1].first
    BY <1>1, <1>2, <2>1, <2>2
  <2>4. QED  BY <2>2, <2>3 DEF Renewed
<1>5. ASSUME NEW j \in DOMAIN b, Out(b, i, j)
      PROVE  b[j].first \/ End(b, i, r2, j - 1, b[j].from)
  <2>1. /\ j \in 1..m /\ j + 1 \in 1..(m + 1) /\ Out(q, i, j + 1)
        /\ b[j] = q[j + 1] /\ j - 1 \in 0..m /\ (j + 1) - 1 = (j - 1) + 1
    BY <1>1, <1>2, <1>5
  <2>2. q[j + 1].first \/ End(q, i, r, (j + 1) - 1, q[j + 1].from)
    BY <1>1, <2>1 DEF Sound, Contiguous
  <2>3. QED  BY <1>3, <2>1, <2>2
<1>6. ASSUME NEW j \in DOMAIN b, NEW k \in DOMAIN b,
             j < k, Left(b, i, j), Out(b, i, k)
      PROVE  Renewed(b, i, j, k)
  <2>1. /\ j \in 1..m /\ k \in 1..m /\ k \in 0..m /\ j + 1 < k + 1
        /\ j + 1 \in 1..(m + 1) /\ k + 1 \in 1..(m + 1)
    BY <1>1, <1>6
  <2>2. Left(q, i, j + 1) /\ Out(q, i, k + 1)
    BY <1>2, <1>6, <2>1
  <2>3. Renewed(q, i, j + 1, k + 1)
    BY <1>1, <2>1, <2>2 DEF Sound, Final
  <2>4. QED  BY <1>4, <2>1, <2>3
<1>7. ASSUME NEW t, Current(q, i, r, t)  PROVE Current(b, i, r2, t)
  <2>1. End(b, i, r2, m, t)
    BY <1>1, <1>3, <1>7 DEF Current
  <2>2. ASSUME NEW j \in DOMAIN b, Left(b, i, j)  PROVE Renewed(b, i, j, m)
    <3>1. j \in 1..m /\ j + 1 \in 1..(m + 1) /\ Left(q, i, j + 1) /\ m \in 0..m
      BY <1>1, <1>2, <2>2
    <3>2. Renewed(q, i, j + 1, m + 1)
      BY <1>1, <1>7, <3>1 DEF Current
    <3>3. QED  BY <1>4, <3>1, <3>2
  <2>3. QED  BY <1>1, <2>1, <2>2 DEF Current
<1>8. QED  BY <1>5, <1>6, <1>7 DEF Sound, Contiguous, Final, b

-----------------------------------------------------------------------------
(***************************************************************************)
(* The queues of the daemon.                                               *)
(***************************************************************************)
\* The subscription of c to i lasts and has sent output.
Going(c, i) == c \in Writable /\ i \in subs[c] \ fresh[c]

QueueSound(c) ==
    \A i \in Id : /\ Sound(outq[c], i, recv[c][i])
                  /\ Going(c, i) => Current(outq[c], i, recv[c][i], total[i])

\* A slot that is free or broken leaves nothing to its next connection.
LeavesNothing(c) ==
    /\ conn[c] = "closed" => subs[c] = {}
    /\ c \notin Writable => outq[c] = <<>>

StreamInv == Inv /\ \A c \in Conn : QueueSound(c) /\ LeavesNothing(c)

LEMMA SendCases ==
  ASSUME TypeOK, NEW R, NEW f, R \subseteq Conn, Send(R, f), NEW c \in Conn
  PROVE  \/ conn'[c] = "destroyed" /\ outq'[c] = <<>>
         \/ /\ c \in R \cap Writable /\ conn'[c] = conn[c]
            /\ outq'[c] = Append(outq[c], f[c])
         \/ /\ c \notin R \cap Writable /\ conn'[c] = conn[c]
            /\ outq'[c] = outq[c]
  BY DEF Send, TypeOK

LEMMA QueueEmptied ==
  ASSUME NEW c \in Conn, outq'[c] = <<>>,
         conn'[c] = "closed" => subs'[c] = {}, c \notin Writable'
  PROVE  QueueSound(c)' /\ LeavesNothing(c)'
  BY SoundEmpty DEF QueueSound, LeavesNothing, Going

LEMMA QueueUntouched ==
  ASSUME NEW c \in Conn, QueueSound(c), LeavesNothing(c),
         outq'[c] = outq[c], recv'[c] = recv[c], conn'[c] = conn[c],
         conn[c] = "closed" => subs'[c] = subs[c],
         \A i \in Id : Going(c, i)' => Going(c, i) /\ total'[i] = total[i]
  PROVE  QueueSound(c)' /\ LeavesNothing(c)'
<1>1. LeavesNothing(c)'
  BY DEF LeavesNothing, Writable
<1>2. ASSUME NEW i \in Id
      PROVE  /\ Sound(outq'[c], i, recv'[c][i])
             /\ Going(c, i)' => Current(outq'[c], i, recv'[c][i], total'[i])
  BY DEF QueueSound
<1>3. QED  BY <1>1, <1>2 DEF QueueSound

\* A frame that is about no session.
LEMMA QueueTold ==
  ASSUME TypeOK, NEW c \in Conn, QueueSound(c), LeavesNothing(c),
         NEW f \in Frame, f.type \notin {"output", "exit"},
         outq'[c] = Append(outq[c], f), recv'[c] = recv[c],
         conn'[c] \in {"open", "ready"},
         \A i \in Id : Going(c, i)' => Going(c, i) /\ total'[i] = total[i]
  PROVE  QueueSound(c)' /\ LeavesNothing(c)'
<1>1. LeavesNothing(c)'
  BY DEF LeavesNothing, Writable
<1>2. outq[c] \in Seq(Frame)
  BY DEF TypeOK
<1>3. ASSUME NEW i \in Id
      PROVE  /\ Sound(outq'[c], i, recv'[c][i])
             /\ Going(c, i)' => Current(outq'[c], i, recv'[c][i], total'[i])
  <2>1. Sound(outq[c], i, recv[c][i])
    BY DEF QueueSound
  <2>2. ~(f.type = "output" /\ f.id = i) /\ ~(f.type = "exit" /\ f.id = i)
    OBVIOUS
  <2>3. /\ Sound(Append(outq[c], f), i, recv[c][i])
        /\ \A t : Current(outq[c], i, recv[c][i], t)
                  => Current(Append(outq[c], f), i, recv[c][i], t)
    BY <1>2, <2>1, <2>2, AppendOther
  <2>4. QED  BY <2>3 DEF QueueSound
<1>4. QED  BY <1>1, <1>3 DEF QueueSound

LEMMA ReplyFields == \A t, i : Reply(t, i).type = t
  BY DEF Reply

\* A request that is answered and changes no subscription.
LEMMA AnswerQueue ==
  ASSUME StreamInv, NEW c \in Conn, NEW t \in FrameType \ {"output", "exit"},
         NEW i \in Id \cup {"none"}, Answer(c, t, i),
         UNCHANGED <<total, subs, fresh, recv>>, NEW d \in Conn
  PROVE  QueueSound(d)' /\ LeavesNothing(d)'
<1> DEFINE f == [x \in {c} |-> Reply(t, i)]
<1>0. TypeOK /\ QueueSound(d) /\ LeavesNothing(d)
  BY DEF StreamInv, Inv
<1>1. \/ conn'[d] = "destroyed" /\ outq'[d] = <<>>
      \/ /\ d \in {c} \cap Writable /\ conn'[d] = conn[d]
         /\ outq'[d] = Append(outq[d], f[d])
      \/ /\ d \notin {c} \cap Writable /\ conn'[d] = conn[d]
         /\ outq'[d] = outq[d]
  <2>1. Send({c}, f) /\ {c} \subseteq Conn
    BY DEF Answer
  <2> HIDE DEF f
  <2>2. QED  BY <1>0, <2>1, SendCases
<1>2. CASE conn'[d] = "destroyed" /\ outq'[d] = <<>>
  BY <1>2, QueueEmptied DEF Writable
<1>3. CASE /\ d \in {c} \cap Writable /\ conn'[d] = conn[d]
           /\ outq'[d] = Append(outq[d], f[d])
  <2>1. f[d] = Reply(t, i) /\ Reply(t, i) \in Frame
        /\ Reply(t, i).type \notin {"output", "exit"}
    BY <1>3, ReplyType, ReplyFields
  <2>2. conn'[d] \in {"open", "ready"}
    BY <1>3 DEF Writable
  <2>3. \A k \in Id : Going(d, k)' => Going(d, k) /\ total'[k] = total[k]
    BY <1>3 DEF Going, Writable
  <2>4. recv'[d] = recv[d] /\ outq'[d] = Append(outq[d], Reply(t, i))
    BY <1>3, <2>1
  <2>5. QED  BY <1>0, <2>1, <2>2, <2>3, <2>4, QueueTold
<1>4. CASE /\ d \notin {c} \cap Writable /\ conn'[d] = conn[d]
           /\ outq'[d] = outq[d]
  <2>1. \A k \in Id : Going(d, k)' => Going(d, k) /\ total'[k] = total[k]
    BY <1>4 DEF Going, Writable
  <2>2. QED  BY <1>0, <1>4, <2>1, QueueUntouched
<1>5. QED  BY <1>1, <1>2, <1>3, <1>4

\* A step that neither writes nor breaks a connection.
LEMMA IdleQueue ==
  ASSUME StreamInv, UNCHANGED <<conn, outq, recv, total, subs, fresh>>,
         NEW d \in Conn
  PROVE  QueueSound(d)' /\ LeavesNothing(d)'
<1>1. QueueSound(d) /\ LeavesNothing(d)
  BY DEF StreamInv
<1>2. QED  BY <1>1, QueueUntouched DEF Going, Writable

LEMMA DestroyQueue ==
  ASSUME StreamInv, NEW c \in Conn, Destroy(c),
         UNCHANGED <<total, subs, fresh, recv>>, NEW d \in Conn
  PROVE  QueueSound(d)' /\ LeavesNothing(d)'
<1>1. TypeOK /\ QueueSound(d) /\ LeavesNothing(d)
  BY DEF StreamInv, Inv
<1>2. CASE d = c
  <2>1. conn'[d] = "destroyed" /\ outq'[d] = <<>>
    BY <1>1, <1>2 DEF Destroy, TypeOK
  <2>2. QED  BY <2>1, QueueEmptied DEF Writable
<1>3. CASE d # c
  <2>1. conn'[d] = conn[d] /\ outq'[d] = outq[d]
    BY <1>1, <1>3 DEF Destroy, TypeOK
  <2>2. QED  BY <1>1, <2>1, QueueUntouched DEF Going, Writable
<1>4. QED  BY <1>2, <1>3

LEMMA SubscribeQueue ==
  ASSUME StreamInv, NEW c \in Conn, NEW i \in Id, NEW replay \in BOOLEAN,
         HandleSubscribe(c, i, replay), NEW d \in Conn
  PROVE  QueueSound(d)' /\ LeavesNothing(d)'
<1>0. TypeOK /\ QueueSound(d) /\ LeavesNothing(d)
  BY DEF StreamInv, Inv
<1>1. recv' = recv /\ total' = total /\ conn[c] = "ready"
  BY DEF HandleSubscribe, Ready
<1>2. CASE d # c
  <2>1. subs'[d] = subs[d] /\ fresh'[d] = fresh[d]
    BY <1>0, <1>2 DEF HandleSubscribe, TypeOK
  <2>2. \/ UNCHANGED <<conn, outq>>
        \/ \E f : Send({c}, f)
    BY DEF HandleSubscribe
  <2>3. conn'[d] = conn[d] /\ outq'[d] = outq[d]
    BY <1>2, <2>2 DEF Send, Drowned
  <2>4. QED  BY <1>0, <1>1, <2>1, <2>3, QueueUntouched DEF Going, Writable
<1>3. CASE d = c /\ ~(replay /\ chunks[i] # {})
  <2>1. /\ subs'[d] = subs[d] \cup {i} /\ fresh'[d] = fresh[d] \cup {i}
        /\ conn' = conn /\ outq' = outq
    BY <1>0, <1>3 DEF HandleSubscribe, TypeOK
  <2>2. \A k \in Id : Going(d, k)' => Going(d, k) /\ total'[k] = total[k]
    BY <1>1, <2>1 DEF Going, Writable
  <2>3. QED  BY <1>0, <1>1, <1>3, <2>1, <2>2, QueueUntouched
<1>4. CASE d = c /\ replay /\ chunks[i] # {}
  <2>1. PICK b \in Oldest(i) :
           Send({c}, [x \in {c} |-> Output(i, b, total[i], TRUE)])
    BY <1>4 DEF HandleSubscribe
  <2>2. b \in Nat /\ total[i] \in Nat
    BY <1>0 DEF TypeOK, Oldest
  <2> DEFINE f == [x \in {c} |-> Output(i, b, total[i], TRUE)]
             g == Output(i, b, total[i], TRUE)
  <2>3. f[c] = g /\ Send({c}, f) /\ {c} \subseteq Conn
    BY <2>1
  <2>4. /\ g \in Frame /\ g.type = "output" /\ g.id = i
        /\ g.to = total[i] /\ g.first
    BY <2>2, OutputType DEF Output
  <2>5. c \in Writable /\ c \in {c}
    BY <1>1 DEF Writable
  <2> HIDE DEF f, g
  <2>6. \/ conn'[c] = "destroyed" /\ outq'[c] = <<>>
        \/ conn'[c] = conn[c] /\ outq'[c] = Append(outq[c], g)
    BY <1>0, <2>3, <2>5, SendCases
  <2>7. CASE conn'[c] = "destroyed" /\ outq'[c] = <<>>
    BY <1>4, <2>7, QueueEmptied DEF Writable
  <2>8. CASE conn'[c] = conn[c] /\ outq'[c] = Append(outq[c], g)
    <3>1. LeavesNothing(d)'
      BY <1>1, <1>4, <2>8 DEF LeavesNothing, Writable
    <3>2. outq[c] \in Seq(Frame)
      BY <1>0 DEF TypeOK
    <3>3. subs'[c] = subs[c] \cup {i} /\ fresh'[c] = fresh[c] \ {i}
      BY <1>0, <1>4 DEF HandleSubscribe, TypeOK
    <3>4. ASSUME NEW k \in Id
          PROVE  /\ Sound(outq'[c], k, recv'[c][k])
                 /\ Going(c, k)'
                      => Current(outq'[c], k, recv'[c][k], total'[k])
      <4>1. Sound(outq[c], k, recv[c][k])
        BY <1>0, <1>4 DEF QueueSound
      <4>2. CASE k = i
        <5>1. /\ Sound(Append(outq[c], g), i, recv[c][i])
              /\ Current(Append(outq[c], g), i, recv[c][i], g.to)
          BY <2>4, <3>2, <4>1, <4>2, AppendOutput
        <5>2. QED  BY <1>1, <2>4, <2>8, <4>2, <5>1
      <4>3. CASE k # i
        <5>1. Going(c, k)' => Going(c, k)
          BY <2>5, <3>3, <4>3 DEF Going
        <5>2. ~(g.type = "output" /\ g.id = k) /\ ~(g.type = "exit" /\ g.id = k)
          BY <2>4, <4>3
        <5>3. /\ Sound(Append(outq[c], g), k, recv[c][k])
              /\ \A t : Current(outq[c], k, recv[c][k], t)
                        => Current(Append(outq[c], g), k, recv[c][k], t)
          BY <2>4, <3>2, <4>1, <5>2, AppendOther
        <5>4. QED
          BY <1>0, <1>1, <1>4, <2>8, <5>1, <5>3 DEF QueueSound
      <4>4. QED  BY <4>2, <4>3
    <3>5. QED  BY <1>4, <3>1, <3>4 DEF QueueSound
  <2>9. QED  BY <2>6, <2>7, <2>8
<1>5. QED  BY <1>2, <1>3, <1>4

LEMMA ReceiveQueue ==
  ASSUME StreamInv, NEW c \in Conn, Receive(c), NEW d \in Conn
  PROVE  QueueSound(d)' /\ LeavesNothing(d)'
<1>0. TypeOK /\ QueueSound(d) /\ LeavesNothing(d)
  BY DEF StreamInv, Inv
<1>1. UNCHANGED <<conn, subs, fresh, total>>
  BY DEF Receive
<1>2. CASE d # c
  <2>1. outq'[d] = outq[d] /\ recv'[d] = recv[d]
    BY <1>0, <1>2 DEF Receive, TypeOK
  <2>2. QED  BY <1>0, <1>1, <2>1, QueueUntouched DEF Going, Writable
<1>3. CASE d = c
  <2>1. /\ outq[c] \in Seq(Frame) /\ outq[c] # <<>>
        /\ outq'[c] = Tail(outq[c]) /\ c \in Writable
    BY <1>0 DEF Receive, TypeOK, Writable
  <2>2. Head(outq[c]) = outq[c][1] /\ outq[c][1] \in Frame
    BY <2>1, TailFacts
  <2>3. ASSUME NEW k \in Id
        PROVE  recv'[c][k] = IF Out(outq[c], k, 1) THEN outq[c][1].to
                             ELSE recv[c][k]
    BY <1>0, <2>2 DEF Receive, Out, TypeOK
  <2>4. ASSUME NEW k \in Id
        PROVE  /\ Sound(outq'[c], k, recv'[c][k])
               /\ Going(c, k)' => Current(outq'[c], k, recv'[c][k], total'[k])
    <3>1. Sound(outq[c], k, recv[c][k])
      BY <1>0, <1>3 DEF QueueSound
    <3>2. /\ Sound(Tail(outq[c]), k, recv'[c][k])
          /\ \A t : Current(outq[c], k, recv[c][k], t)
                    => Current(Tail(outq[c]), k, recv'[c][k], t)
      BY <2>1, <2>3, <3>1, TailSound
    <3>3. Going(c, k)' => Going(c, k)
      BY <1>1 DEF Going, Writable
    <3>4. QED  BY <1>0, <1>1, <1>3, <2>1, <3>2, <3>3 DEF QueueSound
  <2>5. LeavesNothing(d)'
    BY <1>0, <1>1, <1>3, <2>1 DEF LeavesNothing, Writable
  <2>6. QED  BY <1>3, <2>4, <2>5 DEF QueueSound
<1>4. QED  BY <1>2, <1>3

LEMMA DataQueue ==
  ASSUME StreamInv, NEW i \in Id, NEW n \in 1..MaxChunk, OnData(i, n),
         NEW d \in Conn
  PROVE  QueueSound(d)' /\ LeavesNothing(d)'
<1> DEFINE f == [c \in Subscribers(i) |->
                   Output(i, total[i], total[i] + n, i \in fresh[c])]
           g == Output(i, total[i], total[i] + n, i \in fresh[d])
<1>0. TypeOK /\ QueueSound(d) /\ LeavesNothing(d)
  BY DEF StreamInv, Inv
<1>1. /\ recv' = recv /\ subs' = subs /\ fresh'[d] = fresh[d] \ {i}
      /\ total'[i] = total[i] + n /\ \A k \in Id \ {i} : total'[k] = total[k]
  BY <1>0 DEF OnData, TypeOK
<1>2. Send(Subscribers(i), f) /\ Subscribers(i) \subseteq Conn
  BY DEF OnData, Subscribers
<1>3. d \in Subscribers(i) => f[d] = g
  OBVIOUS
<1>4. /\ g \in Frame /\ g.type = "output" /\ g.id = i
      /\ g.from = total[i] /\ g.to = total[i] + n /\ g.first = (i \in fresh[d])
  <2>1. total[i] \in Nat /\ total[i] + n \in Nat
    BY <1>0 DEF TypeOK
  <2>2. (i \in fresh[d]) \in BOOLEAN
    OBVIOUS
  <2>3. QED  BY <2>1, <2>2, OutputType DEF Output
<1> HIDE DEF f, g
<1>5. \/ conn'[d] = "destroyed" /\ outq'[d] = <<>>
      \/ /\ d \in Subscribers(i) \cap Writable /\ conn'[d] = conn[d]
         /\ outq'[d] = Append(outq[d], g)
      \/ /\ d \notin Subscribers(i) \cap Writable /\ conn'[d] = conn[d]
         /\ outq'[d] = outq[d]
  BY <1>0, <1>2, <1>3, SendCases
<1>6. CASE conn'[d] = "destroyed" /\ outq'[d] = <<>>
  BY <1>6, QueueEmptied DEF Writable
<1>7. CASE /\ d \in Subscribers(i) \cap Writable /\ conn'[d] = conn[d]
           /\ outq'[d] = Append(outq[d], g)
  <2>1. LeavesNothing(d)'
    BY <1>7 DEF LeavesNothing, Writable
  <2>2. outq[d] \in Seq(Frame) /\ i \in subs[d]
    BY <1>0, <1>7 DEF TypeOK, Subscribers
  <2>3. ASSUME NEW k \in Id
        PROVE  /\ Sound(outq'[d], k, recv'[d][k])
               /\ Going(d, k)' => Current(outq'[d], k, recv'[d][k], total'[k])
    <3>1. Sound(outq[d], k, recv[d][k])
      BY <1>0 DEF QueueSound
    <3>2. CASE k = i
      <4>1. g.first \/ Current(outq[d], i, recv[d][i], g.from)
        BY <1>0, <1>4, <1>7, <2>2 DEF QueueSound, Going
      <4>2. /\ Sound(Append(outq[d], g), i, recv[d][i])
            /\ Current(Append(outq[d], g), i, recv[d][i], g.to)
        BY <1>4, <2>2, <3>1, <3>2, <4>1, AppendOutput
      <4>3. QED  BY <1>1, <1>4, <1>7, <3>2, <4>2
    <3>3. CASE k # i
      <4>1. Going(d, k)' => Going(d, k)
        BY <1>1, <1>7, <3>3 DEF Going
      <4>2. ~(g.type = "output" /\ g.id = k) /\ ~(g.type = "exit" /\ g.id = k)
        BY <1>4, <3>3
      <4>3. /\ Sound(Append(outq[d], g), k, recv[d][k])
            /\ \A t : Current(outq[d], k, recv[d][k], t)
                      => Current(Append(outq[d], g), k, recv[d][k], t)
        BY <1>4, <2>2, <3>1, <4>2, AppendOther
      <4>4. QED  BY <1>0, <1>1, <1>7, <3>3, <4>1, <4>3 DEF QueueSound
    <3>4. QED  BY <3>2, <3>3
  <2>4. QED  BY <2>1, <2>3 DEF QueueSound
<1>8. CASE /\ d \notin Subscribers(i) \cap Writable /\ conn'[d] = conn[d]
           /\ outq'[d] = outq[d]
  <2>1. ASSUME NEW k \in Id, Going(d, k)'
        PROVE  Going(d, k) /\ total'[k] = total[k]
    <3>1. d \in Writable /\ k \in subs[d] \ fresh[d] /\ k # i
      <4>1. d \in Writable
        BY <1>8, <2>1 DEF Going, Writable
      <4>2. k \in subs[d] /\ k \notin fresh[d] \ {i}
        BY <1>1, <2>1 DEF Going
      <4>3. k # i
        BY <1>8, <4>1, <4>2 DEF Subscribers
      <4>4. QED  BY <4>1, <4>2, <4>3
    <3>2. QED  BY <1>1, <3>1 DEF Going
  <2>2. QED  BY <1>0, <1>1, <1>8, <2>1, QueueUntouched
<1>9. QED  BY <1>5, <1>6, <1>7, <1>8

LEMMA ExitQueue ==
  ASSUME StreamInv, NEW i \in Id, OnExit(i), NEW d \in Conn
  PROVE  QueueSound(d)' /\ LeavesNothing(d)'
<1> DEFINE f == [c \in Subscribers(i) |-> Exit(i)]
           g == Exit(i)
<1>0. TypeOK /\ QueueSound(d) /\ LeavesNothing(d)
  BY DEF StreamInv, Inv
<1>1. /\ recv' = recv /\ total' = total
      /\ subs'[d] = subs[d] \ {i} /\ fresh'[d] = fresh[d] \ {i}
  BY DEF OnExit, DropSubscriptions
<1>2. Send(Subscribers(i), f) /\ Subscribers(i) \subseteq Conn
  BY DEF OnExit, Subscribers
<1>3. d \in Subscribers(i) => f[d] = g
  OBVIOUS
<1>4. g \in Frame /\ g.type = "exit" /\ g.id = i
  BY <1>0, ExitType DEF Exit
<1> HIDE DEF f, g
<1>5. \/ conn'[d] = "destroyed" /\ outq'[d] = <<>>
      \/ /\ d \in Subscribers(i) \cap Writable /\ conn'[d] = conn[d]
         /\ outq'[d] = Append(outq[d], g)
      \/ /\ d \notin Subscribers(i) \cap Writable /\ conn'[d] = conn[d]
         /\ outq'[d] = outq[d]
  BY <1>0, <1>2, <1>3, SendCases
<1>6. ASSUME NEW k \in Id, Going(d, k)', conn'[d] = conn[d]
      PROVE  Going(d, k) /\ k # i
  BY <1>1, <1>6 DEF Going, Writable
<1>7. CASE conn'[d] = "destroyed" /\ outq'[d] = <<>>
  BY <1>7, QueueEmptied DEF Writable
<1>8. CASE /\ d \in Subscribers(i) \cap Writable /\ conn'[d] = conn[d]
           /\ outq'[d] = Append(outq[d], g)
  <2>1. LeavesNothing(d)'
    BY <1>8 DEF LeavesNothing, Writable
  <2>2. outq[d] \in Seq(Frame)
    BY <1>0 DEF TypeOK
  <2>3. ASSUME NEW k \in Id
        PROVE  /\ Sound(outq'[d], k, recv'[d][k])
               /\ Going(d, k)' => Current(outq'[d], k, recv'[d][k], total'[k])
    <3>1. Sound(outq[d], k, recv[d][k])
      BY <1>0 DEF QueueSound
    <3>2. CASE k = i
      <4>1. Sound(Append(outq[d], g), i, recv[d][i])
        BY <1>4, <2>2, <3>1, <3>2, AppendExit
      <4>2. QED  BY <1>1, <1>6, <1>8, <3>2, <4>1
    <3>3. CASE k # i
      <4>1. ~(g.type = "output" /\ g.id = k) /\ ~(g.type = "exit" /\ g.id = k)
        BY <1>4, <3>3
      <4>2. /\ Sound(Append(outq[d], g), k, recv[d][k])
            /\ \A t : Current(outq[d], k, recv[d][k], t)
                      => Current(Append(outq[d], g), k, recv[d][k], t)
        BY <1>4, <2>2, <3>1, <4>1, AppendOther
      <4>3. QED  BY <1>0, <1>1, <1>6, <1>8, <4>2 DEF QueueSound
    <3>4. QED  BY <3>2, <3>3
  <2>4. QED  BY <2>1, <2>3 DEF QueueSound
<1>9. CASE /\ d \notin Subscribers(i) \cap Writable /\ conn'[d] = conn[d]
           /\ outq'[d] = outq[d]
  <2>1. conn[d] = "closed" => subs'[d] = subs[d]
    BY <1>0, <1>1 DEF LeavesNothing
  <2>2. QED  BY <1>0, <1>1, <1>6, <1>9, <2>1, QueueUntouched
<1>10. QED  BY <1>5, <1>7, <1>8, <1>9

LEMMA ConnStream ==
  ASSUME StreamInv, NEW c \in Conn, ConnNext(c), NEW d \in Conn
  PROVE  QueueSound(d)' /\ LeavesNothing(d)'
<1>0. TypeOK /\ QueueSound(d) /\ LeavesNothing(d)
  BY DEF StreamInv, Inv
<1>1. CASE Connect(c)
  <2>1. UNCHANGED <<total, subs, fresh, recv, outq>>
    BY <1>1 DEF Connect
  <2>2. conn[c] = "closed" /\ conn' = [conn EXCEPT ![c] = "open"]
    BY <1>1 DEF Connect
  <2>3. CASE d # c
    BY <1>0, <2>1, <2>2, <2>3, QueueUntouched DEF Going, Writable, TypeOK
  <2>4. CASE d = c
    <3>1. subs[d] = {} /\ conn'[d] = "open"
      BY <1>0, <2>2, <2>4 DEF LeavesNothing, TypeOK
    <3>2. LeavesNothing(d)'
      BY <3>1 DEF LeavesNothing, Writable
    <3>3. \A k \in Id : ~Going(d, k)'
      BY <2>1, <3>1 DEF Going
    <3>4. QED  BY <1>0, <2>1, <3>2, <3>3 DEF QueueSound
  <2>5. QED  BY <2>3, <2>4
<1>2. CASE SocketClosed(c)
  <2>1. CASE d # c
    BY <1>0, <1>2, <2>1, QueueUntouched
       DEF SocketClosed, Going, Writable, TypeOK
  <2>2. CASE d = c
    <3>1. outq'[d] = <<>> /\ subs'[d] = {} /\ conn'[d] = "closed"
      BY <1>0, <1>2, <2>2 DEF SocketClosed, TypeOK
    <3>2. QED  BY <3>1, QueueEmptied DEF Writable
  <2>3. QED  BY <2>1, <2>2
<1>3. ASSUME NEW offered \in SUBSET Protocols, Hello(c, offered)
      PROVE  QueueSound(d)' /\ LeavesNothing(d)'
  <2>1. UNCHANGED <<total, subs, fresh, recv>> /\ conn[c] = "open"
    BY <1>3 DEF Hello
  <2>2. CASE PickProtocol(offered) = {}
    BY <1>3, <2>1, <2>2, DestroyQueue DEF Hello
  <2>3. CASE PickProtocol(offered) # {} /\ d # c
    BY <1>0, <1>3, <2>1, <2>3, QueueUntouched
       DEF Hello, Going, Writable, TypeOK
  <2>4. CASE PickProtocol(offered) # {} /\ d = c
    <3>1. /\ Reply("hello-ack", "none") \in Frame
          /\ Reply("hello-ack", "none").type \notin {"output", "exit"}
      BY ReplyType, ReplyFields DEF FrameType
    <3>2. /\ outq'[d] = Append(outq[d], Reply("hello-ack", "none"))
          /\ conn'[d] = "ready"
      BY <1>0, <1>3, <2>4 DEF Hello, TypeOK
    <3>3. \A k \in Id : Going(d, k)' => Going(d, k) /\ total'[k] = total[k]
      BY <2>1, <2>4 DEF Going, Writable
    <3>4. recv'[d] = recv[d] /\ conn'[d] \in {"open", "ready"}
      BY <2>1, <3>2
    <3>5. outq'[d] = Append(outq[d], Reply("hello-ack", "none"))
      BY <3>2
    <3>6. QED  BY <1>0, <3>1, <3>3, <3>4, <3>5, QueueTold
  <2>5. QED  BY <2>2, <2>3, <2>4
<1>4. CASE NotHello(c)
  BY <1>4, DestroyQueue DEF NotHello
<1>5. CASE HandleList(c)
  BY <1>5, AnswerQueue DEF HandleList, FrameType
<1>6. CASE Receive(c)
  BY <1>6, ReceiveQueue
<1>7. ASSUME NEW i \in Id, HandleOpen(c, i)
      PROVE  QueueSound(d)' /\ LeavesNothing(d)'
  BY <1>7, AnswerQueue DEF HandleOpen, FreshPty, FrameType
<1>8. ASSUME NEW i \in Id, HandleError(c, i)
      PROVE  QueueSound(d)' /\ LeavesNothing(d)'
  BY <1>8, AnswerQueue DEF HandleError, FrameType
<1>9. ASSUME NEW i \in Id, NEW sig \in {"hup", "kill"}, HandleClose(c, i, sig)
      PROVE  QueueSound(d)' /\ LeavesNothing(d)'
  BY <1>9, AnswerQueue DEF HandleClose, FrameType
<1>10. ASSUME NEW i \in Id, NEW replay \in BOOLEAN,
              HandleSubscribe(c, i, replay)
       PROVE  QueueSound(d)' /\ LeavesNothing(d)'
  BY <1>10, SubscribeQueue
<1>11. ASSUME NEW i \in Id, HandleUnsubscribe(c, i)
       PROVE  QueueSound(d)' /\ LeavesNothing(d)'
  <2>1. /\ UNCHANGED <<conn, outq, recv, total>> /\ i \in subs[c]
        /\ subs' = [subs EXCEPT ![c] = @ \ {i}]
        /\ fresh' = [fresh EXCEPT ![c] = @ \ {i}]
        /\ conn[c] = "ready"
    BY <1>11 DEF HandleUnsubscribe, Ready
  <2>2. conn[d] = "closed" => subs'[d] = subs[d]
    BY <1>0, <2>1 DEF TypeOK
  <2>3. \A k \in Id : Going(d, k)' => Going(d, k)
    <3>1. \/ subs'[d] = subs[d] /\ fresh'[d] = fresh[d]
          \/ subs'[d] = subs[d] \ {i} /\ fresh'[d] = fresh[d] \ {i}
      BY <1>0, <2>1 DEF TypeOK
    <3>2. Writable' = Writable
      BY <2>1 DEF Writable
    <3>3. QED  BY <3>1, <3>2 DEF Going
  <2>4. QED  BY <1>0, <2>1, <2>2, <2>3, QueueUntouched
<1>12. QED
  BY <1>1, <1>2, <1>3, <1>4, <1>5, <1>6, <1>7, <1>8, <1>9, <1>10, <1>11
     DEF ConnNext

LEMMA StreamStep == StreamInv /\ [Next]_vars => StreamInv'
<1>1. SUFFICES ASSUME StreamInv, [Next]_vars, NEW d \in Conn
               PROVE  QueueSound(d)' /\ LeavesNothing(d)'
  BY InductiveInv DEF StreamInv
<1>2. CASE \E c \in Conn : ConnNext(c)
  BY <1>1, <1>2, ConnStream
<1>3. ASSUME NEW i \in Id, PtyNext(i)
      PROVE  QueueSound(d)' /\ LeavesNothing(d)'
  <2>1. ASSUME NEW n \in 1..MaxChunk, OnData(i, n)
        PROVE  QueueSound(d)' /\ LeavesNothing(d)'
    BY <1>1, <2>1, DataQueue
  <2>2. CASE OnExit(i)
    BY <1>1, <2>2, ExitQueue
  <2>3. CASE Escalate(i)
    BY <1>1, <2>3, IdleQueue DEF Escalate
  <2>4. QED  BY <1>3, <2>1, <2>2, <2>3 DEF PtyNext
<1>4. CASE Stop
  <2>1. outq'[d] = <<>> /\ subs'[d] = {} /\ conn'[d] = "closed"
    BY <1>4 DEF Stop
  <2>2. QED  BY <2>1, QueueEmptied DEF Writable
<1>5. CASE Listen
  BY <1>1, <1>5, IdleQueue DEF Listen
<1>6. CASE UNCHANGED vars
  BY <1>1, <1>6, IdleQueue
<1>7. QED  BY <1>1, <1>2, <1>3, <1>4, <1>5, <1>6 DEF Next

LEMMA InitStream == Init => StreamInv
<1>1. ASSUME Init, NEW c \in Conn  PROVE QueueSound(c) /\ LeavesNothing(c)
  <2>1. outq[c] = <<>> /\ subs[c] = {}
    BY <1>1 DEF Init
  <2>2. QED  BY <2>1, SoundEmpty DEF QueueSound, LeavesNothing, Going
<1>2. QED  BY <1>1, InitInv DEF StreamInv

LEMMA StreamInvariance == Spec => []StreamInv
  BY InitStream, StreamStep, PTL DEF Spec

\* A subscription's output reaches its client without a gap or a repetition,
\* for any number of sessions and connections and any outbound cap: a reader
\* that falls behind loses its connection, never a frame.
THEOREM StreamWhole == Spec => []StreamContiguous
<1>1. ASSUME StreamInv, NEW c \in Writable, NEW i \in Id
      PROVE  LET J == {j \in DOMAIN outq[c] : IsOutput(c, i, j)}
                 EndBefore(j) ==
                   IF \E k \in J : k < j
                   THEN outq[c][CHOOSE k \in J :
                          k < j /\ \A l \in J : l < j => l <= k].to
                   ELSE recv[c][i]
             IN  /\ \A j \in J : outq[c][j].first
                                   \/ outq[c][j].from = EndBefore(j)
                 /\ i \in subs[c] \ fresh[c] =>
                       EndBefore(Len(outq[c]) + 1) = total[i]
  <2> DEFINE q == outq[c]
             J == {j \in DOMAIN q : IsOutput(c, i, j)}
             Newest(j, k) == k < j /\ \A l \in J : l < j => l <= k
             EndBefore(j) == IF \E k \in J : k < j
                             THEN q[CHOOSE k \in J : Newest(j, k)].to
                             ELSE recv[c][i]
  <2>1. c \in Conn /\ QueueSound(c) /\ DOMAIN q = 1..Len(q) /\ Len(q) \in Nat
    BY <1>1 DEF StreamInv, Inv, TypeOK, Writable
  <2>2. \A j : j \in J <=> j \in 1..Len(q) /\ Out(q, i, j)
    BY <2>1 DEF IsOutput, Out
  <2>3. ASSUME NEW p \in 0..Len(q), NEW e, End(q, i, recv[c][i], p, e)
        PROVE  EndBefore(p + 1) = e
    <3>1. CASE (\A k \in 1..p : ~Out(q, i, k)) /\ e = recv[c][i]
      <4>1. ~ \E k \in J : k < p + 1
        BY <2>1, <2>2, <3>1
      <4>2. QED  BY <3>1, <4>1
    <3>2. CASE \E k \in 1..p : /\ Out(q, i, k) /\ e = q[k].to
                               /\ \A l \in (k + 1)..p : ~Out(q, i, l)
      <4>1. PICK k \in 1..p : /\ Out(q, i, k) /\ e = q[k].to
                              /\ \A l \in (k + 1)..p : ~Out(q, i, l)
        BY <3>2
      <4>2. J \subseteq 1..Len(q) /\ k \in J /\ k < p + 1
        BY <2>1, <2>2, <4>1
      <4>3. \A l \in J : l < p + 1 => l <= k
        BY <2>1, <2>2, <4>1
      <4>4. Newest(p + 1, k) /\ \A m \in J : Newest(p + 1, m) => m = k
        <5>1. Newest(p + 1, k)
          BY <4>2, <4>3
        <5>2. ASSUME NEW m \in J, Newest(p + 1, m)  PROVE m = k
          <6>1. m <= k /\ k <= m
            BY <4>2, <4>3, <5>2
          <6>2. QED  BY <4>2, <6>1
        <5>3. QED  BY <5>1, <5>2
      <4> HIDE DEF J, Newest, q
      <4>5. (CHOOSE m \in J : Newest(p + 1, m)) = k
        BY <4>2, <4>4
      <4>6. QED  BY <4>1, <4>2, <4>5
    <3>3. QED  BY <2>3, <3>1, <3>2 DEF End
  <2>4. ASSUME NEW j \in J
        PROVE  q[j].first \/ q[j].from = EndBefore(j)
    <3>1. j - 1 \in 0..Len(q) /\ (j - 1) + 1 = j /\ j \in DOMAIN q /\ Out(q, i, j)
      BY <2>1, <2>2
    <3>2. q[j].first \/ End(q, i, recv[c][i], j - 1, q[j].from)
      BY <2>1, <3>1 DEF QueueSound, Sound, Contiguous
    <3> HIDE DEF EndBefore, q, J
    <3>3. QED  BY <2>3, <3>1, <3>2
  <2>5. ASSUME i \in subs[c] \ fresh[c]  PROVE EndBefore(Len(q) + 1) = total[i]
    <3>1. End(q, i, recv[c][i], Len(q), total[i]) /\ Len(q) \in 0..Len(q)
      BY <1>1, <2>1, <2>5 DEF QueueSound, Going, Current
    <3> HIDE DEF EndBefore, q, J
    <3>2. QED  BY <2>3, <3>1
  <2>6. QED  BY <2>4, <2>5
<1>2. StreamInv => StreamContiguous
  BY <1>1, Zenon DEF StreamContiguous
<1>3. QED  BY <1>2, StreamInvariance, PTL

\* After the exit of a session its id is silent on a connection until the
\* connection subscribes again, though exit and output frames wait in a queue
\* while ids are closed and opened again.
THEOREM ExitLast == Spec => []ExitIsFinal
<1>1. ASSUME StreamInv, NEW c \in Conn, NEW i \in Id,
             NEW j \in DOMAIN outq[c], NEW k \in DOMAIN outq[c],
             j < k, outq[c][j].type = "exit", outq[c][j].id = i,
             IsOutput(c, i, k)
      PROVE  \E l \in (j + 1)..k : IsOutput(c, i, l) /\ outq[c][l].first
  <2>1. Final(outq[c], i)
    BY <1>1 DEF StreamInv, QueueSound, Sound
  <2>2. Left(outq[c], i, j) /\ Out(outq[c], i, k)
    BY <1>1 DEF Left, Out, IsOutput
  <2>3. Renewed(outq[c], i, j, k)
    BY <1>1, <2>1, <2>2 DEF Final
  <2>4. QED  BY <2>3 DEF Renewed, Out, IsOutput
<1>2. StreamInv => ExitIsFinal
  BY <1>1 DEF ExitIsFinal
<1>3. QED  BY <1>2, StreamInvariance, PTL

\* Whoever is subscribed when a session ends finds its exit at the end of the
\* queue, unless the connection or the daemon is lost in that step: no other
\* reader, and no full queue, keeps the notice from it.
THEOREM ExitTold == Spec => SubscribersToldOfExit
<1>1. ASSUME Inv, [Next]_vars, NEW c \in Conn, NEW i \in subs[c],
             i \notin store', c \in Writable, up', conn'[c] = "ready"
      PROVE  outq'[c] # <<>> /\ outq'[c][Len(outq'[c])] = Exit(i)
  <2>1. i \in store /\ i \in Id /\ outq[c] \in Seq(Frame)
    BY <1>1 DEF Inv, TypeOK, NoDanglingSubscription
  <2>2. ASSUME NEW d \in Conn, ConnNext(d)  PROVE store \subseteq store'
    BY <2>2 DEF ConnNext, Connect, SocketClosed, Hello, NotHello, HandleList,
                Receive, HandleOpen, HandleError, HandleClose, HandleSubscribe,
                HandleUnsubscribe
  <2>3. ASSUME NEW k \in Id, PtyNext(k)  PROVE k = i /\ OnExit(i)
    BY <1>1, <2>1, <2>3 DEF PtyNext, OnData, OnExit, Escalate
  <2>4. CASE OnExit(i)
    <3> DEFINE R == Subscribers(i)
               f == [d \in Subscribers(i) |-> Exit(i)]
    <3>1. Send(R, f) /\ R \subseteq Conn /\ c \in R /\ f[c] = Exit(i)
      BY <1>1, <2>4 DEF OnExit, Subscribers
    <3> HIDE DEF R, f
    <3>2. outq'[c] = Append(outq[c], Exit(i))
      BY <1>1, <3>1, SendCases DEF Inv
    <3>3. Exit(i) \in Frame
      BY <1>1, <2>1, ExitType DEF Inv
    <3> DEFINE g == Exit(i)
    <3>4. g \in Frame /\ outq'[c] = Append(outq[c], g)
      BY <3>2, <3>3
    <3> HIDE DEF g
    <3>5. outq'[c] # <<>> /\ outq'[c][Len(outq'[c])] = g
      BY <2>1, <3>4
    <3>6. QED  BY <3>5 DEF g
  <2>5. ~Stop
    BY <1>1 DEF Stop
  <2>6. CASE Listen \/ UNCHANGED vars
    BY <1>1, <2>1, <2>6 DEF Listen
  <2>7. QED  BY <1>1, <2>1, <2>2, <2>3, <2>4, <2>5, <2>6 DEF Next
<1>2. Inv /\ [Next]_vars =>
        [\A c \in Conn : \A i \in subs[c] :
           (i \notin store' /\ c \in Writable /\ up' /\ conn'[c] = "ready")
           => /\ outq'[c] # <<>>
              /\ outq'[c][Len(outq'[c])] = Exit(i)]_vars
  BY <1>1
<1>3. QED  BY <1>2, Invariance, PTL DEF Spec, SubscribersToldOfExit
=============================================================================
