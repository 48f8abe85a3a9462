----------------------- MODULE TerminalSessionProofs -----------------------
(***************************************************************************)
(* Theorems about a terminal, for any numbers of renderers, calls, chunks  *)
(* of output, shells and faults.                                           *)
(***************************************************************************)
EXTENDS TerminalSession, SequenceTheorems, TLAPS

USE TerminalAssumption

-----------------------------------------------------------------------------
(***************************************************************************)
(* The elements of a queue.                                                *)
(***************************************************************************)
LEMMA ElementsIn ==
  ASSUME NEW S, NEW s \in Seq(S)
  PROVE  Elements(s) \subseteq S
  BY ElementOfSeq, LenProperties DEF Elements

LEMMA ElementsEmpty == Elements(<<>>) = {}
  BY DEF Elements

LEMMA ElementsAppend ==
  ASSUME NEW S, NEW s \in Seq(S), NEW x \in S
  PROVE  Append(s, x) \in Seq(S) /\ Elements(Append(s, x)) = Elements(s) \cup {x}
  BY DEF Elements

LEMMA ElementsConcat ==
  ASSUME NEW S, NEW s \in Seq(S), NEW t \in Seq(S)
  PROVE  s \o t \in Seq(S) /\ Elements(s \o t) = Elements(s) \cup Elements(t)
<1>1. /\ s \o t \in Seq(S) /\ DOMAIN (s \o t) = 1..(Len(s) + Len(t))
      /\ DOMAIN s = 1..Len(s) /\ DOMAIN t = 1..Len(t)
      /\ Len(s) \in Nat /\ Len(t) \in Nat
      /\ \A i \in 1..(Len(s) + Len(t)) :
            (s \o t)[i] = IF i <= Len(s) THEN s[i] ELSE t[i - Len(s)]
  BY ConcatProperties, LenProperties
<1>2. Elements(s \o t) \subseteq Elements(s) \cup Elements(t)
  BY <1>1 DEF Elements
<1>3. ASSUME NEW i \in 1..Len(s)  PROVE s[i] \in Elements(s \o t)
  BY <1>1, <1>3 DEF Elements
<1>4. ASSUME NEW i \in 1..Len(t)  PROVE t[i] \in Elements(s \o t)
  <2>1. Len(s) + i \in 1..(Len(s) + Len(t)) /\ (s \o t)[Len(s) + i] = t[i]
    BY <1>1, <1>4
  <2>2. QED  BY <1>1, <2>1 DEF Elements
<1>5. QED  BY <1>1, <1>2, <1>3, <1>4 DEF Elements

LEMMA ElementsGrow ==
  ASSUME NEW S, NEW s \in Seq(S), NEW t \in Seq(S), NEW u \in Seq(S)
  PROVE  Elements(s) \subseteq Elements(s \o t \o u)
<1> DEFINE v == s \o t
<1>1. v \in Seq(S) /\ Elements(v) = Elements(s) \cup Elements(t)
  BY ElementsConcat
<1> HIDE DEF v
<1>2. Elements(v \o u) = Elements(v) \cup Elements(u)
  BY <1>1, ElementsConcat
<1>3. QED  BY <1>1, <1>2 DEF v

LEMMA ElementsTail ==
  ASSUME NEW S, NEW s \in Seq(S), s # <<>>
  PROVE  /\ Head(s) \in S /\ Tail(s) \in Seq(S)
         /\ Elements(s) = {Head(s)} \cup Elements(Tail(s))
<1>1. /\ Head(s) \in S /\ Tail(s) \in Seq(S)
      /\ Len(s) \in Nat \ {0} /\ Len(Tail(s)) = Len(s) - 1
      /\ \A i \in 1..Len(Tail(s)) : Tail(s)[i] = s[i + 1]
      /\ DOMAIN s = 1..Len(s) /\ DOMAIN Tail(s) = 1..Len(Tail(s))
      /\ Head(s) = s[1]
  BY HeadTailProperties, EmptySeq, LenProperties
<1>2. ASSUME NEW i \in 1..Len(s)  PROVE s[i] \in {Head(s)} \cup Elements(Tail(s))
  <2>1. CASE i = 1
    BY <1>1, <2>1
  <2>2. CASE i # 1
    <3>1. i - 1 \in 1..Len(Tail(s)) /\ Tail(s)[i - 1] = s[i]
      BY <1>1, <1>2, <2>2
    <3>2. QED  BY <1>1, <3>1 DEF Elements
  <2>3. QED  BY <2>1, <2>2
<1>3. ASSUME NEW i \in 1..Len(Tail(s))  PROVE Tail(s)[i] \in Elements(s)
  <2>1. i + 1 \in 1..Len(s)
    BY <1>1, <1>3
  <2>2. QED  BY <1>1, <1>3, <2>1 DEF Elements
<1>4. QED  BY <1>1, <1>2, <1>3 DEF Elements

-----------------------------------------------------------------------------
(***************************************************************************)
(* Types.                                                                  *)
(***************************************************************************)
\* The variables that the end of a call writes.
CallTypes ==
    /\ step \in [Call -> InFlight \cup {"unused", "done"}]
    /\ answer \in [Call -> Frames \cup {"none", "failed"}]
    /\ socks \in [Call -> SUBSET Call]
    /\ buffer \in [Call -> Seq(Chunk)]
ViewTypes ==
    /\ viewer \in [Call -> Renderer \cup {NoRenderer}]
    /\ wire \in [Call -> {"none", "open", "half", "closed"}]
    /\ at \in [Renderer -> Call \cup {NoCall}]
    /\ ended \subseteq Renderer
    /\ shown \in [Renderer -> Seq(Chunk)]
    /\ lost \subseteq Chunk

LEMMA CallIsNat == Call \subseteq Nat /\ NoCall \notin Call
  BY DEF Call, NoCall

LEMMA CloseTypes ==
  ASSUME TypeOK, NEW J, CloseSockets(J)
  PROVE  /\ wire' \in [Call -> {"none", "open", "half", "closed"}]
         /\ at' \in [Renderer -> Call \cup {NoCall}]
  BY DEF CloseSockets, TypeOK

LEMMA RejectTypes ==
  ASSUME TypeOK, NEW k \in Call, Reject(k)
  PROVE  CallTypes' /\ ViewTypes'
<1>1. /\ wire' \in [Call -> {"none", "open", "half", "closed"}]
      /\ at' \in [Renderer -> Call \cup {NoCall}]
  BY CloseTypes DEF Reject
<1>2. QED  BY <1>1 DEF Reject, Ends, Reached, TypeOK, CallTypes, ViewTypes

LEMMA AttachTypes ==
  ASSUME TypeOK, NEW k \in Call, NEW c \in Call, Attach(k, c)
  PROVE  CallTypes' /\ ViewTypes'
<1>1. buffer[c] \in Seq(Chunk) /\ Elements(buffer[c]) \subseteq Chunk
  BY ElementsIn DEF TypeOK
<1>2. \A r \in Renderer : shown[r] \o buffer[c] \in Seq(Chunk)
  BY <1>1, ElementsConcat DEF TypeOK
<1>3. shown' \in [Renderer -> Seq(Chunk)]
  BY <1>2 DEF Attach, TypeOK
<1>4. <<>> \in Seq(Chunk)
  BY EmptySeq
<1>5. lost' \subseteq Chunk
  BY <1>1 DEF Attach, TypeOK
<1>6. CallTypes'
  BY <1>4 DEF Attach, Ends, CallTypes, TypeOK
<1>7. QED  BY <1>3, <1>5, <1>6 DEF Attach, Reached, ViewTypes, TypeOK

LEMMA RegisterTypes ==
  ASSUME TypeOK, NEW k \in Call, NEW b, Register(k, b)
  PROVE  /\ CallTypes' /\ ViewTypes'
         /\ row' \in {"none", "active", "exited", "disposed"}
         /\ cur' \in Call \cup {NoCall}
         /\ handle' \subseteq Call /\ callbacks' \subseteq Call
         /\ up' \in Seq(Requests)
<1>1. up \in Seq(Requests) /\ "replay" \in Requests /\ "follow" \in Requests
  BY DEF TypeOK, Requests
<1>2. up' \in Seq(Requests)
  BY <1>1, ElementsAppend DEF Register
<1>3. CallTypes' /\ ViewTypes'
  BY RejectTypes, AttachTypes DEF Register
<1>4. QED  BY <1>2, <1>3 DEF Register, TypeOK

LEMMA AwaitsTypes ==
  ASSUME TypeOK, NEW k \in Call, NEW s \in InFlight, Awaits(k, s)
  PROVE  CallTypes'
  BY DEF Awaits, CallTypes, TypeOK

LEMMA FallbackTypes ==
  ASSUME TypeOK, NEW k \in Call, Fallback(k)
  PROVE  /\ CallTypes' /\ ViewTypes'
         /\ UNCHANGED <<row, cur, handle, callbacks, up>>
<1>1. CASE cur # NoCall
  BY <1>1, AttachTypes DEF Fallback, TypeOK
<1>2. CASE cur = NoCall
  <2>1. "create" \in InFlight
    BY DEF InFlight
  <2>2. CallTypes'
    BY <1>2, <2>1, AwaitsTypes DEF Fallback
  <2>3. QED  BY <1>2, <2>2 DEF Fallback, ViewTypes, views, TypeOK
<1>3. QED  BY <1>1, <1>2

\* What a step of a call leaves alone keeps its type.
LEMMA CallStepTypes ==
  ASSUME TypeOK, CallTypes', ViewTypes',
         row' \in {"none", "active", "exited", "disposed"},
         cur' \in Call \cup {NoCall}, handle' \subseteq Call, callbacks' \subseteq Call,
         up' \in Seq(Requests), link' \in {"none", "up", "cut"},
         replay' \in [Call -> BOOLEAN], breach' \subseteq {"overlap", "late", "left", "missed"},
         UNCHANGED <<exited, heard, down, kill, daemon, faults>>
  PROVE  TypeOK'
  BY DEF TypeOK, CallTypes, ViewTypes, daemon

LEMMA ContinueTypes ==
  ASSUME TypeOK, NEW k \in Call, Continue(k)
  PROVE  TypeOK'
<1>1. CallTypes /\ ViewTypes /\ up \in Seq(Requests) /\ "list" \in Requests
  BY DEF TypeOK, CallTypes, ViewTypes, Requests
<1>2. CASE \E b \in BOOLEAN : Register(k, b)
  BY <1>2, RegisterTypes, CallStepTypes DEF Continue, TypeOK
<1>3. CASE Fallback(k)
  BY <1>3, FallbackTypes, CallStepTypes DEF Continue, TypeOK
<1>4. CASE Awaits(k, "relist") /\ UNCHANGED <<row, cur, handle, callbacks, views>>
           /\ up' = IF link = "cut" THEN up ELSE Append(up, "list")
  <2>1. up' \in Seq(Requests)
    BY <1>1, <1>4, ElementsAppend
  <2>2. CallTypes'
    BY <1>4, AwaitsTypes DEF InFlight
  <2>3. ViewTypes'
    BY <1>1, <1>4 DEF ViewTypes, views
  <2>4. QED  BY <1>4, <2>1, <2>2, <2>3, CallStepTypes DEF Continue, TypeOK
<1>5. CASE Reject(k) /\ UNCHANGED <<row, cur, handle, callbacks, up>>
  BY <1>5, RejectTypes, CallStepTypes DEF Continue, TypeOK
<1>6. replay[k] \in BOOLEAN
  BY DEF TypeOK
<1>7. QED  BY <1>2, <1>3, <1>4, <1>5, <1>6 DEF Continue

LEMMA CallNextTypes ==
  ASSUME TypeOK, NEW k \in Call, CallNext(k)
  PROVE  TypeOK'
<1>1. ASSUME NEW r \in Renderer, Connect(r, k)  PROVE TypeOK'
  BY <1>1 DEF Connect, TypeOK, InFlight, record, client, daemon
<1>2. CASE OnOpen(k)
  <2>1. UNCHANGED views => ViewTypes'
    BY DEF views, ViewTypes, TypeOK
  <2>2. CallTypes' /\ ViewTypes'
    BY <1>2, <2>1, AttachTypes, AwaitsTypes, RejectTypes DEF OnOpen, TypeOK, InFlight
  <2>3. breach' \subseteq {"overlap", "late", "left", "missed"}
    BY <1>2 DEF OnOpen, Meets, TypeOK
  <2>4. QED  BY <1>2, <2>2, <2>3, CallStepTypes DEF OnOpen, client, TypeOK
<1>3. CASE Create(k)
  <2>1. ViewTypes'
    BY <1>3 DEF Create, views, ViewTypes, TypeOK
  <2>2. CallTypes'
    <3>1. Awaits(k, "create") => CallTypes'
      BY AwaitsTypes DEF InFlight
    <3>2. Ends(k) /\ UNCHANGED <<socks, buffer>> => CallTypes'
      BY DEF Ends, CallTypes, TypeOK
    <3>3. QED  BY <1>3, <3>1, <3>2 DEF Create
  <2>3. breach' \subseteq {"overlap", "late", "left", "missed"}
    BY <1>3 DEF Create, Meets, TypeOK
  <2>4. QED  BY <1>3, <2>1, <2>2, <2>3, CallStepTypes DEF Create, client, TypeOK
<1>4. CASE ClientReady(k)
  <2>1. ViewTypes'
    BY <1>4 DEF ClientReady, views, ViewTypes, TypeOK
  <2>2. CallTypes'
    BY <1>4, AwaitsTypes DEF ClientReady, InFlight
  <2>3. up' \in Seq(Requests)
    BY <1>4, ElementsAppend DEF ClientReady, Requests, TypeOK
  <2>4. QED  BY <1>4, <2>1, <2>2, <2>3, CallStepTypes DEF ClientReady, TypeOK
<1>5. CASE ClientFails(k)
  <2>1. CallTypes' /\ ViewTypes' /\ UNCHANGED <<row, cur, handle, callbacks, up>>
    BY <1>5, FallbackTypes, RejectTypes DEF ClientFails
  <2>2. QED  BY <1>5, <2>1, CallStepTypes DEF ClientFails, TypeOK
<1>6. CASE Continue(k)
  BY <1>6, ContinueTypes
<1>7. CASE Timeout(k)
  <2>1. faults' \in 0..MaxFaults
    BY <1>7 DEF Timeout, TypeOK
  <2>2. QED  BY <1>7, <2>1 DEF Timeout, TypeOK, record, client, daemon, views
<1>8. CASE OnClose(k)
  BY <1>8 DEF OnClose, TypeOK, calls, client, daemon
<1>9. QED
  BY <1>1, <1>2, <1>3, <1>4, <1>5, <1>6, <1>7, <1>8 DEF CallNext

LEMMA FrameTypes ==
  ASSUME TypeOK, down # <<>>
  PROVE  /\ Head(down) \in [t : Frames, bytes : Seq(Chunk)]
         /\ Tail(down) \in Seq([t : Frames, bytes : Seq(Chunk)])
         /\ Head(down).t \in Frames /\ Head(down).bytes \in Seq(Chunk)
<1>1. /\ Head(down) \in [t : Frames, bytes : Seq(Chunk)]
      /\ Tail(down) \in Seq([t : Frames, bytes : Seq(Chunk)])
  BY ElementsTail DEF TypeOK
<1>2. QED  BY <1>1

LEMMA ClientTypes ==
  ASSUME TypeOK, ClientNext
  PROVE  TypeOK'
<1>1. CASE OnOutput
  <2>1. /\ Head(down).bytes \in Seq(Chunk) /\ Elements(Head(down).bytes) \subseteq Chunk
        /\ down' \in Seq([t : Frames, bytes : Seq(Chunk)])
    BY <1>1, FrameTypes, ElementsIn DEF OnOutput
  <2>2. /\ \A k \in Call : buffer[k] \o Head(down).bytes \in Seq(Chunk)
        /\ \A r \in Renderer : shown[r] \o Head(down).bytes \in Seq(Chunk)
    BY <2>1, ElementsConcat DEF TypeOK
  <2>3. /\ buffer' \in [Call -> Seq(Chunk)] /\ shown' \in [Renderer -> Seq(Chunk)]
        /\ lost' \subseteq Chunk
    BY <1>1, <2>1, <2>2 DEF OnOutput, Broadcast, TypeOK
  <2>4. heard' \in [Call -> SUBSET Chunk]
    BY <1>1, <2>1 DEF OnOutput, TypeOK
  <2>5. QED  BY <1>1, <2>1, <2>3, <2>4 DEF OnOutput, TypeOK, calls, daemon
<1>2. CASE OnExit
  BY <1>2, FrameTypes DEF OnExit, Reached, TypeOK, calls, daemon
<1>3. CASE OnReply
  BY <1>3, FrameTypes DEF OnReply, TypeOK, record, daemon, views
<1>4. CASE Disconnected
  <2>1. /\ wire' \in [Call -> {"none", "open", "half", "closed"}]
        /\ at' \in [Renderer -> Call \cup {NoCall}]
    BY <1>4, CloseTypes DEF Disconnected, CloseSession
  <2>2. QED  BY <1>4, <2>1
             DEF Disconnected, CloseSession, RejectRequests, TypeOK, daemon
<1>5. QED  BY <1>1, <1>2, <1>3, <1>4 DEF ClientNext

LEMMA DisposeTypes ==
  ASSUME TypeOK, Dispose
  PROVE  TypeOK'
<1>1. breach' \subseteq {"overlap", "late", "left", "missed"}
  BY DEF Dispose, TypeOK
<1>2. CASE cur = NoCall
  BY <1>1, <1>2 DEF Dispose, TypeOK, calls, daemon
<1>3. CASE cur # NoCall
  <2>1. /\ wire' \in [Call -> {"none", "open", "half", "closed"}]
        /\ at' \in [Renderer -> Call \cup {NoCall}]
    BY <1>3, CloseTypes DEF Dispose, CloseSession
  <2>2. up' \in Seq(Requests)
    <3>1. /\ <<>> \in Seq(Requests) /\ <<"close">> \in Seq(Requests)
          /\ <<"unsubscribe">> \in Seq(Requests) /\ up \in Seq(Requests)
      BY DEF Requests, TypeOK
    <3> DEFINE a == IF cur \in exited THEN <<>> ELSE <<"close">>
    <3> DEFINE b == IF cur \in handle /\ callbacks = {cur} THEN <<"unsubscribe">> ELSE <<>>
    <3>2. a \in Seq(Requests) /\ b \in Seq(Requests)
      BY <3>1
    <3>3. up' = up \/ up' = up \o a \o b
      BY <1>3 DEF Dispose
    <3> HIDE DEF a, b
    <3>4. up \o a \in Seq(Requests)
      BY <3>1, <3>2, ElementsConcat
    <3>5. up \o a \o b \in Seq(Requests)
      BY <3>2, <3>4, ElementsConcat
    <3>6. QED  BY <3>1, <3>3, <3>5
  <2>3. /\ socks' \in [Call -> SUBSET Call]
        /\ handle' \subseteq Call /\ callbacks' \subseteq Call
    <3>1. CloseSession /\ Unsubscribe(cur)
      BY <1>3 DEF Dispose
    <3>2. socks' \in [Call -> SUBSET Call]
      BY <3>1 DEF CloseSession, TypeOK
    <3>3. QED  BY <3>1, <3>2 DEF Unsubscribe, TypeOK
  <2>4. /\ row' = "disposed" /\ cur' = NoCall
        /\ UNCHANGED <<exited, buffer, heard, calls, link, down, kill, daemon, viewer,
                       ended, shown, lost, faults>>
    BY <1>3 DEF Dispose
  <2>5. QED  BY <1>1, <2>1, <2>2, <2>3, <2>4 DEF TypeOK, calls, daemon
<1>4. QED  BY <1>2, <1>3

\* The daemon answers with frames and numbers shells up to the bound.
LEMMA ServeTypes ==
  ASSUME TypeOK, Serve
  PROVE  /\ up' \in Seq(Requests)
         /\ down' \in Seq([t : Frames, bytes : Seq(Chunk)])
         /\ pty' \in 0..MaxPty /\ spawned' \in 0..MaxPty
         /\ doomed' \in BOOLEAN /\ sub' \in BOOLEAN /\ ring' \in Seq(Chunk)
<1>1. up' \in Seq(Requests) /\ <<>> \in Seq(Chunk) /\ ring \in Seq(Chunk)
  BY ElementsTail, EmptySeq DEF Serve, TypeOK
<1>2. \A t \in Frames : \A b \in Seq(Chunk) :
         Append(down, Frame(t, b)) \in Seq([t : Frames, bytes : Seq(Chunk)])
  BY ElementsAppend DEF Frame, TypeOK
<1>3. spawned < MaxPty => spawned + 1 \in 0..MaxPty
  BY DEF TypeOK
<1>4. {"absent", "alive", "open-ok", "error", "exists", "closed", "output"} \subseteq Frames
  BY DEF Frames
<1>5. down' = down \/ \E t \in Frames, b \in {ring, <<>>} : down' = Append(down, Frame(t, b))
  BY <1>4 DEF Serve
<1>6. down' \in Seq([t : Frames, bytes : Seq(Chunk)])
  <2>1. down \in Seq([t : Frames, bytes : Seq(Chunk)])
    BY DEF TypeOK
  <2>2. CASE down' = down
    BY <2>1, <2>2
  <2>3. ASSUME NEW t \in Frames, NEW b \in {ring, <<>>}, down' = Append(down, Frame(t, b))
        PROVE  down' \in Seq([t : Frames, bytes : Seq(Chunk)])
    <3>1. b \in Seq(Chunk)
      BY <1>1
    <3>2. QED  BY <1>2, <2>3, <3>1
  <2>4. QED  BY <1>5, <2>2, <2>3
<1>7. \/ pty' = pty /\ spawned' = spawned
      \/ spawned < MaxPty /\ pty' = spawned + 1 /\ spawned' = spawned + 1
  BY DEF Serve
<1>8. doomed' \in BOOLEAN /\ sub' \in BOOLEAN /\ ring' \in {ring, <<>>}
  BY DEF Serve, TypeOK
<1>9. QED  BY <1>1, <1>3, <1>6, <1>7, <1>8 DEF TypeOK

LEMMA DaemonTypes ==
  ASSUME TypeOK, DaemonNext
  PROVE  TypeOK'
<1>1. CASE Serve
  <2>1. breach' \subseteq {"overlap", "late", "left", "missed"}
    BY <1>1 DEF Serve, TypeOK
  <2>2. UNCHANGED <<row, record, calls, handle, callbacks, link, kill, listening,
                    made, views, faults>>
    BY <1>1 DEF Serve
  <2>3. QED  BY <1>1, <2>1, <2>2, ServeTypes DEF TypeOK, record, calls, views
<1>2. CASE Output
  <2>1. made + 1 \in Chunk /\ made' \in 0..MaxOut
    BY <1>2 DEF Output, TypeOK, Chunk
  <2>2. ring' \in Seq(Chunk)
    BY <1>2, <2>1, ElementsAppend DEF Output, TypeOK
  <2>3. Frame("output", <<made + 1>>) \in [t : Frames, bytes : Seq(Chunk)]
    BY <2>1 DEF Frame, Frames
  <2>4. down' \in Seq([t : Frames, bytes : Seq(Chunk)])
    BY <1>2, <2>3, ElementsAppend DEF Output, TypeOK
  <2>5. QED  BY <1>2, <2>1, <2>2, <2>4 DEF Output, TypeOK, record, calls, views
<1>3. CASE ShellExits
  <2>1. Frame("exit", <<>>) \in [t : Frames, bytes : Seq(Chunk)]
    BY EmptySeq DEF Frame, Frames
  <2>2. down' \in Seq([t : Frames, bytes : Seq(Chunk)])
    BY <1>3, <2>1, ElementsAppend DEF ShellExits, TypeOK
  <2>3. <<>> \in Seq(Chunk) /\ 0 \in 0..MaxPty
    BY EmptySeq
  <2>4. QED  BY <1>3, <2>2, <2>3 DEF ShellExits, TypeOK, record, calls, views
<1>4. CASE DaemonBack
  BY <1>4 DEF DaemonBack, TypeOK, record, calls, client, views
<1>5. ASSUME NEW crash \in BOOLEAN, Lost(crash)  PROVE TypeOK'
  <2>1. faults' \in 0..MaxFaults /\ 0 \in 0..MaxPty
    BY <1>5 DEF Lost, TypeOK
  <2>2. <<>> \in Seq(Requests) /\ <<>> \in Seq(Chunk)
    BY EmptySeq
  <2>3. breach' \subseteq {"overlap", "late", "left", "missed"}
    BY <1>5 DEF Lost, TypeOK
  <2>4. QED  BY <1>5, <2>1, <2>2, <2>3 DEF Lost, TypeOK, record, calls, views
<1>6. QED  BY <1>1, <1>2, <1>3, <1>4, <1>5 DEF DaemonNext

LEMMA StepTypes == TypeOK /\ [Next]_vars => TypeOK'
<1> SUFFICES ASSUME TypeOK, [Next]_vars  PROVE TypeOK'
  OBVIOUS
<1>1. CASE UNCHANGED vars
  BY <1>1 DEF vars, record, calls, client, daemon, views, TypeOK
<1>2. CASE KillById
  BY <1>2 DEF KillById, record, calls, client, views, TypeOK
<1>3. CASE HostCrash
  <2>1. /\ wire' \in [Call -> {"none", "open", "half", "closed"}]
        /\ at' \in [Renderer -> Call \cup {NoCall}]
    BY <1>3, CloseTypes DEF HostCrash
  <2>2. faults' \in 0..MaxFaults /\ breach' \subseteq {"overlap", "late", "left", "missed"}
    BY <1>3 DEF HostCrash, TypeOK
  <2>3. <<>> \in Seq([t : Frames, bytes : Seq(Chunk)]) /\ <<>> \in Seq(Chunk)
    BY EmptySeq
  <2>4. QED  BY <1>3, <2>1, <2>2, <2>3 DEF HostCrash, TypeOK
<1>4. ASSUME NEW r \in Renderer, Drop(r)  PROVE TypeOK'
  BY <1>4 DEF Drop, record, calls, client, daemon, TypeOK
<1>5. QED
  BY <1>1, <1>2, <1>3, <1>4, CallNextTypes, ClientTypes, DaemonTypes, DisposeTypes DEF Next

LEMMA InitTypes == Init => TypeOK
<1>1. /\ <<>> \in Seq(Chunk) /\ <<>> \in Seq(Requests)
      /\ <<>> \in Seq([t : Frames, bytes : Seq(Chunk)])
  BY EmptySeq
<1>2. 0 \in 0..MaxPty /\ 0 \in 0..MaxOut /\ 0 \in 0..MaxFaults
  BY TerminalAssumption
<1>3. SUFFICES ASSUME Init  PROVE TypeOK
  OBVIOUS
<1>4. /\ step = [k \in Call |-> "unused"] /\ answer = [k \in Call |-> "none"]
      /\ socks = [k \in Call |-> {}] /\ heard = [k \in Call |-> {}]
      /\ replay = [k \in Call |-> FALSE]
      /\ viewer = [k \in Call |-> NoRenderer] /\ wire = [k \in Call |-> "none"]
      /\ at = [r \in Renderer |-> NoCall]
  BY <1>3 DEF Init
<1>5. buffer = [k \in Call |-> <<>>] /\ shown = [r \in Renderer |-> <<>>]
  BY <1>3 DEF Init
<1>6. /\ row = "none" /\ cur = NoCall /\ exited = {} /\ handle = {} /\ callbacks = {}
      /\ kill = FALSE /\ link = "none" /\ up = <<>> /\ down = <<>> /\ listening = TRUE
      /\ pty = 0 /\ doomed = FALSE /\ ring = <<>> /\ sub = FALSE
      /\ spawned = 0 /\ made = 0 /\ faults = 0 /\ ended = {} /\ lost = {} /\ breach = {}
  BY <1>3 DEF Init
<1>7. buffer \in [Call -> Seq(Chunk)] /\ shown \in [Renderer -> Seq(Chunk)]
  BY <1>1, <1>5
<1>8. /\ step \in [Call -> InFlight \cup {"unused", "done"}]
      /\ answer \in [Call -> Frames \cup {"none", "failed"}]
      /\ socks \in [Call -> SUBSET Call] /\ heard \in [Call -> SUBSET Chunk]
      /\ replay \in [Call -> BOOLEAN]
      /\ viewer \in [Call -> Renderer \cup {NoRenderer}]
      /\ wire \in [Call -> {"none", "open", "half", "closed"}]
      /\ at \in [Renderer -> Call \cup {NoCall}]
  BY <1>4
<1>9. QED  BY <1>1, <1>2, <1>6, <1>7, <1>8 DEF TypeOK

\* The two ends of the connection, the sockets and the records keep their
\* types.
THEOREM SessionTypes == Spec => []TypeOK
  BY InitTypes, StepTypes, PTL DEF Spec

-----------------------------------------------------------------------------
(***************************************************************************)
(* No call waits for ever.                                                 *)
(***************************************************************************)
Waiting(k) == step[k] \in {"adoptlist", "open", "relist"}

\* A connection that is not up carries no requests and no subscription; when
\* there is none, nothing is in flight, the map is empty and every request was
\* rejected.
LinkInv ==
    /\ link # "up" => up = <<>> /\ ~sub
    /\ link = "none" =>
          /\ down = <<>> /\ cur = NoCall
          /\ \A k \in Call : Waiting(k) => answer[k] = "failed"
AnswerInv == TypeOK /\ LinkInv /\ CallsAnswered

\* A step of the call k, which may add to the requests and connect.
OthersStay(k) == \A j \in Call \ {k} : step'[j] = step[j] /\ answer'[j] = answer[j]
Asks(k) ==
    /\ Elements(up) \subseteq Elements(up')
    /\ link' = link \/ (link = "none" /\ link' = "up")
    /\ link' # "up" => up' = up
    /\ cur' = cur \/ link # "none"
    /\ \/ ~Waiting(k)' \/ answer'[k] = "failed" \/ link' = "cut"
       \/ link' = "up" /\ (IF step'[k] = "open" THEN "open" ELSE "list") \in Elements(up')

LEMMA OneCallStep ==
  ASSUME TypeOK, LinkInv, CallsAnswered, NEW k \in Call, OthersStay(k), Asks(k),
         UNCHANGED <<down, sub>>
  PROVE  LinkInv' /\ CallsAnswered'
<1>1. LinkInv'
  BY DEF LinkInv, Waiting, TypeOK, OthersStay, Asks
<1>2. ASSUME NEW j \in Call, Waiting(j)', answer'[j] = "none"
      PROVE  \/ link' = "cut"
             \/ \E f \in Elements(down') : Matches(j, f.t)'
             \/ (IF step'[j] = "open" THEN "open" ELSE "list") \in Elements(up')
  <2>1. CASE j = k
    BY <1>2, <2>1 DEF Asks
  <2>2. CASE j # k
    <3>1. Waiting(j) /\ answer[j] = "none" /\ step'[j] = step[j]
      BY <1>2, <2>2 DEF Waiting, OthersStay
    <3>2. link # "none"
      BY <3>1 DEF LinkInv
    <3>3. \/ link = "cut"
          \/ \E f \in Elements(down) : Matches(j, f.t)
          \/ (IF step[j] = "open" THEN "open" ELSE "list") \in Elements(up)
      BY <3>1 DEF CallsAnswered, Waiting
    <3>4. \A t : Matches(j, t)' <=> Matches(j, t)
      BY <3>1 DEF Matches
    <3>5. QED  BY <3>1, <3>2, <3>3, <3>4 DEF Asks
  <2>3. QED  BY <2>1, <2>2
<1>3. QED  BY <1>1, <1>2 DEF CallsAnswered, Waiting

\* A step that no call takes part in.
LEMMA NoCallStep ==
  ASSUME LinkInv, CallsAnswered,
         UNCHANGED <<step, answer, link>>, cur' = cur \/ cur' = NoCall,
         link # "up" => up' = up /\ sub' = sub, link = "none" => down' = down,
         Elements(up) \subseteq Elements(up'), Elements(down) \subseteq Elements(down')
  PROVE  LinkInv' /\ CallsAnswered'
<1>1. LinkInv'
  BY DEF LinkInv, Waiting
<1>2. CallsAnswered'
  BY DEF CallsAnswered, Matches
<1>3. QED  BY <1>1, <1>2

LEMMA CallNextAnswers ==
  ASSUME TypeOK, LinkInv, CallsAnswered, NEW k \in Call, CallNext(k)
  PROVE  LinkInv' /\ CallsAnswered'
<1>1. ASSUME NEW q \in Requests
      PROVE  Elements(up) \subseteq Elements(Append(up, q)) /\ q \in Elements(Append(up, q))
  BY ElementsAppend DEF TypeOK
<1>2. "list" \in Requests /\ "open" \in Requests /\ "replay" \in Requests /\ "follow" \in Requests
  BY DEF Requests
<1>3. ASSUME NEW r \in Renderer, Connect(r, k)  PROVE LinkInv' /\ CallsAnswered'
  <2>1. ~Waiting(k)'
    BY <1>3 DEF Connect, Waiting, TypeOK
  <2>2. OthersStay(k)
    BY <1>3 DEF Connect, TypeOK, OthersStay
  <2>3. UNCHANGED <<up, down, sub, link, cur>>
    BY <1>3 DEF Connect, client, daemon, record
  <2>4. QED  BY <2>1, <2>2, <2>3, OneCallStep DEF Asks
<1>4. ASSUME Ends(k) \/ Awaits(k, "adopt") \/ Awaits(k, "create")
      PROVE  ~Waiting(k)' /\ OthersStay(k)
  BY <1>4 DEF Ends, Awaits, Waiting, TypeOK, OthersStay
<1>5. CASE OnOpen(k)
  <2>1. Ends(k) \/ Awaits(k, "adopt")
    BY <1>5 DEF OnOpen, Attach, Reject
  <2>2. UNCHANGED <<up, down, sub, link, cur>>
    BY <1>5 DEF OnOpen, client, daemon
  <2>3. QED  BY <1>4, <2>1, <2>2, OneCallStep DEF Asks
<1>6. CASE Create(k)
  <2>1. Ends(k) \/ Awaits(k, "create")
    BY <1>6 DEF Create
  <2>2. UNCHANGED <<up, down, sub, link, cur>>
    BY <1>6 DEF Create, client, daemon
  <2>3. QED  BY <1>4, <2>1, <2>2, OneCallStep DEF Asks
<1>7. CASE ClientReady(k)
  <2>1. step'[k] = "adoptlist" \/ step'[k] = "open"
    BY <1>7 DEF ClientReady, Awaits, TypeOK
  <2>2. OthersStay(k)
    BY <1>7 DEF ClientReady, Awaits, TypeOK, OthersStay
  <2>3. UNCHANGED <<down, sub, cur>>
    BY <1>7 DEF ClientReady, daemon
  <2>4. /\ link' = IF link = "none" THEN "up" ELSE link
        /\ up' = IF link' = "cut" THEN up
                 ELSE Append(up, IF step'[k] = "open" THEN "open" ELSE "list")
    BY <1>7, <2>1 DEF ClientReady, AwaitsClient, Awaits, TypeOK
  <2>5. link \in {"none", "up", "cut"}
    BY DEF TypeOK
  <2>6. QED  BY <1>1, <1>2, <2>1, <2>2, <2>3, <2>4, <2>5, OneCallStep DEF Asks
<1>8. CASE ClientFails(k)
  <2>1. Ends(k) \/ Awaits(k, "create")
    BY <1>8 DEF ClientFails, Fallback, Attach, Reject
  <2>2. UNCHANGED <<up, down, sub, link, cur>>
    BY <1>8 DEF ClientFails, Fallback, daemon
  <2>3. QED  BY <1>4, <2>1, <2>2, OneCallStep DEF Asks
<1>9. CASE Continue(k)
  <2>1. UNCHANGED <<down, sub, link>>
    BY <1>9 DEF Continue, daemon
  <2>2. link \in {"none", "up", "cut"}
    BY DEF TypeOK
  <2>3. ASSUME NEW b \in BOOLEAN, Register(k, b), link # "none"
        PROVE  LinkInv' /\ CallsAnswered'
    <3>1. Ends(k)
      BY <2>3 DEF Register, Attach, Reject
    <3>2. Elements(up) \subseteq Elements(up') /\ (link # "up" => up' = up)
      BY <1>1, <1>2, <2>2, <2>3 DEF Register
    <3>3. QED  BY <1>4, <2>1, <2>3, <3>1, <3>2, OneCallStep DEF Asks
  <2>4. CASE Fallback(k)
    <3>1. Ends(k) \/ Awaits(k, "create")
      BY <2>4 DEF Fallback, Attach
    <3>2. UNCHANGED <<up, cur>>
      BY <2>4 DEF Fallback
    <3>3. QED  BY <1>4, <2>1, <3>1, <3>2, OneCallStep DEF Asks
  <2>5. CASE link # "none" /\ Awaits(k, "relist") /\ UNCHANGED cur
             /\ up' = IF link = "cut" THEN up ELSE Append(up, "list")
    <3>1. step'[k] = "relist" /\ OthersStay(k)
      BY <2>5 DEF Awaits, TypeOK, OthersStay
    <3>2. QED  BY <1>1, <1>2, <2>1, <2>2, <2>5, <3>1, OneCallStep DEF Asks
  <2>6. CASE Reject(k) /\ UNCHANGED <<cur, up>>
    <3>1. Ends(k)
      BY <2>6 DEF Reject
    <3>2. QED  BY <1>4, <2>1, <2>6, <3>1, OneCallStep DEF Asks
  <2>7. Waiting(k) /\ answer[k] # "failed" => link # "none"
    BY DEF LinkInv
  <2>8. replay[k] \in BOOLEAN
    BY DEF TypeOK
  <2>9. QED  BY <1>9, <2>3, <2>4, <2>5, <2>6, <2>7, <2>8 DEF Continue, Waiting
<1>10. CASE Timeout(k)
  <2>1. answer'[k] = "failed" /\ OthersStay(k)
    BY <1>10 DEF Timeout, TypeOK, OthersStay
  <2>2. UNCHANGED <<up, down, sub, link, cur>>
    BY <1>10 DEF Timeout, client, daemon, record
  <2>3. QED  BY <2>1, <2>2, OneCallStep DEF Asks
<1>11. CASE OnClose(k)
  <2>1. UNCHANGED <<step, answer, up, down, sub, link, cur>>
    BY <1>11 DEF OnClose, client, daemon, calls
  <2>2. QED  BY <2>1, NoCallStep
<1>12. QED
  BY <1>3, <1>5, <1>6, <1>7, <1>8, <1>9, <1>10, <1>11 DEF CallNext

LEMMA ClientAnswers ==
  ASSUME TypeOK, LinkInv, CallsAnswered, ClientNext
  PROVE  LinkInv' /\ CallsAnswered'
<1>1. down # <<>> => Elements(down) = {Head(down)} \cup Elements(Tail(down))
  BY ElementsTail DEF TypeOK
<1>2. CASE OnOutput \/ OnExit
  <2>1. /\ down # <<>> /\ down' = Tail(down) /\ Head(down).t \in {"output", "exit"}
        /\ UNCHANGED <<step, answer, link, cur, up, sub>>
    BY <1>2 DEF OnOutput, OnExit, calls, daemon
  <2>2. link # "none"
    BY <2>1 DEF LinkInv
  <2>3. LinkInv'
    BY <2>1, <2>2 DEF LinkInv
  <2>4. \A k \in Call : ~Matches(k, Head(down).t)
    BY <2>1 DEF Matches
  <2>5. QED  BY <1>1, <2>1, <2>3, <2>4 DEF CallsAnswered, Matches
<1>3. CASE OnReply
  <2>1. /\ down # <<>> /\ down' = Tail(down)
        /\ UNCHANGED <<step, link, cur, up, sub>>
        /\ answer' = [k \in Call |-> IF Matches(k, Head(down).t) /\ answer[k] = "none"
                                     THEN Head(down).t ELSE answer[k]]
    BY <1>3 DEF OnReply, record, daemon
  <2>2. link # "none"
    BY <2>1 DEF LinkInv
  <2>3. LinkInv'
    BY <2>1, <2>2 DEF LinkInv
  <2>4. ASSUME NEW k \in Call, answer'[k] = "none"
        PROVE  answer[k] = "none" /\ ~Matches(k, Head(down).t)
    <3>1. Matches(k, Head(down).t) => Head(down).t # "none"
      BY DEF Matches
    <3>2. QED  BY <2>1, <2>4, <3>1
  <2>5. QED  BY <1>1, <2>1, <2>3, <2>4 DEF CallsAnswered, Matches
<1>4. CASE Disconnected
  <2>1. /\ link = "cut" /\ link' = "none" /\ down = <<>> /\ cur' = NoCall
        /\ UNCHANGED <<step, up, down, sub>> /\ RejectRequests
    BY <1>4 DEF Disconnected, daemon
  <2>2. \A k \in Call : Waiting(k)' => answer'[k] = "failed"
    BY <2>1 DEF RejectRequests, Waiting
  <2>3. QED  BY <2>1, <2>2 DEF LinkInv, CallsAnswered, Waiting
<1>5. QED  BY <1>2, <1>3, <1>4 DEF ClientNext

LEMMA AppendFrame ==
  ASSUME TypeOK, NEW t \in Frames, NEW b \in Seq(Chunk)
  PROVE  Elements(Append(down, Frame(t, b))) = Elements(down) \cup {Frame(t, b)}
<1>1. down \in Seq([t : Frames, bytes : Seq(Chunk)])
  BY DEF TypeOK
<1>2. Frame(t, b) \in [t : Frames, bytes : Seq(Chunk)]
  BY DEF Frame
<1> DEFINE F == [t : Frames, bytes : Seq(Chunk)]
<1> DEFINE f == Frame(t, b)
<1>3. down \in Seq(F) /\ f \in F
  BY <1>1, <1>2
<1> HIDE DEF F, f
<1>4. Elements(Append(down, f)) = Elements(down) \cup {f}
  BY <1>3, ElementsAppend
<1>5. QED  BY <1>4 DEF f

\* The daemon answers every request to list and to open.
LEMMA ServeAnswers ==
  ASSUME TypeOK, LinkInv, CallsAnswered, Serve
  PROVE  LinkInv' /\ CallsAnswered'
<1>1. /\ up # <<>> /\ up' = Tail(up) /\ Elements(up) = {Head(up)} \cup Elements(up')
      /\ UNCHANGED <<step, answer, link, cur>>
  BY ElementsTail DEF Serve, TypeOK, record, calls
<1>2. link = "up"
  BY <1>1 DEF LinkInv
<1>3. LinkInv'
  BY <1>1, <1>2 DEF LinkInv
<1>4. ASSUME NEW t \in Frames, NEW b \in Seq(Chunk), down' = Append(down, Frame(t, b))
      PROVE  Elements(down') = Elements(down) \cup {Frame(t, b)} /\ Frame(t, b).t = t
  BY <1>4, AppendFrame DEF Frame
<1>5. ring \in Seq(Chunk) /\ <<>> \in Seq(Chunk)
  BY EmptySeq DEF TypeOK
<1>6. Elements(down) \subseteq Elements(down')
  <2>1. down' = down \/ \E t \in Frames, b \in {ring, <<>>} : down' = Append(down, Frame(t, b))
    BY DEF Serve, Frames
  <2>2. QED  BY <1>4, <1>5, <2>1
<1>7. Head(up) = "list" => \E f \in Elements(down') : f.t \in {"alive", "absent"}
  <2> SUFFICES ASSUME Head(up) = "list"
               PROVE  \E f \in Elements(down') : f.t \in {"alive", "absent"}
    OBVIOUS
  <2>1. \E t \in {"alive", "absent"} : down' = Append(down, Frame(t, <<>>))
    BY DEF Serve
  <2>2. QED  BY <1>4, <1>5, <2>1 DEF Frames
<1>8. Head(up) = "open" => \E f \in Elements(down') : f.t \in {"open-ok", "exists", "error"}
  <2> SUFFICES ASSUME Head(up) = "open"
               PROVE  \E f \in Elements(down') : f.t \in {"open-ok", "exists", "error"}
    OBVIOUS
  <2>1. \E t \in {"open-ok", "exists", "error"} : down' = Append(down, Frame(t, <<>>))
    BY DEF Serve
  <2>2. QED  BY <1>4, <1>5, <2>1 DEF Frames
<1>9. ASSUME NEW k \in Call, Waiting(k)', answer'[k] = "none"
      PROVE  \/ link' = "cut"
             \/ \E f \in Elements(down') : Matches(k, f.t)'
             \/ (IF step'[k] = "open" THEN "open" ELSE "list") \in Elements(up')
  <2>1. \/ \E f \in Elements(down) : Matches(k, f.t)
        \/ (IF step[k] = "open" THEN "open" ELSE "list") \in Elements(up)
    BY <1>1, <1>2, <1>9 DEF CallsAnswered, Waiting
  <2>2. \A t : Matches(k, t)' <=> Matches(k, t)
    BY <1>1 DEF Matches
  <2>3. CASE (IF step[k] = "open" THEN "open" ELSE "list") = Head(up)
    BY <1>1, <1>7, <1>8, <1>9, <2>2, <2>3 DEF Matches, Waiting
  <2>4. QED  BY <1>1, <1>6, <2>1, <2>2, <2>3
<1>10. QED  BY <1>3, <1>9 DEF CallsAnswered, Waiting

LEMMA DaemonAnswers ==
  ASSUME TypeOK, LinkInv, CallsAnswered, DaemonNext
  PROVE  LinkInv' /\ CallsAnswered'
<1>1. ASSUME NEW t \in Frames, NEW b \in Seq(Chunk), down' = Append(down, Frame(t, b))
      PROVE  Elements(down) \subseteq Elements(down')
  BY <1>1, AppendFrame
<1>2. CASE Output
  <2>1. made + 1 \in Chunk
    BY <1>2 DEF Output, TypeOK, Chunk
  <2>2. <<made + 1>> \in Seq(Chunk) /\ "output" \in Frames
    BY <2>1 DEF Frames
  <2>3. /\ UNCHANGED <<step, answer, link, cur, up, sub>>
        /\ down' = down \/ (sub /\ down' = Append(down, Frame("output", <<made + 1>>)))
    BY <1>2 DEF Output, record, calls
  <2>4. /\ Elements(down) \subseteq Elements(down')
        /\ link = "none" => down' = down
    BY <1>1, <2>2, <2>3 DEF LinkInv
  <2>5. QED  BY <2>3, <2>4, NoCallStep
<1>3. CASE ShellExits
  <2>1. <<>> \in Seq(Chunk) /\ "exit" \in Frames
    BY EmptySeq DEF Frames
  <2>2. /\ UNCHANGED <<step, answer, link, cur, up>> /\ sub' = FALSE
        /\ down' = down \/ (sub /\ down' = Append(down, Frame("exit", <<>>)))
    BY <1>3 DEF ShellExits, record, calls
  <2>3. /\ Elements(down) \subseteq Elements(down')
        /\ link = "none" => down' = down
        /\ link # "up" => up' = up /\ ~sub'
    BY <1>1, <2>1, <2>2 DEF LinkInv
  <2>4. LinkInv'
    BY <2>2, <2>3 DEF LinkInv, Waiting
  <2>5. CallsAnswered'
    BY <2>2, <2>3 DEF CallsAnswered, Matches
  <2>6. QED  BY <2>4, <2>5
<1>4. CASE DaemonBack
  <2>1. UNCHANGED <<step, answer, link, cur, up, down, sub>>
    BY <1>4 DEF DaemonBack, record, calls, client
  <2>2. QED  BY <2>1, NoCallStep
<1>5. ASSUME NEW crash \in BOOLEAN, Lost(crash)  PROVE LinkInv' /\ CallsAnswered'
  <2>1. /\ link' = IF link = "up" THEN "cut" ELSE link
        /\ up' = <<>> /\ sub' = FALSE
        /\ UNCHANGED <<step, answer, cur, down>>
    BY <1>5 DEF Lost, record, calls
  <2>2. LinkInv'
    BY <2>1 DEF LinkInv, Waiting
  <2>3. ASSUME NEW k \in Call, Waiting(k)', answer'[k] = "none"  PROVE link' = "cut"
    BY <2>1, <2>3 DEF LinkInv, Waiting, TypeOK
  <2>4. QED  BY <2>2, <2>3 DEF CallsAnswered, Waiting
<1>6. QED  BY <1>2, <1>3, <1>4, <1>5, ServeAnswers DEF DaemonNext

LEMMA StepAnswers == AnswerInv /\ [Next]_vars => AnswerInv'
<1> SUFFICES ASSUME TypeOK, LinkInv, CallsAnswered, [Next]_vars
             PROVE  LinkInv' /\ CallsAnswered'
  BY StepTypes DEF AnswerInv
<1>1. CASE UNCHANGED vars
  <2>1. UNCHANGED <<step, answer, link, cur, up, down, sub>>
    BY <1>1 DEF vars, record, calls, client, daemon
  <2>2. QED  BY <2>1, NoCallStep
<1>2. CASE KillById
  <2>1. UNCHANGED <<step, answer, link, cur, up, down, sub>>
    BY <1>2 DEF KillById, record, calls, client
  <2>2. QED  BY <2>1, NoCallStep
<1>3. CASE HostCrash
  <2>1. /\ link' = "none" /\ up' = <<>> /\ down' = <<>> /\ sub' = FALSE /\ cur' = NoCall
        /\ \A k \in Call : ~Waiting(k)'
    BY <1>3 DEF HostCrash, Waiting, Active, InFlight, TypeOK
  <2>2. QED  BY <2>1 DEF LinkInv, CallsAnswered, Waiting
<1>4. CASE Dispose
  <2>1. UNCHANGED <<step, answer, link, down, sub>> /\ cur' \in {cur, NoCall}
    BY <1>4 DEF Dispose, calls, daemon
  <2> DEFINE a == IF cur \in exited THEN <<>> ELSE <<"close">>
  <2> DEFINE b == IF cur \in handle /\ callbacks = {cur} THEN <<"unsubscribe">> ELSE <<>>
  <2>2. up' = up \/ (link # "cut" /\ cur # NoCall /\ up' = up \o a \o b)
    BY <1>4 DEF Dispose
  <2>3. up \in Seq(Requests) /\ a \in Seq(Requests) /\ b \in Seq(Requests)
    <3>1. /\ <<>> \in Seq(Requests) /\ <<"close">> \in Seq(Requests)
          /\ <<"unsubscribe">> \in Seq(Requests) /\ up \in Seq(Requests)
      BY DEF Requests, TypeOK
    <3>2. QED  BY <3>1
  <2> HIDE DEF a, b
  <2>4. Elements(up) \subseteq Elements(up')
    <3>1. Elements(up) \subseteq Elements(up \o a \o b)
      BY <2>3, ElementsGrow
    <3>2. QED  BY <2>2, <3>1
  <2>5. link # "up" => up' = up
    BY <2>2 DEF LinkInv, TypeOK
  <2>6. QED  BY <2>1, <2>4, <2>5, NoCallStep
<1>5. ASSUME NEW r \in Renderer, Drop(r)  PROVE LinkInv' /\ CallsAnswered'
  <2>1. UNCHANGED <<step, answer, link, cur, up, down, sub>>
    BY <1>5 DEF Drop, record, calls, client, daemon
  <2>2. QED  BY <2>1, NoCallStep
<1>6. QED
  BY <1>1, <1>2, <1>3, <1>4, <1>5, CallNextAnswers, ClientAnswers, DaemonAnswers DEF Next

\* A call that waits for the daemon has its request or an answer on the way,
\* or its connection is lost and it will be told so: whatever is lost, late or
\* ended, no request waits for an answer that cannot come.
THEOREM NoneWaitsForever == Spec => []CallsAnswered
<1>1. Init => AnswerInv
  <2>1. Init => LinkInv /\ CallsAnswered
    BY DEF Init, LinkInv, CallsAnswered, Waiting
  <2>2. QED  BY <2>1, InitTypes DEF AnswerInv
<1>2. AnswerInv => CallsAnswered
  BY DEF AnswerInv
<1>3. QED  BY <1>1, <1>2, StepAnswers, PTL DEF Spec

-----------------------------------------------------------------------------
(***************************************************************************)
(* No output is lost between the daemon and the renderers.                 *)
(***************************************************************************)
\* A socket is open on both sides, or the server alone takes it for open.
Wired == \A k \in Call : wire[k] = "open" => \E r \in Renderer : at[r] = k

Kept(k, x) ==
    \/ x \in Elements(buffer[k]) \/ x \in lost
    \/ \E r \in Renderer : x \in Elements(shown[r])
Accounted == \A k \in Call : \A x \in heard[k] : Kept(k, x)
OutputInv == TypeOK /\ Wired /\ Accounted

LEMMA CloseWired ==
  ASSUME TypeOK, Wired, NEW J, CloseSockets(J)
  PROVE  Wired'
  BY DEF CloseSockets, Wired, TypeOK

\* What only closes sockets, or writes none, leaves both alone.
LEMMA QuietStep ==
  ASSUME TypeOK, Wired, Accounted,
         UNCHANGED <<buffer, heard, shown, lost>>,
         UNCHANGED <<wire, at>> \/ \E J : CloseSockets(J)
  PROVE  Wired' /\ Accounted'
<1>1. Wired'
  BY CloseWired DEF Wired
<1>2. Accounted'
  BY DEF Accounted, Kept
<1>3. QED  BY <1>1, <1>2

\* The replay of a buffer that is emptied reaches a renderer, or a socket its
\* renderer has left.
LEMMA AttachKeeps ==
  ASSUME TypeOK, Wired, Accounted, NEW k \in Call, NEW c \in Call, Attach(k, c),
         UNCHANGED heard
  PROVE  Wired' /\ Accounted'
<1>1. Wired'
  BY DEF Attach, Wired
<1>2. buffer[c] \in Seq(Chunk) /\ \A r \in Renderer : shown[r] \in Seq(Chunk)
  BY DEF TypeOK
<1>3. \A r \in Renderer : Elements(shown[r]) \subseteq Elements(shown'[r])
  <2>1. \A r \in Renderer : Elements(shown[r] \o buffer[c]) = Elements(shown[r]) \cup Elements(buffer[c])
    BY <1>2, ElementsConcat
  <2>2. QED  BY <2>1 DEF Attach
<1>4. ASSUME NEW x \in Elements(buffer[c])
      PROVE  \/ x \in Elements(buffer'[c]) \/ x \in lost'
             \/ \E r \in Renderer : x \in Elements(shown'[r])
  <2>1. CASE wire[k] \notin {"open", "half"}
    BY <1>4, <2>1 DEF Attach, TypeOK
  <2>2. CASE wire[k] = "half"
    BY <1>4, <2>2 DEF Attach
  <2>3. CASE wire[k] = "open"
    <3>1. PICK r \in Renderer : at[r] = k
      BY <2>3 DEF Wired
    <3>2. shown'[r] = shown[r] \o buffer[c]
      BY <3>1 DEF Attach, Reached
    <3>3. Elements(shown'[r]) = Elements(shown[r]) \cup Elements(buffer[c])
      BY <1>2, <3>2, ElementsConcat
    <3>4. QED  BY <1>4, <3>3
  <2>4. QED  BY <2>1, <2>2, <2>3
<1>5. /\ lost \subseteq lost'
      /\ \A j \in Call : j # c => buffer'[j] = buffer[j]
  BY DEF Attach, TypeOK
<1>6. Accounted'
  BY <1>3, <1>4, <1>5 DEF Accounted, Kept
<1>7. QED  BY <1>1, <1>6

LEMMA RejectKeeps ==
  ASSUME TypeOK, Wired, Accounted, NEW k \in Call, Reject(k), UNCHANGED heard
  PROVE  Wired' /\ Accounted'
  BY QuietStep DEF Reject

LEMMA FallbackKeeps ==
  ASSUME TypeOK, Wired, Accounted, NEW k \in Call, Fallback(k), UNCHANGED heard
  PROVE  Wired' /\ Accounted'
<1>1. CASE cur # NoCall
  BY <1>1, AttachKeeps DEF Fallback, TypeOK
<1>2. CASE cur = NoCall
  BY <1>2, QuietStep DEF Fallback, Awaits, views
<1>3. QED  BY <1>1, <1>2

LEMMA CallNextKeeps ==
  ASSUME TypeOK, Wired, Accounted, NEW k \in Call, CallNext(k)
  PROVE  Wired' /\ Accounted'
<1>1. ASSUME NEW r \in Renderer, Connect(r, k)  PROVE Wired' /\ Accounted'
  <2>1. Wired'
    <3>1. at[r] = NoCall /\ \A j \in Call : j # NoCall
      BY <1>1, CallIsNat DEF Connect
    <3>2. QED  BY <1>1, <3>1 DEF Connect, Wired, TypeOK
  <2>2. Accounted'
    BY <1>1 DEF Connect, Accounted, Kept, record
  <2>3. QED  BY <2>1, <2>2
<1>2. CASE OnOpen(k)
  <2>1. UNCHANGED heard
    BY <1>2 DEF OnOpen
  <2>2. CASE cur # NoCall /\ Attach(k, cur)
    BY <2>1, <2>2, AttachKeeps DEF TypeOK
  <2>3. CASE Awaits(k, "adopt") /\ UNCHANGED views
    BY <2>1, <2>3, QuietStep DEF Awaits, views
  <2>4. CASE Reject(k)
    BY <2>1, <2>4, RejectKeeps
  <2>5. QED  BY <1>2, <2>2, <2>3, <2>4 DEF OnOpen
<1>3. CASE Create(k)
  BY <1>3, QuietStep DEF Create, Awaits, views
<1>4. CASE ClientReady(k)
  BY <1>4, QuietStep DEF ClientReady, Awaits, views
<1>5. CASE ClientFails(k)
  BY <1>5, FallbackKeeps, RejectKeeps DEF ClientFails
<1>6. CASE Continue(k)
  <2>1. UNCHANGED heard
    BY <1>6 DEF Continue
  <2>2. CASE \E b \in BOOLEAN : Register(k, b)
    <3>1. Reject(k) \/ Attach(k, k)
      BY <2>2 DEF Register
    <3>2. QED  BY <2>1, <3>1, RejectKeeps, AttachKeeps
  <2>3. CASE Fallback(k)
    BY <2>1, <2>3, FallbackKeeps
  <2>4. CASE Awaits(k, "relist") /\ UNCHANGED views
    BY <2>1, <2>4, QuietStep DEF Awaits, views
  <2>5. CASE Reject(k)
    BY <2>1, <2>5, RejectKeeps
  <2>6. replay[k] \in BOOLEAN
    BY DEF TypeOK
  <2>7. QED  BY <1>6, <2>2, <2>3, <2>4, <2>5, <2>6 DEF Continue
<1>7. CASE Timeout(k)
  BY <1>7, QuietStep DEF Timeout, record, views
<1>8. CASE OnClose(k)
  <2>1. Wired'
    BY <1>8 DEF OnClose, Wired, TypeOK
  <2>2. Accounted'
    BY <1>8 DEF OnClose, Accounted, Kept
  <2>3. QED  BY <2>1, <2>2
<1>9. QED
  BY <1>1, <1>2, <1>3, <1>4, <1>5, <1>6, <1>7, <1>8 DEF CallNext

\* Output that reaches no socket is kept for the next attach.
LEMMA OutputKeeps ==
  ASSUME TypeOK, Wired, Accounted, OnOutput
  PROVE  Wired' /\ Accounted'
<1> DEFINE bytes == Head(down).bytes
<1>1. bytes \in Seq(Chunk)
  BY FrameTypes DEF OnOutput
<1>2. /\ Broadcast(callbacks, bytes)
      /\ heard' = [k \in Call |-> IF k \in callbacks THEN heard[k] \cup Elements(bytes)
                                  ELSE heard[k]]
      /\ UNCHANGED <<wire, at, socks>>
  BY DEF OnOutput
<1> HIDE DEF bytes
<1>3. Wired'
  BY <1>2 DEF Wired
<1>4. /\ \A r \in Renderer : Elements(shown[r] \o bytes) = Elements(shown[r]) \cup Elements(bytes)
      /\ \A k \in Call : Elements(buffer[k] \o bytes) = Elements(buffer[k]) \cup Elements(bytes)
  BY <1>1, ElementsConcat DEF TypeOK
<1>5. /\ \A r \in Renderer : Elements(shown[r]) \subseteq Elements(shown'[r])
      /\ \A k \in Call : Elements(buffer[k]) \subseteq Elements(buffer'[k])
      /\ lost \subseteq lost'
  BY <1>2, <1>4 DEF Broadcast
<1>6. ASSUME NEW k \in Call, k \in callbacks, NEW x \in Elements(bytes)
      PROVE  Kept(k, x)'
  <2>1. CASE Open(k) = {}
    <3>1. buffer'[k] = buffer[k] \o bytes
      BY <1>2, <1>6, <2>1 DEF Broadcast
    <3>2. QED  BY <1>4, <1>6, <3>1 DEF Kept
  <2>2. CASE \E j \in Open(k) : wire[j] = "half"
    BY <1>2, <1>6, <2>2 DEF Broadcast, Kept
  <2>3. CASE \E j \in Open(k) : wire[j] = "open"
    <3>1. PICK j \in Open(k) : wire[j] = "open"
      BY <2>3
    <3>2. j \in Call
      BY DEF Open, TypeOK
    <3>3. PICK r \in Renderer : at[r] = j
      BY <3>1, <3>2 DEF Wired
    <3>4. shown'[r] = shown[r] \o bytes
      BY <1>2, <1>6, <3>3 DEF Broadcast
    <3>5. QED  BY <1>4, <1>6, <3>4 DEF Kept
  <2>4. \A j \in Open(k) : wire[j] \in {"open", "half"}
    BY DEF Open
  <2>5. QED  BY <2>1, <2>2, <2>3, <2>4
<1>7. ASSUME NEW k \in Call, NEW x \in heard[k]  PROVE Kept(k, x)'
  BY <1>5, <1>7 DEF Accounted, Kept
<1>8. ASSUME NEW k \in Call, NEW x \in heard'[k]  PROVE Kept(k, x)'
  BY <1>2, <1>6, <1>7, <1>8
<1>9. QED  BY <1>3, <1>8 DEF Accounted

LEMMA StepKeeps == OutputInv /\ [Next]_vars => OutputInv'
<1> SUFFICES ASSUME TypeOK, Wired, Accounted, [Next]_vars  PROVE Wired' /\ Accounted'
  BY StepTypes DEF OutputInv
<1>1. CASE UNCHANGED vars
  BY <1>1, QuietStep DEF vars, record, views
<1>2. CASE OnExit \/ OnReply
  BY <1>2, QuietStep DEF OnExit, OnReply, record, views
<1>3. CASE Disconnected
  BY <1>3, QuietStep DEF Disconnected, CloseSession
<1>4. CASE DaemonNext
  BY <1>4, QuietStep
     DEF DaemonNext, Serve, Output, ShellExits, DaemonBack, Lost, record, views
<1>5. CASE Dispose
  BY <1>5, QuietStep DEF Dispose, CloseSession
<1>6. CASE KillById
  BY <1>6, QuietStep DEF KillById, record, views
<1>7. CASE HostCrash
  <2>1. Wired'
    BY <1>7, CloseWired DEF HostCrash
  <2>2. \A k \in Call : heard'[k] = {}
    BY <1>7 DEF HostCrash
  <2>3. QED  BY <2>1, <2>2 DEF Accounted
<1>8. ASSUME NEW r \in Renderer, Drop(r)  PROVE Wired' /\ Accounted'
  <2>1. at[r] \in Call
    BY <1>8 DEF Drop, TypeOK
  <2>2. Wired'
    BY <1>8, <2>1 DEF Drop, Wired, TypeOK
  <2>3. Accounted'
    BY <1>8 DEF Drop, Accounted, Kept, record
  <2>4. QED  BY <2>2, <2>3
<1>9. QED
  BY <1>1, <1>2, <1>3, <1>4, <1>5, <1>6, <1>7, <1>8, CallNextKeeps, OutputKeeps
     DEF Next, ClientNext

\* Output that reached the session in the map was shown, waits for the next
\* attach, or was written to a socket its renderer had left: no chunk falls
\* between the callbacks, the buffer and the sockets.
THEOREM OutputKept == Spec => []OutputAccounted
<1>1. Init => OutputInv
  <2>1. Init => Wired /\ Accounted
    BY DEF Init, Wired, Accounted
  <2>2. QED  BY <2>1, InitTypes DEF OutputInv
<1>2. OutputInv => OutputAccounted
  <2> SUFFICES ASSUME OutputInv, cur # NoCall, NEW x \in heard[cur]
               PROVE  \/ x \in Elements(buffer[cur]) \cup lost
                      \/ \E r \in Renderer : x \in Elements(shown[r])
    BY DEF OutputAccounted
  <2>1. cur \in Call
    BY DEF OutputInv, TypeOK
  <2>2. QED  BY <2>1 DEF OutputInv, Accounted, Kept
<1>3. QED  BY <1>1, <1>2, StepKeeps, PTL DEF Spec

-----------------------------------------------------------------------------
(***************************************************************************)
(* Who is attached is served: the records and the sockets.                 *)
(***************************************************************************)
\* The call may give the map its record.
Pending(k) == Active(k) /\ step[k] # "opened"

\* Calls that did not meet: one of them at most may make a record, and only
\* while the map has none.
Alone ==
    \A k \in Call :
       Pending(k) => cur = NoCall /\ \A j \in Call : Pending(j) => j = k

\* The socket of a transport is open, and its own.
HeldOpen ==
    \A r \in Renderer :
       at[r] # NoCall =>
          wire[at[r]] = "open" /\ viewer[at[r]] = r /\ step[at[r]] # "unused"

Served == \A r \in Renderer : Attached(r) => cur # NoCall /\ at[r] \in socks[cur]

ServedInv == TypeOK /\ HeldOpen /\ (breach = {} => Alone /\ Served)

\* What was breached stays breached.
LEMMA BreachGrows == [Next]_vars => breach \subseteq breach'
  BY DEF Next, CallNext, ClientNext, DaemonNext, Connect, OnOpen, Meets, Create,
         ClientReady, ClientFails, Continue, Timeout, OnClose, OnOutput, OnExit,
         OnReply, Disconnected, Serve, Output, ShellExits, DaemonBack, Lost,
         Dispose, KillById, HostCrash, Drop, vars

LEMMA AttachHeld ==
  ASSUME TypeOK, HeldOpen, NEW k \in Call, NEW c, Attach(k, c)
  PROVE  HeldOpen'
  BY DEF Attach, Ends, HeldOpen, TypeOK

LEMMA RejectHeld ==
  ASSUME TypeOK, HeldOpen, NEW k \in Call, Reject(k)
  PROVE  HeldOpen' /\ \A r \in Renderer : at'[r] # NoCall => at'[r] = at[r] /\ at[r] # k
<1>1. ASSUME NEW r \in Renderer, at'[r] # NoCall
      PROVE  /\ at'[r] = at[r] /\ at[r] # k /\ at[r] \in Call
             /\ wire'[at[r]] = wire[at[r]] /\ step'[at[r]] = step[at[r]]
  <2>1. at'[r] = at[r] /\ at[r] \in Call
    BY <1>1 DEF Reject, CloseSockets, TypeOK
  <2>2. viewer[at[r]] = r /\ viewer[at[r]] # NoRenderer
    BY <1>1, <2>1 DEF HeldOpen
  <2>3. at[r] # k
    BY <1>1, <2>1, <2>2 DEF Reject, CloseSockets
  <2>4. QED  BY <2>1, <2>3 DEF Reject, CloseSockets, Ends, TypeOK
<1>2. QED  BY <1>1 DEF HeldOpen, Reject

\* An attach to the record in the map, or to the one that comes into it.
LEMMA AttachServed ==
  ASSUME TypeOK, HeldOpen, Alone, Served, NEW k \in Call, NEW c \in Call,
         Attach(k, c), cur' = c, cur = c \/ (cur = NoCall /\ Pending(k))
  PROVE  Alone' /\ Served'
<1>1. /\ step' = [step EXCEPT ![k] = "done"] /\ at' = at
      /\ socks' = [socks EXCEPT ![c] = IF wire[k] \in {"open", "half"}
                                       THEN @ \cup {k} ELSE @]
  BY DEF Attach, Ends
<1>2. \A j \in Call : Pending(j)' => Pending(j) /\ j # k
  BY <1>1 DEF Pending, Active, InFlight, TypeOK
<1>3. Alone'
  BY <1>2 DEF Alone
<1>4. ASSUME NEW r \in Renderer, Attached(r)'
      PROVE  cur' # NoCall /\ at'[r] \in socks'[cur']
  <2>1. at[r] \in Call /\ c # NoCall
    BY <1>1, <1>4, CallIsNat DEF Attached, TypeOK
  <2>2. CASE at[r] = k
    <3>1. wire[k] = "open"
      BY <2>1, <2>2, CallIsNat DEF HeldOpen
    <3>2. socks'[c] = socks[c] \cup {k}
      BY <1>1, <3>1 DEF TypeOK
    <3>3. QED  BY <1>1, <2>1, <2>2, <3>2
  <2>3. CASE at[r] # k
    <3>1. Attached(r)
      BY <1>1, <1>4, <2>1, <2>3 DEF Attached, TypeOK
    <3>2. cur = c /\ at[r] \in socks[c]
      BY <3>1 DEF Served
    <3>3. QED  BY <1>1, <2>1, <3>2 DEF TypeOK
  <2>4. QED  BY <2>2, <2>3
<1>5. QED  BY <1>3, <1>4 DEF Served

LEMMA RejectServed ==
  ASSUME TypeOK, HeldOpen, Alone, Served, NEW k \in Call, Reject(k),
         cur' = cur \/ (cur = NoCall /\ Pending(k))
  PROVE  Alone' /\ Served'
<1>1. /\ step' = [step EXCEPT ![k] = "done"] /\ socks' = socks
  BY DEF Reject, Ends
<1>2. \A j \in Call : Pending(j)' => Pending(j) /\ j # k
  BY <1>1 DEF Pending, Active, InFlight, TypeOK
<1>3. Alone'
  BY <1>2 DEF Alone
<1>4. ASSUME NEW r \in Renderer, Attached(r)'
      PROVE  cur' # NoCall /\ at'[r] \in socks'[cur']
  <2>1. at'[r] = at[r] /\ at[r] # k /\ at[r] \in Call
    BY <1>4, RejectHeld DEF Attached, TypeOK
  <2>2. Attached(r)
    BY <1>1, <1>4, <2>1 DEF Attached, TypeOK
  <2>3. QED  BY <1>1, <2>1, <2>2 DEF Served
<1>5. QED  BY <1>3, <1>4 DEF Served

\* A call that goes on waiting, or begins to.
LEMMA AwaitsServed ==
  ASSUME TypeOK, HeldOpen, NEW k \in Call, NEW s \in InFlight \ {"opened"},
         Awaits(k, s), UNCHANGED views, cur' = cur, step[k] # "done"
  PROVE  /\ HeldOpen'
         /\ Alone /\ Served /\ cur = NoCall
              /\ (Pending(k) \/ \A j \in Call \ {k} : ~Pending(j))
            => Alone' /\ Served'
<1>1. /\ step' = [step EXCEPT ![k] = s] /\ s # "unused" /\ s # "done"
      /\ UNCHANGED <<socks, at, wire, viewer, cur>>
  BY DEF Awaits, views, InFlight
<1>2. HeldOpen'
  BY <1>1 DEF HeldOpen, TypeOK
<1>3. \A j \in Call \ {k} : Pending(j)' => Pending(j)
  BY <1>1 DEF Pending, Active, TypeOK
<1>4. Alone /\ cur = NoCall /\ (Pending(k) \/ \A j \in Call \ {k} : ~Pending(j))
      => Alone'
  BY <1>1, <1>3 DEF Alone
<1>5. \A r \in Renderer : Attached(r)' => Attached(r)
  BY <1>1 DEF Attached, TypeOK
<1>6. Served => Served'
  BY <1>1, <1>5 DEF Served
<1>7. QED  BY <1>2, <1>4, <1>6

\* A step that no call and no socket takes part in.
LEMMA UninvolvedServed ==
  ASSUME ServedInv, UNCHANGED <<step, wire, at, viewer, socks, cur>>,
         breach \subseteq breach'
  PROVE  HeldOpen' /\ (breach' = {} => Alone' /\ Served')
  BY DEF ServedInv, HeldOpen, Alone, Pending, Active, Served, Attached

\* The session in the map goes with its sockets.
LEMMA CloseServed ==
  ASSUME ServedInv, CloseSession, cur' = NoCall, UNCHANGED <<step, viewer>>,
         breach \subseteq breach'
  PROVE  HeldOpen' /\ (breach' = {} => Alone' /\ Served')
<1>1. ASSUME NEW r \in Renderer, at'[r] # NoCall
      PROVE  /\ at'[r] = at[r] /\ at[r] \in Call
             /\ at[r] \notin (IF cur = NoCall THEN {} ELSE Open(cur))
             /\ wire'[at[r]] = wire[at[r]]
  <2>1. /\ at[r] \notin (IF cur = NoCall THEN {} ELSE Open(cur))
        /\ at'[r] = at[r] /\ at[r] \in Call
    BY <1>1 DEF ServedInv, TypeOK, CloseSession, CloseSockets
  <2>2. QED  BY <2>1 DEF CloseSession, CloseSockets
<1>2. HeldOpen'
  BY <1>1 DEF ServedInv, HeldOpen
<1>3. ASSUME breach' = {}, NEW r \in Renderer, Attached(r)'  PROVE FALSE
  <2>1. Attached(r)
    BY <1>1, <1>3 DEF Attached
  <2>2. cur # NoCall /\ at[r] \in socks[cur] /\ wire[at[r]] = "open"
    BY <1>3, <2>1 DEF ServedInv, Served, HeldOpen, Attached
  <2>3. QED  BY <1>1, <1>3, <2>2 DEF Open, Attached
<1>4. breach' = {} => Alone'
  BY DEF ServedInv, Alone, Pending, Active
<1>5. QED  BY <1>2, <1>3, <1>4 DEF Served

LEMMA FallbackServed ==
  ASSUME TypeOK, HeldOpen, Alone, Served, NEW k \in Call, Fallback(k), Pending(k)
  PROVE  Alone' /\ Served'
<1>1. cur = NoCall /\ step[k] # "done" /\ "create" \in InFlight \ {"opened"}
  BY DEF Alone, Pending, Active, InFlight
<1>2. Awaits(k, "create") /\ UNCHANGED views /\ cur' = cur
  BY <1>1 DEF Fallback
<1>3. QED  BY <1>1, <1>2, AwaitsServed

LEMMA FallbackHeld ==
  ASSUME TypeOK, HeldOpen, NEW k \in Call, Fallback(k), step[k] # "done"
  PROVE  HeldOpen'
<1>1. CASE cur # NoCall
  BY <1>1, AttachHeld DEF Fallback
<1>2. CASE cur = NoCall
  BY <1>2, AwaitsServed DEF Fallback, InFlight
<1>3. QED  BY <1>1, <1>2

LEMMA RegisterServed ==
  ASSUME TypeOK, HeldOpen, NEW k \in Call, NEW b, Register(k, b), Pending(k)
  PROVE  HeldOpen' /\ (Alone /\ Served => Alone' /\ Served')
<1>1. cur' = k
  BY DEF Register
<1>2. Alone => cur = NoCall
  BY DEF Alone
<1>3. CASE Attach(k, k)
  BY <1>1, <1>2, <1>3, AttachHeld, AttachServed
<1>4. CASE Reject(k)
  BY <1>1, <1>2, <1>4, RejectHeld, RejectServed
<1>5. QED  BY <1>3, <1>4 DEF Register

LEMMA CallNextServed ==
  ASSUME ServedInv, NEW k \in Call, CallNext(k), breach \subseteq breach'
  PROVE  HeldOpen' /\ (breach' = {} => Alone' /\ Served')
<1>0. /\ TypeOK /\ HeldOpen /\ (breach' = {} => Alone /\ Served)
      /\ {"adopt", "create", "adoptlist", "open", "relist"} \subseteq InFlight \ {"opened"}
  BY DEF ServedInv, InFlight
<1>1. ASSUME NEW r \in Renderer, Connect(r, k)
      PROVE  HeldOpen' /\ (breach' = {} => Alone' /\ Served')
  <2>1. /\ at' = [at EXCEPT ![r] = k] /\ step' = [step EXCEPT ![k] = "opened"]
        /\ viewer' = [viewer EXCEPT ![k] = r] /\ wire' = [wire EXCEPT ![k] = "open"]
        /\ UNCHANGED <<cur, socks>> /\ step[k] = "unused" /\ k # NoCall
    BY <1>1, CallIsNat DEF Connect, record, Fresh
  <2>2. \A q \in Renderer \ {r} : at'[q] = at[q] /\ at[q] # k
    BY <1>0, <2>1 DEF HeldOpen, TypeOK
  <2>3. \A q \in Renderer \ {r} : at[q] # NoCall =>
           /\ wire'[at[q]] = wire[at[q]] /\ viewer'[at[q]] = viewer[at[q]]
           /\ step'[at[q]] = step[at[q]]
    BY <1>0, <2>1, <2>2 DEF TypeOK
  <2>4. at'[r] = k /\ wire'[k] = "open" /\ viewer'[k] = r /\ step'[k] = "opened"
    BY <1>0, <2>1 DEF TypeOK
  <2>5. HeldOpen'
    BY <1>0, <2>2, <2>3, <2>4 DEF HeldOpen
  <2>6. \A q \in Renderer : Attached(q)' => Attached(q) /\ at'[q] = at[q]
    BY <2>2, <2>3, <2>4 DEF Attached
  <2>7. \A j \in Call : Pending(j)' => Pending(j)
    BY <1>0, <2>1 DEF Pending, Active, TypeOK
  <2>8. Served => Served'
    BY <2>1, <2>6 DEF Served
  <2>9. Alone => Alone'
    BY <2>1, <2>7 DEF Alone
  <2>10. QED  BY <1>0, <2>5, <2>8, <2>9
<1>2. CASE OnOpen(k)
  <2>1. cur' = cur /\ step[k] = "opened"
    BY <1>2 DEF OnOpen
  <2>2. CASE cur # NoCall /\ Attach(k, cur)
    BY <1>0, <2>1, <2>2, AttachHeld, AttachServed DEF TypeOK
  <2>3. CASE cur = NoCall /\ Awaits(k, "adopt") /\ Meets(k) /\ UNCHANGED views
    <3>1. breach' = {} => \A j \in Call \ {k} : ~Pending(j)
      BY <2>3 DEF Meets, CalmBut, Pending
    <3>2. QED  BY <1>0, <2>1, <2>3, <3>1, AwaitsServed
  <2>4. CASE Reject(k)
    BY <1>0, <2>1, <2>4, RejectHeld, RejectServed
  <2>5. QED  BY <1>2, <2>2, <2>3, <2>4 DEF OnOpen
<1>3. CASE Create(k)
  <2>1. cur' = cur /\ step[k] = "unused" /\ UNCHANGED views
    BY <1>3 DEF Create, Fresh
  <2>2. CASE Ends(k) /\ UNCHANGED socks
    <3>1. step' = [step EXCEPT ![k] = "done"] /\ UNCHANGED <<at, wire, viewer, socks>>
      BY <2>1, <2>2 DEF Ends, views
    <3>2. HeldOpen'
      BY <1>0, <3>1 DEF HeldOpen, TypeOK
    <3>3. \A r \in Renderer : Attached(r)' => Attached(r)
      BY <1>0, <2>1, <3>1 DEF HeldOpen, Attached, TypeOK
    <3>4. \A j \in Call : Pending(j)' => Pending(j)
      BY <1>0, <3>1 DEF Pending, Active, InFlight, TypeOK
    <3>5. Served => Served'
      BY <2>1, <3>1, <3>3 DEF Served
    <3>6. Alone => Alone'
      BY <2>1, <3>4 DEF Alone
    <3>7. QED  BY <1>0, <3>2, <3>5, <3>6
  <2>3. CASE cur = NoCall /\ Awaits(k, "create") /\ Meets(k)
    <3>1. breach' = {} => \A j \in Call \ {k} : ~Pending(j)
      BY <2>3 DEF Meets, CalmBut, Pending
    <3>2. QED  BY <1>0, <2>1, <2>3, <3>1, AwaitsServed
  <2>4. QED  BY <1>3, <2>2, <2>3 DEF Create
<1>4. CASE ClientReady(k)
  <2>1. /\ cur' = cur /\ UNCHANGED views /\ Pending(k) /\ step[k] # "done"
        /\ Awaits(k, "adoptlist") \/ Awaits(k, "open")
    BY <1>4 DEF ClientReady, AwaitsClient, Pending, Active, InFlight
  <2>2. Alone => cur = NoCall
    BY <2>1 DEF Alone
  <2>3. QED  BY <1>0, <2>1, <2>2, AwaitsServed
<1>5. CASE ClientFails(k)
  <2>1. Pending(k) /\ step[k] # "done"
    BY <1>5 DEF ClientFails, AwaitsClient, Pending, Active, InFlight
  <2>2. CASE Fallback(k)
    BY <1>0, <2>1, <2>2, FallbackHeld, FallbackServed
  <2>3. CASE Reject(k) /\ UNCHANGED cur
    BY <1>0, <2>3, RejectHeld, RejectServed
  <2>4. QED  BY <1>5, <2>2, <2>3 DEF ClientFails
<1>6. CASE Continue(k)
  <2>1. Pending(k) /\ step[k] # "done"
    BY <1>6 DEF Continue, Pending, Active, InFlight
  <2>2. ASSUME NEW b, Register(k, b)
        PROVE  HeldOpen' /\ (breach' = {} => Alone' /\ Served')
    BY <1>0, <2>1, <2>2, RegisterServed
  <2>3. CASE Fallback(k)
    BY <1>0, <2>1, <2>3, FallbackHeld, FallbackServed
  <2>4. CASE Awaits(k, "relist") /\ UNCHANGED <<cur, views>>
    <3>1. Alone => cur = NoCall
      BY <2>1 DEF Alone
    <3>2. QED  BY <1>0, <2>1, <2>4, <3>1, AwaitsServed
  <2>5. CASE Reject(k) /\ UNCHANGED cur
    BY <1>0, <2>5, RejectHeld, RejectServed
  <2>6. QED  BY <1>6, <2>2, <2>3, <2>4, <2>5 DEF Continue
<1>7. CASE Timeout(k)
  BY <1>7, UninvolvedServed DEF Timeout, record, views
<1>8. CASE OnClose(k)
  <2>1. /\ wire[k] = "half" /\ wire' = [wire EXCEPT ![k] = "closed"]
        /\ socks' = [c \in Call |-> IF c = cur THEN socks[c] \ {k} ELSE socks[c]]
        /\ UNCHANGED <<step, viewer, at, cur>>
    BY <1>8 DEF OnClose, calls
  <2>2. \A r \in Renderer : at[r] # NoCall => at[r] # k /\ wire'[at[r]] = wire[at[r]]
    BY <1>0, <2>1 DEF HeldOpen, TypeOK
  <2>3. HeldOpen'
    BY <1>0, <2>1, <2>2 DEF HeldOpen
  <2>4. Alone => Alone'
    BY <2>1 DEF Alone, Pending, Active
  <2>5. Served => Served'
    BY <1>0, <2>1, <2>2 DEF Served, Attached, TypeOK
  <2>6. QED  BY <1>0, <2>3, <2>4, <2>5
<1>9. QED
  BY <1>1, <1>2, <1>3, <1>4, <1>5, <1>6, <1>7, <1>8 DEF CallNext

LEMMA StepServed == ServedInv /\ [Next]_vars => ServedInv'
<1>1. SUFFICES ASSUME ServedInv, [Next]_vars
               PROVE  HeldOpen' /\ (breach' = {} => Alone' /\ Served')
  BY StepTypes DEF ServedInv
<1>2. breach \subseteq breach' /\ TypeOK /\ HeldOpen /\ (breach' = {} => Alone /\ Served)
  BY <1>1, BreachGrows DEF ServedInv
<1>3. CASE UNCHANGED vars
  BY <1>1, <1>2, <1>3, UninvolvedServed DEF vars, record, calls, views
<1>4. CASE OnOutput \/ OnExit \/ OnReply
  BY <1>1, <1>2, <1>4, UninvolvedServed
     DEF OnOutput, OnExit, OnReply, Broadcast, record, calls, views
<1>5. CASE Disconnected
  BY <1>1, <1>2, <1>5, CloseServed DEF Disconnected
<1>6. CASE DaemonNext
  BY <1>1, <1>2, <1>6, UninvolvedServed
     DEF DaemonNext, Serve, Output, ShellExits, DaemonBack, Lost, record, calls, views
<1>7. CASE Dispose
  <2>1. CASE cur = NoCall
    BY <1>1, <1>2, <1>7, <2>1, UninvolvedServed DEF Dispose, calls
  <2>2. CASE cur # NoCall
    BY <1>1, <1>2, <1>7, <2>2, CloseServed DEF Dispose, calls
  <2>3. QED  BY <2>1, <2>2
<1>8. CASE KillById
  BY <1>1, <1>2, <1>8, UninvolvedServed DEF KillById, record, calls, views
<1>9. CASE HostCrash
  <2>1. \A r \in Renderer : at'[r] = NoCall
    BY <1>2, <1>9 DEF HostCrash, CloseSockets, HeldOpen, TypeOK
  <2>2. \A j \in Call : ~Pending(j)'
    BY <1>2, <1>9 DEF HostCrash, Pending, Active, InFlight, TypeOK
  <2>3. QED  BY <2>1, <2>2 DEF HeldOpen, Alone, Served, Attached
<1>10. ASSUME NEW r \in Renderer, Drop(r)
       PROVE  HeldOpen' /\ (breach' = {} => Alone' /\ Served')
  <2>1. /\ at[r] # NoCall /\ at' = [at EXCEPT ![r] = NoCall]
        /\ wire' = [wire EXCEPT ![at[r]] = "half"]
        /\ UNCHANGED <<step, viewer, socks, cur>>
    BY <1>10 DEF Drop, record, calls
  <2>2. \A q \in Renderer : at'[q] # NoCall =>
           at'[q] = at[q] /\ at[q] # at[r] /\ wire'[at[q]] = wire[at[q]]
    BY <1>2, <2>1 DEF HeldOpen, TypeOK
  <2>3. HeldOpen'
    BY <1>2, <2>1, <2>2 DEF HeldOpen
  <2>4. Served => Served'
    BY <2>1, <2>2 DEF Served, Attached
  <2>5. Alone => Alone'
    BY <2>1 DEF Alone, Pending, Active
  <2>6. QED  BY <1>2, <2>3, <2>4, <2>5
<1>11. QED
  BY <1>1, <1>2, <1>3, <1>4, <1>5, <1>6, <1>7, <1>8, <1>9, <1>10, CallNextServed
     DEF Next, ClientNext

LEMMA ServedInvariance == Spec => []ServedInv
<1>1. Init => ServedInv
  <2>1. Init => HeldOpen /\ Alone /\ Served
    BY DEF Init, HeldOpen, Alone, Pending, Active, InFlight, Served, Attached
  <2>2. QED  BY <2>1, InitTypes DEF ServedInv
<1>2. QED  BY <1>1, StepServed, PTL DEF Spec

\* While calls did not meet, every renderer that believes it is attached has
\* its socket among those of the session in the map, through reconnects,
\* disposals, lost connections and crashes of either side.
THEOREM NoneTalksToNobody == Spec => []AttachedIsServed
<1>1. ServedInv => AttachedIsServed
  BY DEF ServedInv, Served, AttachedIsServed
<1>2. QED  BY <1>1, ServedInvariance, PTL

-----------------------------------------------------------------------------
(***************************************************************************)
(* The record follows the shell.  While calls do not meet and nothing is   *)
(* late or left, requests and frames come in a few shapes only.            *)
(***************************************************************************)
\* Every frame of s is of a type in B; s ends with one in T after such frames.
All(s, B) == \A i \in DOMAIN s : s[i].t \in B
Ending(s, T, B) ==
    /\ s # <<>> /\ s[Len(s)].t \in T
    /\ \A i \in 1..(Len(s) - 1) : s[i].t \in B

LEMMA AllEmpty == \A B : All(<<>>, B)
  BY DEF All

LEMMA AllWeaken ==
  ASSUME NEW s, NEW B, NEW C, B \subseteq C, All(s, B)
  PROVE  All(s, C)
  BY DEF All

LEMMA AllElements ==
  ASSUME NEW s, NEW B, NEW C, All(s, B), \A f \in Elements(s) : f.t \notin C
  PROVE  All(s, B \ C)
  BY DEF All, Elements

LEMMA AllAppend ==
  ASSUME NEW S, NEW s \in Seq(S), NEW x \in S, NEW B, All(s, B)
  PROVE  /\ x.t \in B => All(Append(s, x), B)
         /\ \A T : x.t \in T => Ending(Append(s, x), T, B)
<1>1. /\ Len(s) \in Nat /\ Len(Append(s, x)) = Len(s) + 1
      /\ DOMAIN s = 1..Len(s) /\ DOMAIN Append(s, x) = 1..(Len(s) + 1)
      /\ Append(s, x)[Len(s) + 1] = x
      /\ \A i \in 1..Len(s) : Append(s, x)[i] = s[i]
      /\ Append(s, x) # <<>>
  OBVIOUS
<1> DEFINE a == Append(s, x)
<1> HIDE DEF a
<1>2. x.t \in B => All(a, B)
  BY <1>1 DEF All, a
<1>3. ASSUME NEW T, x.t \in T  PROVE Ending(a, T, B)
  BY <1>1, <1>3 DEF All, Ending, a
<1>4. QED  BY <1>2, <1>3 DEF a

LEMMA TailParts ==
  ASSUME NEW S, NEW s \in Seq(S), s # <<>>
  PROVE  /\ Len(s) \in Nat \ {0} /\ Len(Tail(s)) = Len(s) - 1
         /\ DOMAIN s = 1..Len(s) /\ DOMAIN Tail(s) = 1..(Len(s) - 1)
         /\ \A i \in 1..(Len(s) - 1) : Tail(s)[i] = s[i + 1]
         /\ Head(s) = s[1] /\ (Len(s) = 1 <=> Tail(s) = <<>>)
<1>1. /\ Tail(s) \in Seq(S) /\ Len(s) \in Nat \ {0} /\ Len(Tail(s)) = Len(s) - 1
      /\ \A i \in 1..Len(Tail(s)) : Tail(s)[i] = s[i + 1]
      /\ DOMAIN s = 1..Len(s) /\ DOMAIN Tail(s) = 1..Len(Tail(s))
      /\ Head(s) = s[1]
  BY HeadTailProperties, EmptySeq, LenProperties
<1>2. Len(Tail(s)) = 0 <=> Tail(s) = <<>>
  BY <1>1, EmptySeq
<1>3. QED  BY <1>1, <1>2

LEMMA AllTail ==
  ASSUME NEW S, NEW s \in Seq(S), s # <<>>, NEW B, All(s, B)
  PROVE  Head(s).t \in B /\ All(Tail(s), B)
<1> DEFINE b == Tail(s)
<1>1. /\ Len(s) \in Nat \ {0} /\ Len(b) = Len(s) - 1
      /\ DOMAIN s = 1..Len(s) /\ DOMAIN b = 1..(Len(s) - 1)
      /\ \A i \in 1..(Len(s) - 1) : b[i] = s[i + 1]
      /\ Head(s) = s[1] /\ (Len(s) = 1 <=> b = <<>>)
  BY TailParts
<1> HIDE DEF b
<1>2. ASSUME NEW j \in 1..(Len(s) - 1)  PROVE b[j].t \in B
  <2>1. j + 1 \in DOMAIN s /\ b[j] = s[j + 1]
    BY <1>1, <1>2
  <2>2. QED  BY <2>1 DEF All
<1>3. Head(s).t \in B
  BY <1>1 DEF All
<1>4. QED  BY <1>1, <1>2, <1>3 DEF All, b

LEMMA EndingTail ==
  ASSUME NEW S, NEW s \in Seq(S), NEW T, NEW B, T \cap B = {}, Ending(s, T, B)
  PROVE  /\ Head(s).t \in T => Tail(s) = <<>>
         /\ Head(s).t \notin T => Head(s).t \in B /\ Ending(Tail(s), T, B)
<1> DEFINE b == Tail(s)
           n == Len(s)
<1>1. /\ n \in Nat \ {0} /\ Len(b) = n - 1
      /\ DOMAIN s = 1..n /\ DOMAIN b = 1..(n - 1)
      /\ \A i \in 1..(n - 1) : b[i] = s[i + 1]
      /\ Head(s) = s[1] /\ (n = 1 <=> b = <<>>)
  BY TailParts DEF Ending
<1>2. s[n].t \in T /\ \A i \in 1..(n - 1) : s[i].t \in B
  BY DEF Ending
<1> HIDE DEF b, n
<1>3. CASE n = 1
  BY <1>1, <1>2, <1>3 DEF b
<1>4. CASE n # 1
  <2>1. n - 1 \in 1..(n - 1) /\ (n - 1) + 1 = n /\ 1 \in 1..(n - 1)
    BY <1>1, <1>4
  <2>2. Head(s).t \in B /\ Head(s).t \notin T /\ b # <<>>
    BY <1>1, <1>2, <1>4, <2>1
  <2>3. b[n - 1] = s[n]
    BY <1>1, <2>1
  <2>4. \A i \in 1..((n - 1) - 1) : i \in 1..(n - 1) /\ i + 1 \in 1..(n - 1)
    BY <1>1
  <2>5. \A i \in 1..((n - 1) - 1) : b[i].t \in B
    BY <1>1, <1>2, <2>4
  <2>6. Ending(b, T, B)
    BY <1>1, <1>2, <2>2, <2>3, <2>5 DEF Ending
  <2>7. QED  BY <2>2, <2>6 DEF b
<1>5. QED  BY <1>3, <1>4

LEMMA ConcatOne ==
  ASSUME NEW S, NEW s \in Seq(S), NEW q \in S
  PROVE  s \o <<q>> = Append(s, q)
<1> DEFINE t == <<q>>
<1>1. t \in Seq(S) /\ Len(t) = 1 /\ t[1] = q
  OBVIOUS
<1>2. /\ Append(s, q) \in Seq(S) /\ Len(Append(s, q)) = Len(s) + 1 /\ Len(s) \in Nat
      /\ Append(s, q)[Len(s) + 1] = q
      /\ \A i \in 1..Len(s) : Append(s, q)[i] = s[i]
  OBVIOUS
<1> DEFINE a == Append(s, q)
           b == s \o t
<1> HIDE DEF t
<1>3. /\ b \in Seq(S) /\ Len(b) = Len(s) + 1
      /\ \A i \in 1..(Len(s) + 1) : b[i] = IF i <= Len(s) THEN s[i] ELSE t[i - Len(s)]
  <2>1. /\ b \in Seq(S) /\ Len(b) = Len(s) + Len(t)
        /\ \A i \in 1..(Len(s) + Len(t)) :
              b[i] = IF i <= Len(s) THEN s[i] ELSE t[i - Len(s)]
    BY <1>1, ConcatProperties, Zenon
  <2>2. Len(s) + Len(t) = Len(s) + 1
    BY <1>1
  <2> QED
    BY <2>1, <2>2
<1> HIDE DEF a, b
<1>4. \A i \in 1..(Len(s) + 1) : i <= Len(s) \/ i = Len(s) + 1
  BY <1>2
<1>5. \A i \in 1..Len(b) : b[i] = a[i]
  BY <1>1, <1>2, <1>3, <1>4 DEF a
<1>6. b = a
  BY <1>2, <1>3, <1>5, SeqEqual DEF a
<1>7. QED  BY <1>6 DEF a, b, t

LEMMA AppendShort ==
  ASSUME NEW p, NEW q, NEW r
  PROVE  /\ Append(<<>>, q) = <<q>>
         /\ Append(<<p>>, q) = <<p, q>>
         /\ Append(<<p, q>>, r) = <<p, q, r>>
<1>1. Append(<<>>, q) = <<q>>
  OBVIOUS
<1> DEFINE S == {p, q, r}
<1>2. Append(<<p>>, q) = <<p, q>>
  <2> DEFINE a == Append(<<p>>, q)
             b == <<p, q>>
  <2>1. <<p>> \in Seq(S) /\ q \in S /\ Len(<<p>>) = 1
    OBVIOUS
  <2>2. a \in Seq(S) /\ Len(a) = 2 /\ a[1] = p /\ a[2] = q
    BY <2>1
  <2>3. b \in Seq(S) /\ Len(b) = 2 /\ b[1] = p /\ b[2] = q
    OBVIOUS
  <2> HIDE DEF a, b, S
  <2>4. \A i \in 1..Len(a) : a[i] = b[i]
    BY <2>2, <2>3
  <2>5. a = b
    BY <2>2, <2>3, <2>4, SeqEqual
  <2>6. QED  BY <2>5 DEF a, b
<1>3. Append(<<p, q>>, r) = <<p, q, r>>
  <2> DEFINE a == Append(<<p, q>>, r)
             b == <<p, q, r>>
  <2>1. <<p, q>> \in Seq(S) /\ r \in S /\ Len(<<p, q>>) = 2
    OBVIOUS
  <2>2. a \in Seq(S) /\ Len(a) = 3 /\ a[1] = p /\ a[2] = q /\ a[3] = r
    BY <2>1
  <2>3. b \in Seq(S) /\ Len(b) = 3 /\ b[1] = p /\ b[2] = q /\ b[3] = r
    OBVIOUS
  <2> HIDE DEF a, b, S
  <2>4. \A i \in 1..Len(a) : a[i] = b[i]
    BY <2>2, <2>3
  <2>5. a = b
    BY <2>2, <2>3, <2>4, SeqEqual
  <2>6. QED  BY <2>5 DEF a, b
<1>4. QED  BY <1>1, <1>2, <1>3

LEMMA TakeShort ==
  ASSUME NEW p, NEW q, NEW r
  PROVE  /\ <<q>> # <<>> /\ Head(<<q>>) = q /\ Tail(<<q>>) = <<>>
         /\ <<p, q>> # <<>> /\ Head(<<p, q>>) = p /\ Tail(<<p, q>>) = <<q>>
         /\ <<p, q, r>> # <<>> /\ Head(<<p, q, r>>) = p
         /\ Tail(<<p, q, r>>) = <<q, r>>
         /\ <<q>> # <<p, q>>
  OBVIOUS

\* The shapes of the requests on the connection.
Follow == {<<"follow">>, <<"replay">>}
Leaving == {<<>>, <<"unsubscribe">>}
Closing == {<<"close", "unsubscribe">>, <<"follow", "close", "unsubscribe">>,
            <<"replay", "close", "unsubscribe">>}

LEMMA Shapes ==
  /\ \A u \in Leaving : "close" \notin Elements(u)
  /\ \A u \in Closing : "close" \in Elements(u) /\ u # <<>>
  /\ \A u \in Follow : u # <<>> /\ Head(u) \in {"follow", "replay"} /\ Tail(u) = <<>>
  /\ \A u \in Closing :
        \/ Head(u) = "close" /\ Tail(u) = <<"unsubscribe">>
        \/ Head(u) \in {"follow", "replay"} /\ Tail(u) = <<"close", "unsubscribe">>
<1>1. \A u \in Leaving : "close" \notin Elements(u)
  BY DEF Leaving, Elements
<1>2. \A u \in Closing : "close" \in Elements(u) /\ u # <<>>
  <2>1. \A u \in Closing : u # <<>> /\ (u[1] = "close" \/ u[2] = "close")
                           /\ 1 \in DOMAIN u /\ 2 \in DOMAIN u
    BY DEF Closing
  <2>2. QED  BY <2>1 DEF Elements
<1>3. \A u \in Follow : u # <<>> /\ Head(u) \in {"follow", "replay"} /\ Tail(u) = <<>>
  <2>1. SUFFICES ASSUME NEW f \in {"follow", "replay"}, NEW u, u = <<f>>
                 PROVE  u # <<>> /\ Head(u) = f /\ Tail(u) = <<>>
    BY DEF Follow
  <2>2. QED  BY <2>1, TakeShort
<1>4. ASSUME NEW u \in Closing
      PROVE  \/ Head(u) = "close" /\ Tail(u) = <<"unsubscribe">>
             \/ Head(u) \in {"follow", "replay"} /\ Tail(u) = <<"close", "unsubscribe">>
  <2>1. CASE u = <<"close", "unsubscribe">>
    BY <2>1, TakeShort
  <2>2. ASSUME NEW f \in {"follow", "replay"}, u = <<f, "close", "unsubscribe">>
        PROVE  Head(u) = f /\ Tail(u) = <<"close", "unsubscribe">>
    BY <2>2, TakeShort
  <2>3. QED  BY <2>1, <2>2 DEF Closing
<1>5. QED  BY <1>1, <1>2, <1>3, <1>4

\* The requests and the answers of a call that waits.
Request(k) == IF step[k] = "open" THEN "open" ELSE "list"
Replies(k) == IF step[k] = "open" THEN {"open-ok", "exists", "error"}
              ELSE {"alive", "absent"}
Passing == {"output", "exit"}
Spent == Passing \cup {"closed", "error"}
Quiet == up = <<>> /\ ~sub

\* The phases of the session in the map: its subscription is on its way, it
\* follows its shell, the exit of the shell is on its way, the connection is
\* lost, or it was told of the exit.
Beginning == link = "up" /\ up \in Follow /\ ~sub /\ down = <<>>
Following == link = "up" /\ up = <<>> /\ sub /\ pty # 0 /\ All(down, {"output"})
ExitComes == Quiet /\ pty = 0 /\ Ending(down, {"exit"}, {"output"})
CutLoose == Quiet /\ link = "cut" /\ All(down, {"output"})
Over == Quiet /\ pty = 0 /\ down = <<>>
Phase == IF cur \in exited THEN Over
         ELSE Beginning \/ Following \/ ExitComes \/ CutLoose
Running == cur # NoCall => callbacks = {cur} /\ cur \in handle /\ Phase

\* Without a session and a call, the requests and the frames of the last one.
Idle ==
    /\ callbacks = {} /\ up \in Leaving \cup Closing
    /\ All(down, Spent)
    /\ sub => up # <<>>
Resting == cur = NoCall /\ (\A k \in Call : ~Pending(k)) => Idle

\* The phases of a call: it awaits the client, its request is on its way, or
\* the answer, or the connection is lost, or it has its answer.
Before(k) ==
    /\ AwaitsClient(k) /\ up \in Leaving
    /\ All(down, Passing)
    /\ sub => up # <<>>
Asked(k) ==
    /\ Waiting(k) /\ answer[k] = "none" /\ link = "up"
    /\ \/ up = <<Request(k)>> /\ ~sub
       \/ up = <<"unsubscribe", Request(k)>>
    /\ All(down, Passing)
Replied(k) ==
    /\ Waiting(k) /\ answer[k] = "none" /\ link # "none" /\ Quiet
    /\ Ending(down, Replies(k), Passing)
CutOff(k) ==
    /\ Waiting(k) /\ answer[k] = "none" /\ link = "cut" /\ Quiet
    /\ All(down, Passing)
Told(k) == Waiting(k) /\ answer[k] # "none" /\ Quiet /\ down = <<>>
Goes(k) == Before(k) \/ Asked(k) \/ Replied(k) \/ CutOff(k) \/ Told(k)
Calling ==
    \A k \in Call :
       Pending(k) =>
          /\ callbacks = {} /\ ~kill /\ ~doomed
          /\ Goes(k)

\* A shell outlives the terminal only while it is told to end, or while the
\* call that opened it is about to learn so.
Opened(k) ==
    /\ step[k] = "open"
    /\ \/ answer[k] = "open-ok"
       \/ answer[k] = "none" /\ \E f \in Elements(down) : f.t = "open-ok"
Ended ==
    row # "active" =>
       \/ pty = 0 \/ doomed \/ kill \/ "close" \in Elements(up)
       \/ \E k \in Call : Opened(k)
Known == \A k \in Call : k \in exited \/ k = cur => step[k] = "done"

Orderly == Running /\ Resting /\ Calling /\ Ended /\ Known

LEMMA EndingAll ==
  ASSUME NEW S, NEW s \in Seq(S), NEW T, NEW B, Ending(s, T, B)
  PROVE  All(s, T \cup B)
<1> DEFINE n == Len(s)
<1>1. n \in Nat /\ DOMAIN s = 1..n /\ s[n].t \in T /\ \A i \in 1..(n - 1) : s[i].t \in B
  BY LenProperties DEF Ending
<1> HIDE DEF n
<1>2. \A i \in 1..n : i = n \/ i \in 1..(n - 1)
  BY <1>1
<1>3. QED  BY <1>1, <1>2 DEF All

\* What the first frame says of the others, once it is handled.
LEMMA DownTail ==
  ASSUME TypeOK, down # <<>>, down' = Tail(down)
  PROVE  /\ \A B : All(down, B) => Head(down).t \in B /\ All(down', B)
         /\ \A T, B : T \cap B = {} /\ Ending(down, T, B) =>
               \/ Head(down).t \in T /\ down' = <<>>
               \/ Head(down).t \in B /\ Head(down).t \notin T /\ Ending(down', T, B)
<1> DEFINE F == [t : Frames, bytes : Seq(Chunk)]
<1>1. down \in Seq(F)
  BY DEF TypeOK
<1> HIDE DEF F
<1>2. ASSUME NEW B, All(down, B)  PROVE Head(down).t \in B /\ All(down', B)
  BY <1>1, <1>2, AllTail
<1>3. ASSUME NEW T, NEW B, T \cap B = {}, Ending(down, T, B)
      PROVE  \/ Head(down).t \in T /\ down' = <<>>
             \/ Head(down).t \in B /\ Head(down).t \notin T /\ Ending(down', T, B)
  BY <1>1, <1>3, EndingTail
<1>4. QED  BY <1>2, <1>3

LEMMA DownAppend ==
  ASSUME TypeOK, NEW t \in Frames, NEW b \in Seq(Chunk), down' = Append(down, Frame(t, b))
  PROVE  \A B : All(down, B) =>
            /\ t \in B => All(down', B)
            /\ \A T : t \in T => Ending(down', T, B)
<1> DEFINE F == [t : Frames, bytes : Seq(Chunk)]
           f == Frame(t, b)
<1>1. down \in Seq(F) /\ f \in F /\ f.t = t
  BY DEF TypeOK, Frame
<1> HIDE DEF F, f
<1>2. down' = Append(down, f)
  BY DEF f
<1>3. QED  BY <1>1, <1>2, AllAppend

LEMMA PendingIs == \A k \in Call : Pending(k) <=> AwaitsClient(k) \/ Waiting(k)
  BY DEF Pending, Active, InFlight, AwaitsClient, Waiting

\* A step that leaves the session, the shell and the connection alone.
LEMMA Unmoved ==
  ASSUME TypeOK, Orderly,
         UNCHANGED <<row, cur, exited, handle, callbacks, kill, link, up, down, pty,
                     doomed, sub>>,
         \A k \in Call :
            \/ step'[k] = step[k] /\ answer'[k] = answer[k]
            \/ ~Pending(k) /\ ~Pending(k)' /\ (step[k] = "done" => step'[k] = "done")
  PROVE  Orderly'
<1>1. \A k \in Call : Pending(k)' => step'[k] = step[k] /\ answer'[k] = answer[k]
  OBVIOUS
<1>2. \A k \in Call : Pending(k) <=> Pending(k)'
  BY DEF Pending, Active
<1>3. Running' /\ Known'
  BY DEF Orderly, Running, Phase, Beginning, Following, ExitComes, CutLoose, Over, Quiet,
         Known
<1>4. Resting'
  BY <1>2 DEF Orderly, Resting, Idle
<1>5. Calling'
  BY <1>1, <1>2 DEF Orderly, Calling, Goes, Before, Asked, Replied, CutOff, Told, Quiet,
         AwaitsClient, Waiting, Request, Replies
<1>6. Ended'
  <2>1. \A k \in Call : Opened(k) => Pending(k)
    BY PendingIs DEF Opened, Waiting
  <2>2. \A k \in Call : Opened(k) => Opened(k)'
    BY <1>1, <1>2, <2>1 DEF Opened
  <2>3. QED  BY <2>2 DEF Orderly, Ended
<1>7. QED  BY <1>3, <1>4, <1>5, <1>6 DEF Orderly

\* The call under way: the map has no session and no other call is.
LEMMA OnlyCall ==
  ASSUME Alone, Orderly, NEW k \in Call, Pending(k)
  PROVE  /\ cur = NoCall /\ callbacks = {} /\ ~kill /\ ~doomed /\ Goes(k)
         /\ k \notin exited /\ step[k] # "done"
         /\ \A j \in Call \ {k} : ~Pending(j)
         /\ \A j \in Call \ {k} : ~Opened(j)
<1>1. /\ cur = NoCall /\ callbacks = {} /\ ~kill /\ ~doomed /\ Goes(k)
      /\ \A j \in Call \ {k} : ~Pending(j)
  BY DEF Alone, Orderly, Calling
<1>2. step[k] # "done"
  BY DEF Pending, Active, InFlight
<1>3. \A j \in Call : Opened(j) => Pending(j)
  BY PendingIs DEF Opened, Waiting
<1>4. QED  BY <1>1, <1>2, <1>3 DEF Orderly, Known

LEMMA GoesOn ==
  ASSUME TypeOK, Alone, Orderly, NEW k \in Call, Pending(k), ~Opened(k), OthersStay(k),
         Pending(k)', Goes(k)',
         UNCHANGED <<row, cur, exited, callbacks, kill, doomed, pty>>,
         Elements(up) \subseteq Elements(up')
  PROVE  Orderly'
<1>1. /\ cur = NoCall /\ callbacks = {} /\ ~kill /\ ~doomed /\ k \notin exited
      /\ \A j \in Call \ {k} : ~Pending(j)
      /\ \A j \in Call : ~Opened(j)
  BY OnlyCall
<1>2. \A j \in Call \ {k} : ~Pending(j)'
  BY <1>1 DEF OthersStay, Pending, Active
<1>3. Running' /\ Resting' /\ Calling'
  BY <1>1, <1>2 DEF Running, Resting, Calling
<1>4. Ended'
  BY <1>1 DEF Orderly, Ended
<1>5. Known'
  BY <1>1, CallIsNat DEF Orderly, Known, OthersStay
<1>6. QED  BY <1>3, <1>4, <1>5 DEF Orderly

\* The call ends without a session.
LEMMA Stops ==
  ASSUME TypeOK, Alone, Orderly, NEW k \in Call, Pending(k), ~Opened(k), Ends(k), Idle',
         UNCHANGED <<row, cur, exited, callbacks, kill, doomed, pty, up>>
  PROVE  Orderly'
<1>1. /\ cur = NoCall /\ callbacks = {} /\ k \notin exited
      /\ \A j \in Call \ {k} : ~Pending(j)
      /\ \A j \in Call : ~Opened(j)
  BY OnlyCall
<1>2. \A j \in Call : ~Pending(j)'
  BY <1>1 DEF Ends, Pending, Active, InFlight, TypeOK
<1>3. Running' /\ Resting' /\ Calling'
  BY <1>1, <1>2 DEF Running, Resting, Calling
<1>4. Ended'
  BY <1>1 DEF Orderly, Ended
<1>5. Known'
  BY <1>1, CallIsNat DEF Orderly, Known, Ends, TypeOK
<1>6. QED  BY <1>3, <1>4, <1>5 DEF Orderly

\* The call ends with the session in the map, on a connection that carries
\* nothing else.
LEMMA Registers ==
  ASSUME TypeOK, LinkInv, Alone, Orderly, NEW k \in Call, NEW b, Register(k, b),
         Told(k), answer[k] # "failed", UNCHANGED <<exited, link, down, daemon>>
  PROVE  Orderly'
<1>1. Pending(k) /\ up = <<>> /\ ~sub /\ down = <<>>
  BY PendingIs DEF Told, Quiet
<1>2. /\ callbacks = {} /\ k \notin exited
      /\ \A j \in Call \ {k} : ~Pending(j)
  BY <1>1, OnlyCall
<1>3. link \in {"up", "cut"}
  BY DEF LinkInv, TypeOK, Told
<1>4. /\ row' = "active" /\ cur' = k /\ callbacks' = {k} /\ k \in handle'
      /\ up' = IF link = "cut" THEN up ELSE Append(up, IF b THEN "replay" ELSE "follow")
      /\ Ends(k)
  BY <1>2 DEF Register, Attach
<1>5. link = "up" => up' \in Follow
  BY <1>1, <1>3, <1>4, AppendShort DEF Follow
<1>6. sub' = sub /\ down' = down /\ link' = link /\ exited' = exited
  BY DEF daemon
<1>7. Running'
  <2>1. CASE link = "up"
    BY <1>1, <1>2, <1>4, <1>5, <1>6, <2>1 DEF Running, Phase, Beginning
  <2>2. CASE link = "cut"
    <3>1. CutLoose'
      BY <1>1, <1>4, <1>6, <2>2, AllEmpty DEF CutLoose, Quiet
    <3>2. QED  BY <1>2, <1>4, <1>6, <3>1 DEF Running, Phase
  <2>3. QED  BY <1>3, <2>1, <2>2
<1>8. \A j \in Call : ~Pending(j)'
  BY <1>2, <1>4 DEF Ends, Pending, Active, InFlight, TypeOK
<1>9. Resting' /\ Calling' /\ Ended'
  BY <1>4, <1>8, CallIsNat DEF Resting, Calling, Ended
<1>10. Known'
  BY <1>2, <1>4, <1>6, CallIsNat DEF Orderly, Known, Ends, TypeOK
<1>11. QED  BY <1>7, <1>9, <1>10 DEF Orderly

\* A call starts, and does not meet another.
LEMMA Starts ==
  ASSUME TypeOK, Orderly, NEW k \in Call, step[k] \in {"opened", "unused"}, cur = NoCall,
         NEW s \in {"adopt", "create"}, Awaits(k, s), Meets(k), breach' = {},
         UNCHANGED <<row, cur, exited, client, kill, daemon>>
  PROVE  Orderly'
<1>1. CalmBut({k})
  BY DEF Meets
<1>2. \A j \in Call : ~Pending(j)
  BY <1>1 DEF CalmBut, Pending, Active, InFlight
<1>3. Idle /\ callbacks = {}
  BY <1>2 DEF Orderly, Resting, Idle
<1>4. up \in Leaving
  BY <1>1, <1>3, Shapes DEF Idle, CalmBut
<1>5. All(down, Passing)
  <2>1. All(down, Spent \ {"closed", "error"})
    BY <1>1, <1>3, AllElements DEF Idle, CalmBut
  <2>2. Spent \ {"closed", "error"} \subseteq Passing
    BY DEF Spent
  <2>3. QED  BY <2>1, <2>2, AllWeaken
<1>6. /\ step' = [step EXCEPT ![k] = s] /\ answer' = [answer EXCEPT ![k] = "none"]
      /\ UNCHANGED <<callbacks, up, down, link, sub, pty, doomed>>
  BY DEF Awaits, client, daemon
<1>7. Before(k)'
  BY <1>3, <1>4, <1>5, <1>6 DEF Before, AwaitsClient, Idle, TypeOK
<1>8. Pending(k)' /\ \A j \in Call \ {k} : ~Pending(j)'
  BY <1>2, <1>6 DEF Pending, Active, InFlight, TypeOK
<1>9. Calling'
  BY <1>1, <1>3, <1>6, <1>7, <1>8 DEF Calling, CalmBut, Goes
<1>10. Running' /\ Resting'
  BY <1>8 DEF Running, Resting
<1>11. Ended'
  <2>1. \A j \in Call : ~Opened(j)
    BY <1>2, PendingIs DEF Opened, Waiting
  <2>2. QED  BY <1>6, <2>1 DEF Orderly, Ended
<1>12. Known'
  BY <1>6, CallIsNat DEF Orderly, Known, TypeOK
<1>13. QED  BY <1>9, <1>10, <1>11, <1>12 DEF Orderly

LEMMA ReadyOrderly ==
  ASSUME TypeOK, LinkInv, Alone, Orderly, NEW k \in Call, ClientReady(k)
  PROVE  Orderly'
<1> DEFINE q == IF step[k] = "adopt" THEN "list" ELSE "open"
           s == IF step[k] = "adopt" THEN "adoptlist" ELSE "open"
<1>1. /\ AwaitsClient(k) /\ s \in {"adoptlist", "open"} /\ q \in {"list", "open"}
      /\ (s = "open" <=> q = "open")
      /\ link' = (IF link = "none" THEN "up" ELSE link)
      /\ up' = IF link' = "cut" THEN up ELSE Append(up, q)
      /\ step' = [step EXCEPT ![k] = s] /\ answer' = [answer EXCEPT ![k] = "none"]
      /\ UNCHANGED <<row, cur, exited, callbacks, kill, doomed, pty, down, sub>>
  BY DEF ClientReady, Awaits, daemon
<1> HIDE DEF q, s
<1>2. Pending(k) /\ Before(k) /\ ~Opened(k)
  <2>1. Pending(k) /\ ~Waiting(k) /\ ~Opened(k)
    BY <1>1, PendingIs DEF AwaitsClient, Waiting, Opened
  <2>2. Goes(k)
    BY <2>1, OnlyCall
  <2>3. QED  BY <2>1, <2>2 DEF Goes, Asked, Replied, CutOff, Told
<1>3. /\ Waiting(k)' /\ answer'[k] = "none" /\ Request(k)' = q /\ Pending(k)'
      /\ OthersStay(k)
  BY <1>1, PendingIs DEF Waiting, Request, OthersStay, TypeOK, Pending, Active, InFlight
<1>4. All(down', Passing)
  BY <1>1, <1>2 DEF Before
<1>5. CASE link' = "cut"
  <2>1. Quiet' /\ up' = up
    BY <1>1, <1>5 DEF LinkInv, Quiet
  <2>2. CutOff(k)'
    BY <1>3, <1>4, <1>5, <2>1 DEF CutOff
  <2>3. QED  BY <1>1, <1>2, <1>3, <2>1, <2>2, GoesOn DEF Goes
<1>6. CASE link' # "cut"
  <2>1. link' = "up" /\ up' = Append(up, q)
    BY <1>1, <1>6 DEF TypeOK
  <2>2. CASE up = <<>>
    <3>1. up' = <<q>> /\ ~sub'
      BY <1>1, <1>2, <2>1, <2>2, AppendShort DEF Before
    <3>2. Asked(k)'
      BY <1>3, <1>4, <2>1, <3>1 DEF Asked
    <3>3. Elements(up) \subseteq Elements(up')
      BY <2>2, ElementsEmpty
    <3>4. QED  BY <1>1, <1>2, <1>3, <3>2, <3>3, GoesOn DEF Goes
  <2>3. CASE up = <<"unsubscribe">>
    <3>1. up' = <<"unsubscribe", q>>
      BY <2>1, <2>3, AppendShort
    <3>2. Asked(k)'
      BY <1>3, <1>4, <2>1, <3>1 DEF Asked
    <3>3. Elements(up) \subseteq Elements(up')
      <4>1. q \in Requests
        BY <1>1 DEF Requests
      <4>2. QED  BY <2>1, <4>1, ElementsAppend DEF TypeOK
    <3>4. QED  BY <1>1, <1>2, <1>3, <3>2, <3>3, GoesOn DEF Goes
  <2>4. QED  BY <1>2, <2>2, <2>3 DEF Before, Leaving
<1>7. QED  BY <1>5, <1>6

\* A call whose connection carries nothing more awaits the client again.
LEMMA FallbackOrderly ==
  ASSUME TypeOK, Alone, Orderly, NEW k \in Call, Pending(k), ~Opened(k), Fallback(k),
         up \in Leaving, All(down, Passing), sub => up # <<>>,
         UNCHANGED <<exited, down, kill, daemon>>
  PROVE  Orderly'
<1>1. cur = NoCall
  BY OnlyCall
<1>2. /\ step' = [step EXCEPT ![k] = "create"] /\ answer' = [answer EXCEPT ![k] = "none"]
      /\ UNCHANGED <<row, cur, callbacks, up, sub, doomed, pty>>
  BY <1>1 DEF Fallback, Awaits, daemon
<1>3. Before(k)' /\ Pending(k)' /\ OthersStay(k)
  BY <1>2 DEF Before, AwaitsClient, Pending, Active, InFlight, OthersStay, TypeOK
<1>4. QED  BY <1>2, <1>3, GoesOn DEF Goes

LEMMA RejectOrderly ==
  ASSUME TypeOK, Alone, Orderly, NEW k \in Call, Pending(k), ~Opened(k), Reject(k),
         up \in Leaving, All(down, Passing), sub => up # <<>>,
         UNCHANGED <<row, cur, callbacks, up, exited, down, kill, daemon>>
  PROVE  Orderly'
<1>1. All(down, Spent)
  BY AllWeaken DEF Spent
<1>2. Idle'
  BY <1>1, OnlyCall DEF Idle, daemon
<1>3. QED  BY <1>2, Stops DEF Reject, daemon

LEMMA FailsOrderly ==
  ASSUME TypeOK, Alone, Orderly, NEW k \in Call, ClientFails(k)
  PROVE  Orderly'
<1>1. Pending(k) /\ ~Waiting(k) /\ ~Opened(k)
  BY PendingIs DEF ClientFails, AwaitsClient, Waiting, Opened
<1>2. Before(k)
  BY <1>1, OnlyCall DEF Goes, Asked, Replied, CutOff, Told
<1>3. up \in Leaving /\ All(down, Passing) /\ (sub => up # <<>>)
  BY <1>2 DEF Before
<1>4. QED  BY <1>1, <1>3, FallbackOrderly, RejectOrderly DEF ClientFails

LEMMA ContinueOrderly ==
  ASSUME TypeOK, LinkInv, Alone, Orderly, NEW k \in Call, Continue(k)
  PROVE  Orderly'
<1>1. Waiting(k) /\ answer[k] # "none" /\ Pending(k)
  BY PendingIs DEF Continue, Waiting
<1>2. Told(k) /\ up = <<>> /\ ~sub /\ down = <<>>
  <2>1. Told(k)
    BY <1>1, OnlyCall DEF Goes, Before, AwaitsClient, Waiting, Asked, Replied, CutOff
  <2>2. QED  BY <2>1 DEF Told, Quiet
<1>3. up \in Leaving /\ All(down, Passing) /\ (sub => up # <<>>)
  BY <1>2, AllEmpty DEF Leaving
<1>4. UNCHANGED <<exited, link, down, kill, daemon>>
  BY DEF Continue
<1>5. ASSUME NEW b, Register(k, b), answer[k] # "failed"  PROVE Orderly'
  BY <1>2, <1>4, <1>5, Registers
<1>6. CASE Fallback(k) /\ answer[k] # "open-ok"
  <2>1. ~Opened(k)
    BY <1>1, <1>6 DEF Opened
  <2>2. QED  BY <1>1, <1>3, <1>4, <1>6, <2>1, FallbackOrderly
<1>7. CASE Reject(k) /\ answer[k] # "open-ok" /\ UNCHANGED <<row, cur, handle, callbacks, up>>
  <2>1. ~Opened(k)
    BY <1>1, <1>7 DEF Opened
  <2>2. QED  BY <1>1, <1>3, <1>4, <1>7, <2>1, RejectOrderly
<1>8. CASE answer[k] = "exists" /\ Awaits(k, "relist")
           /\ up' = (IF link = "cut" THEN up ELSE Append(up, "list"))
           /\ UNCHANGED <<row, cur, handle, callbacks, views>>
  <2>1. ~Opened(k)
    BY <1>8 DEF Opened
  <2>2. /\ Waiting(k)' /\ answer'[k] = "none" /\ Request(k)' = "list" /\ Pending(k)'
        /\ OthersStay(k)
    BY <1>8 DEF Awaits, Waiting, Request, OthersStay, TypeOK, Pending, Active, InFlight
  <2>3. UNCHANGED <<down, sub, doomed, pty, link>>
    BY <1>4 DEF daemon
  <2>4. link \in {"up", "cut"}
    BY <1>1, <1>8 DEF LinkInv, TypeOK
  <2>5. Elements(up) \subseteq Elements(up')
    BY <1>2, ElementsEmpty
  <2>6. Goes(k)'
    <3>1. CASE link = "cut"
      BY <1>2, <1>3, <1>8, <2>2, <2>3, <3>1 DEF Goes, CutOff, Quiet
    <3>2. CASE link = "up"
      <4>1. up' = <<"list">>
        BY <1>2, <1>8, <3>2, AppendShort
      <4>2. QED  BY <1>2, <1>3, <2>2, <2>3, <3>2, <4>1 DEF Goes, Asked
    <3>3. QED  BY <2>4, <3>1, <3>2
  <2>7. QED  BY <1>1, <1>4, <1>8, <2>1, <2>2, <2>3, <2>5, <2>6, GoesOn
<1>9. QED  BY <1>5, <1>6, <1>7, <1>8 DEF Continue

LEMMA CallNextOrderly ==
  ASSUME TypeOK, LinkInv, Alone, Orderly, NEW k \in Call, CallNext(k), breach' = {}
  PROVE  Orderly'
<1>1. ASSUME NEW r \in Renderer, Connect(r, k)  PROVE Orderly'
  <2>1. /\ step[k] = "unused" /\ step' = [step EXCEPT ![k] = "opened"] /\ answer' = answer
        /\ UNCHANGED <<row, cur, exited, handle, callbacks, kill, link, up, down, pty,
                       doomed, sub>>
    BY <1>1 DEF Connect, Fresh, record, client, daemon
  <2>2. \A j \in Call :
           \/ step'[j] = step[j] /\ answer'[j] = answer[j]
           \/ ~Pending(j) /\ ~Pending(j)' /\ (step[j] = "done" => step'[j] = "done")
    BY <2>1 DEF Pending, Active, InFlight, TypeOK
  <2>3. QED  BY <2>1, <2>2, Unmoved
<1>2. ASSUME Ends(k), step[k] \in {"opened", "unused"},
             UNCHANGED <<row, cur, exited, client, kill, daemon>>
      PROVE  Orderly'
  <2>1. \A j \in Call :
           \/ step'[j] = step[j] /\ answer'[j] = answer[j]
           \/ ~Pending(j) /\ ~Pending(j)' /\ (step[j] = "done" => step'[j] = "done")
    BY <1>2 DEF Ends, Pending, Active, InFlight, TypeOK
  <2>2. QED  BY <1>2, <2>1, Unmoved DEF client, daemon
<1>3. CASE OnOpen(k)
  BY <1>2, <1>3, Starts DEF OnOpen, Attach, Reject
<1>4. CASE Create(k)
  BY <1>2, <1>4, Starts DEF Create, Fresh
<1>5. CASE Timeout(k)
  BY <1>5 DEF Timeout
<1>6. CASE OnClose(k)
  BY <1>6, Unmoved DEF OnClose, calls, client, daemon
<1>7. QED
  BY <1>1, <1>3, <1>4, <1>5, <1>6, ReadyOrderly, FailsOrderly, ContinueOrderly DEF CallNext

\* The client reads output, or the exit of a shell.
LEMMA PassingHandled ==
  ASSUME TypeOK, Alone, Orderly, down # <<>>, down' = Tail(down), Head(down).t \in Passing,
         UNCHANGED <<step, answer, cur, callbacks, link, up, kill, doomed, pty, sub>>
  PROVE  Resting' /\ Calling' /\ (row' = row => Ended')
<1>1. /\ \A B : All(down, B) => Head(down).t \in B /\ All(down', B)
      /\ \A T, B : T \cap B = {} /\ Ending(down, T, B) =>
            \/ Head(down).t \in T /\ down' = <<>>
            \/ Head(down).t \in B /\ Head(down).t \notin T /\ Ending(down', T, B)
  BY DownTail
<1>2. \A k \in Call : Pending(k)' <=> Pending(k)
  BY DEF Pending, Active
<1>3. Resting'
  BY <1>1, <1>2 DEF Orderly, Resting, Idle
<1>4. ASSUME NEW k \in Call, Pending(k)
      PROVE  callbacks' = {} /\ ~kill' /\ ~doomed' /\ Goes(k)'
  <2>1. callbacks = {} /\ ~kill /\ ~doomed /\ Goes(k)
    BY <1>4, OnlyCall
  <2>2. UNCHANGED <<AwaitsClient(k), Waiting(k), Request(k), Replies(k), Quiet>>
    BY DEF AwaitsClient, Waiting, Request, Replies, Quiet
  <2>3. Replies(k) \cap Passing = {}
    BY DEF Replies, Passing
  <2>4. CASE Before(k)
    BY <1>1, <2>1, <2>2, <2>4 DEF Goes, Before
  <2>5. CASE Asked(k)
    BY <1>1, <2>1, <2>2, <2>5 DEF Goes, Asked
  <2>6. CASE Replied(k)
    <3>1. Ending(down', Replies(k), Passing)
      BY <1>1, <2>3, <2>6 DEF Replied
    <3>2. QED  BY <2>1, <2>2, <2>6, <3>1 DEF Goes, Replied
  <2>7. CASE CutOff(k)
    BY <1>1, <2>1, <2>2, <2>7 DEF Goes, CutOff
  <2>8. QED  BY <2>1, <2>4, <2>5, <2>6, <2>7 DEF Goes, Told
<1>5. Calling'
  BY <1>2, <1>4 DEF Calling
<1>6. row' = row => Ended'
  <2>1. Elements(down) = {Head(down)} \cup Elements(down')
    BY ElementsTail DEF TypeOK
  <2>2. \A k \in Call : Opened(k) => Opened(k)'
    BY <2>1 DEF Opened, Passing
  <2>3. QED  BY <2>2 DEF Orderly, Ended
<1>7. QED  BY <1>3, <1>5, <1>6

LEMMA OutputOrderly ==
  ASSUME TypeOK, Alone, Orderly, OnOutput
  PROVE  Orderly'
<1>1. /\ down # <<>> /\ down' = Tail(down) /\ Head(down).t = "output"
      /\ UNCHANGED <<row, cur, exited, step, answer, handle, callbacks, link, up, kill,
                     doomed, pty, sub>>
  BY DEF OnOutput, calls, daemon
<1>2. /\ \A B : All(down, B) => Head(down).t \in B /\ All(down', B)
      /\ \A T, B : T \cap B = {} /\ Ending(down, T, B) =>
            \/ Head(down).t \in T /\ down' = <<>>
            \/ Head(down).t \in B /\ Head(down).t \notin T /\ Ending(down', T, B)
  BY <1>1, DownTail
<1>3. ExitComes => ExitComes'
  <2>1. "output" \notin {"exit"} /\ {"exit"} \cap {"output"} = {}
    OBVIOUS
  <2>2. QED  BY <1>1, <1>2, <2>1 DEF ExitComes, Quiet
<1>4. (Following => Following') /\ (CutLoose => CutLoose')
  BY <1>1, <1>2 DEF Following, CutLoose, Quiet
<1>5. ~Beginning /\ ~Over
  BY <1>1 DEF Beginning, Over
<1>6. Running'
  BY <1>1, <1>3, <1>4, <1>5 DEF Orderly, Running, Phase
<1>7. Resting' /\ Calling' /\ Ended'
  BY <1>1, PassingHandled DEF Passing
<1>8. Known'
  BY <1>1 DEF Orderly, Known
<1>9. QED  BY <1>6, <1>7, <1>8 DEF Orderly

LEMMA ExitOrderly ==
  ASSUME TypeOK, Alone, Orderly, OnExit
  PROVE  Orderly'
<1>1. /\ down # <<>> /\ down' = Tail(down) /\ Head(down).t = "exit"
      /\ exited' = exited \cup callbacks
      /\ row' = IF callbacks # {} THEN "exited" ELSE row
      /\ UNCHANGED <<cur, step, answer, handle, callbacks, link, up, kill, doomed, pty, sub>>
  BY DEF OnExit, calls, daemon
<1>2. /\ \A B : All(down, B) => Head(down).t \in B
      /\ \A T, B : T \cap B = {} /\ Ending(down, T, B) =>
            \/ Head(down).t \in T /\ down' = <<>>
            \/ Head(down).t \in B /\ Head(down).t \notin T /\ Ending(down', T, B)
  BY <1>1, DownTail
<1>3. Resting' /\ Calling' /\ (row' = row => Ended')
  BY <1>1, PassingHandled DEF Passing
<1>4. CASE cur # NoCall
  <2>1. ~Beginning /\ ~Over /\ ~Following /\ ~CutLoose
    BY <1>1, <1>2 DEF Beginning, Over, Following, CutLoose
  <2>2. callbacks = {cur} /\ cur \in handle /\ ExitComes
    BY <1>4, <2>1 DEF Orderly, Running, Phase
  <2>3. "exit" \in {"exit"} /\ "exit" \notin {"output"} /\ {"exit"} \cap {"output"} = {}
    OBVIOUS
  <2>4. down' = <<>> /\ pty' = 0
    BY <1>1, <1>2, <2>2, <2>3 DEF ExitComes
  <2>5. Over' /\ cur' \in exited'
    BY <1>1, <2>2, <2>4 DEF Over, Quiet, ExitComes
  <2>6. Running'
    BY <1>1, <2>2, <2>5 DEF Running, Phase
  <2>7. Ended'
    BY <2>4 DEF Ended
  <2>8. Known'
    BY <1>1, <2>2 DEF Orderly, Known
  <2>9. QED  BY <1>3, <2>6, <2>7, <2>8 DEF Orderly
<1>5. CASE cur = NoCall
  <2>1. callbacks = {}
    BY <1>5 DEF Orderly, Resting, Idle, Calling
  <2>2. row' = row /\ exited' = exited
    BY <1>1, <2>1
  <2>3. Known' /\ Running'
    BY <1>1, <1>5, <2>2 DEF Orderly, Known, Running
  <2>4. QED  BY <1>3, <2>2, <2>3 DEF Orderly
<1>6. QED  BY <1>4, <1>5

\* An answer is handed to the call that waits for it.
LEMMA ReplyOrderly ==
  ASSUME TypeOK, Alone, Orderly, OnReply
  PROVE  Orderly'
<1> DEFINE t == Head(down).t
<1>1. /\ down # <<>> /\ down' = Tail(down) /\ t \notin {"output", "exit"} /\ t \in Frames
      /\ answer' = [k \in Call |-> IF Matches(k, t) /\ answer[k] = "none" THEN t
                                   ELSE answer[k]]
      /\ UNCHANGED <<row, cur, exited, step, handle, callbacks, link, up, kill, doomed,
                     pty, sub>>
  BY FrameTypes DEF OnReply, record, daemon
<1>2. /\ \A B : All(down, B) => t \in B /\ All(down', B)
      /\ \A T, B : T \cap B = {} /\ Ending(down, T, B) =>
            \/ t \in T /\ down' = <<>>
            \/ t \in B /\ t \notin T /\ Ending(down', T, B)
  BY <1>1, DownTail
<1> HIDE DEF t
<1>3. \A k \in Call : Pending(k)' <=> Pending(k)
  BY <1>1 DEF Pending, Active
<1>4. ~All(down, {"output"}) /\ ~All(down, Passing) /\ ~Ending(down, {"exit"}, {"output"})
  <2>1. {"exit"} \cap {"output"} = {} /\ t \notin {"exit"} /\ t \notin {"output"}
    BY <1>1
  <2>2. t \notin Passing
    BY <1>1 DEF Passing
  <2>3. QED  BY <1>2, <2>1, <2>2
<1>5. cur = NoCall
  BY <1>1, <1>4 DEF Orderly, Running, Phase, Beginning, Following, ExitComes, CutLoose, Over
<1>6. Resting'
  BY <1>1, <1>2, <1>3 DEF Orderly, Resting, Idle
<1>7. ASSUME NEW k \in Call, Pending(k)
      PROVE  /\ callbacks' = {} /\ ~kill' /\ ~doomed' /\ Goes(k)'
             /\ Opened(k) => Opened(k)'
  <2>1. callbacks = {} /\ ~kill /\ ~doomed /\ Goes(k)
    BY <1>7, OnlyCall
  <2>2. Replied(k)
    BY <1>1, <1>4, <2>1 DEF Goes, Before, Asked, CutOff, Told
  <2>3. Replies(k) \cap Passing = {} /\ t \notin Passing
    BY <1>1 DEF Replies, Passing
  <2>4. t \in Replies(k) /\ down' = <<>>
    BY <1>2, <2>2, <2>3 DEF Replied
  <2>5. Matches(k, t) /\ t # "none" /\ Waiting(k) /\ answer[k] = "none"
    BY <2>2, <2>4 DEF Replied, Replies, Matches, Waiting
  <2>6. answer'[k] = t
    BY <1>1, <2>5
  <2>7. Told(k)'
    BY <1>1, <2>2, <2>4, <2>5, <2>6 DEF Told, Replied, Quiet, Waiting
  <2>8. Opened(k) => Opened(k)'
    <3>1. Elements(down) = {Head(down)} \cup Elements(down')
      BY <1>1, ElementsTail DEF TypeOK
    <3>2. Elements(down) = {Head(down)}
      BY <2>4, <3>1, ElementsEmpty
    <3>3. QED  BY <1>1, <2>5, <2>6, <3>2 DEF Opened, t
  <2>9. QED  BY <1>1, <2>1, <2>7, <2>8 DEF Goes
<1>8. Calling'
  BY <1>3, <1>7 DEF Calling
<1>9. \A k \in Call : Opened(k) => Pending(k)
  BY PendingIs DEF Opened, Waiting
<1>10. Ended'
  BY <1>1, <1>7, <1>9 DEF Orderly, Ended
<1>11. Running' /\ Known'
  BY <1>1, <1>5 DEF Orderly, Running, Known
<1>12. QED  BY <1>6, <1>8, <1>10, <1>11 DEF Orderly

\* The session is forgotten with its connection, and the call is told.
LEMMA DisconnectedOrderly ==
  ASSUME TypeOK, LinkInv, Alone, Orderly, Disconnected
  PROVE  Orderly'
<1>1. /\ NextCallback /\ link = "cut" /\ down = <<>> /\ link' = "none" /\ callbacks' = {}
      /\ RejectRequests /\ cur' = NoCall
      /\ UNCHANGED <<row, exited, step, up, down, kill, doomed, pty, sub>>
  BY DEF Disconnected, daemon
<1>2. up = <<>> /\ ~sub
  BY <1>1 DEF LinkInv
<1>3. Running'
  BY <1>1 DEF Running
<1>4. Resting'
  BY <1>1, <1>2, AllEmpty DEF Resting, Idle, Leaving
<1>5. \A k \in Call : answer[k] = "none" /\ ~AwaitsClient(k)
  BY <1>1 DEF NextCallback, Resumed, Answered
<1>6. ASSUME NEW k \in Call, Pending(k)'
      PROVE  callbacks' = {} /\ ~kill' /\ ~doomed' /\ Told(k)'
  <2>1. Pending(k) /\ Waiting(k)
    BY <1>1, <1>5, <1>6, PendingIs DEF Pending, Active
  <2>2. ~kill /\ ~doomed
    BY <2>1, OnlyCall
  <2>3. answer'[k] = "failed"
    BY <1>1, <2>1 DEF RejectRequests, Waiting
  <2>4. Told(k)'
    BY <1>1, <1>2, <2>1, <2>3 DEF Told, Waiting, Quiet
  <2>5. QED  BY <1>1, <2>2, <2>4
<1>7. Calling'
  BY <1>6 DEF Calling, Goes
<1>8. Ended'
  <2>1. \A k \in Call : ~Opened(k)
    BY <1>1, <1>5, ElementsEmpty DEF Opened
  <2>2. QED  BY <1>1, <2>1 DEF Orderly, Ended
<1>9. Known'
  BY <1>1, CallIsNat DEF Orderly, Known
<1>10. QED  BY <1>3, <1>4, <1>7, <1>8, <1>9 DEF Orderly

\* A frame of the shell's comes to a subscription; a connection that carries
\* none is left alone.
LEMMA ShellFrame ==
  ASSUME TypeOK, Alone, Orderly, NEW t \in Passing, NEW b \in Seq(Chunk),
         down' = IF sub THEN Append(down, Frame(t, b)) ELSE down,
         UNCHANGED <<step, answer, cur, callbacks, link, up, kill>>,
         sub' => sub, doomed' => doomed
  PROVE  /\ Resting' /\ Calling'
         /\ \A k \in Call : Opened(k) => Opened(k)'
<1>1. t \in Frames /\ t \in Spent
  BY DEF Passing, Spent, Frames
<1>2. \A B : All(down, B) /\ t \in B => All(down', B)
  BY <1>1, DownAppend
<1>3. \A k \in Call : Pending(k)' <=> Pending(k)
  BY DEF Pending, Active
<1>4. Resting'
  <2>1. Idle => Idle'
    BY <1>1, <1>2 DEF Idle
  <2>2. QED  BY <1>3, <2>1 DEF Orderly, Resting
<1>5. ASSUME NEW k \in Call, Pending(k)
      PROVE  callbacks' = {} /\ ~kill' /\ ~doomed' /\ Goes(k)'
  <2>1. callbacks = {} /\ ~kill /\ ~doomed /\ Goes(k)
    BY <1>5, OnlyCall
  <2>2. UNCHANGED <<AwaitsClient(k), Waiting(k), Request(k), Replies(k)>>
    BY DEF AwaitsClient, Waiting, Request, Replies
  <2>3. Before(k) => Before(k)'
    BY <1>2, <2>2 DEF Before
  <2>4. Asked(k) => Asked(k)'
    BY <1>2, <2>2 DEF Asked
  <2>5. (Replied(k) => Replied(k)') /\ (CutOff(k) => CutOff(k)') /\ (Told(k) => Told(k)')
    BY <2>2 DEF Replied, CutOff, Told, Quiet
  <2>6. QED  BY <2>1, <2>3, <2>4, <2>5 DEF Goes
<1>6. Calling'
  BY <1>3, <1>5 DEF Calling
<1>7. Elements(down) \subseteq Elements(down')
  BY <1>1, AppendFrame
<1>8. \A k \in Call : Opened(k) => Opened(k)'
  BY <1>7 DEF Opened
<1>9. QED  BY <1>4, <1>6, <1>8

LEMMA OutputComes ==
  ASSUME TypeOK, Alone, Orderly, Output
  PROVE  Orderly'
<1> DEFINE b == <<made + 1>>
<1>1. b \in Seq(Chunk) /\ "output" \in Passing /\ "output" \in Frames
  <2>1. made + 1 \in Chunk
    BY DEF Output, TypeOK, Chunk
  <2>2. QED  BY <2>1 DEF Passing, Frames
<1>2. /\ down' = IF sub THEN Append(down, Frame("output", b)) ELSE down
      /\ pty # 0
      /\ UNCHANGED <<row, cur, exited, step, answer, handle, callbacks, link, up, kill,
                     doomed, pty, sub>>
  BY DEF Output, record, calls
<1> HIDE DEF b
<1>3. Resting' /\ Calling' /\ \A k \in Call : Opened(k) => Opened(k)'
  BY <1>1, <1>2, ShellFrame
<1>4. Following => Following'
  BY <1>1, <1>2, DownAppend DEF Following
<1>5. /\ ~Over /\ ~ExitComes
      /\ (Beginning => Beginning') /\ (CutLoose => CutLoose')
  BY <1>2 DEF Over, ExitComes, Beginning, CutLoose, Quiet
<1>6. Running'
  BY <1>2, <1>4, <1>5 DEF Orderly, Running, Phase
<1>7. Ended' /\ Known'
  BY <1>2, <1>3 DEF Orderly, Ended, Known
<1>8. QED  BY <1>3, <1>6, <1>7 DEF Orderly

LEMMA ExitComing ==
  ASSUME TypeOK, Alone, Orderly, ShellExits
  PROVE  Orderly'
<1>1. <<>> \in Seq(Chunk) /\ "exit" \in Passing /\ "exit" \in Frames
  BY EmptySeq DEF Passing, Frames
<1>2. /\ down' = IF sub THEN Append(down, Frame("exit", <<>>)) ELSE down
      /\ pty # 0 /\ pty' = 0 /\ doomed' = FALSE /\ sub' = FALSE
      /\ UNCHANGED <<row, cur, exited, step, answer, handle, callbacks, link, up, kill>>
  BY DEF ShellExits, record, calls
<1>3. Resting' /\ Calling'
  BY <1>1, <1>2, ShellFrame
<1>4. Following => ExitComes'
  <2>1. "exit" \in {"exit"}
    OBVIOUS
  <2>2. QED  BY <1>1, <1>2, <2>1, DownAppend DEF Following, ExitComes, Quiet
<1>5. /\ ~Over /\ ~ExitComes
      /\ (Beginning => Beginning') /\ (CutLoose => CutLoose')
  BY <1>2 DEF Over, ExitComes, Beginning, CutLoose, Quiet
<1>6. Running'
  BY <1>2, <1>4, <1>5 DEF Orderly, Running, Phase
<1>7. Ended' /\ Known'
  BY <1>2 DEF Orderly, Ended, Known
<1>8. QED  BY <1>3, <1>6, <1>7 DEF Orderly

\* The connection is lost, and nothing is on it that the daemon was to learn.
LEMMA LostOrderly ==
  ASSUME TypeOK, LinkInv, Alone, Orderly, NEW crash \in BOOLEAN, Lost(crash), breach' = {}
  PROVE  Orderly'
<1>1. /\ link' = (IF link = "up" THEN "cut" ELSE link) /\ up' = <<>> /\ sub' = FALSE
      /\ pty' = (IF crash THEN 0 ELSE pty) /\ doomed' = (doomed /\ ~crash)
      /\ UNCHANGED <<row, cur, exited, step, answer, handle, callbacks, kill, down>>
  BY DEF Lost, record, calls
<1>2. ~Abandons
  BY DEF Lost
<1>3. Running'
  <2>1. Over => Over'
    BY <1>1 DEF Over, Quiet
  <2>2. Beginning => CutLoose'
    BY <1>1, AllEmpty DEF Beginning, CutLoose, Quiet
  <2>3. Following => CutLoose'
    BY <1>1 DEF Following, CutLoose, Quiet
  <2>4. (ExitComes => ExitComes') /\ (CutLoose => CutLoose')
    BY <1>1 DEF ExitComes, CutLoose, Quiet
  <2>5. QED  BY <1>1, <2>1, <2>2, <2>3, <2>4 DEF Orderly, Running, Phase
<1>4. \A k \in Call : Pending(k)' <=> Pending(k)
  BY <1>1 DEF Pending, Active
<1>5. Resting'
  BY <1>1, <1>4 DEF Orderly, Resting, Idle, Leaving
<1>6. ASSUME NEW k \in Call, Pending(k)
      PROVE  callbacks' = {} /\ ~kill' /\ ~doomed' /\ Goes(k)'
  <2>1. callbacks = {} /\ ~kill /\ ~doomed /\ Goes(k)
    BY <1>6, OnlyCall
  <2>2. UNCHANGED <<AwaitsClient(k), Waiting(k), Request(k), Replies(k)>> /\ Quiet'
    BY <1>1 DEF AwaitsClient, Waiting, Request, Replies, Quiet
  <2>3. Before(k) => Before(k)'
    BY <1>1, <2>2 DEF Before, Leaving
  <2>4. Asked(k) => CutOff(k)'
    BY <1>1, <2>2 DEF Asked, CutOff
  <2>5. (Replied(k) => Replied(k)') /\ (CutOff(k) => CutOff(k)') /\ (Told(k) => Told(k)')
    BY <1>1, <2>2 DEF Replied, CutOff, Told
  <2>6. QED  BY <1>1, <2>1, <2>3, <2>4, <2>5 DEF Goes
<1>7. Calling'
  BY <1>4, <1>6 DEF Calling
<1>8. Ended'
  <2>1. \A k \in Call : ~Opened(k)
    BY <1>2 DEF Opened, Abandons
  <2>2. QED  BY <1>1, <1>2, <2>1 DEF Orderly, Ended, Abandons
<1>9. Known'
  BY <1>1 DEF Orderly, Known
<1>10. QED  BY <1>3, <1>5, <1>7, <1>8, <1>9 DEF Orderly

LEMMA CrashOrderly ==
  ASSUME TypeOK, Orderly, HostCrash, breach' = {}
  PROVE  Orderly'
<1>1. /\ up = <<>> /\ cur' = NoCall /\ exited' = {} /\ callbacks' = {}
      /\ step' = [k \in Call |-> IF Active(k) THEN "done" ELSE step[k]]
      /\ kill' = FALSE /\ down' = <<>> /\ sub' = FALSE
      /\ UNCHANGED <<row, up, pty, doomed>> /\ ~Abandons
  BY DEF HostCrash
<1>2. \A k \in Call : ~Pending(k)'
  BY <1>1 DEF Pending, Active, InFlight
<1>3. Running' /\ Calling'
  BY <1>1, <1>2 DEF Running, Calling
<1>4. Resting'
  BY <1>1, AllEmpty DEF Resting, Idle, Leaving
<1>5. Ended'
  <2>1. \A k \in Call : ~Opened(k)
    BY <1>1 DEF Opened, Abandons
  <2>2. QED  BY <1>1, <2>1 DEF Orderly, Ended, Abandons
<1>6. Known'
  BY <1>1, CallIsNat DEF Known
<1>7. QED  BY <1>3, <1>4, <1>5, <1>6 DEF Orderly

LEMMA KillOrderly ==
  ASSUME TypeOK, LinkInv, Alone, Orderly, KillById, breach' = {}
  PROVE  Orderly'
<1>1. /\ kill /\ kill' = FALSE /\ listening /\ doomed' = (doomed \/ pty # 0)
      /\ UNCHANGED <<row, cur, exited, step, answer, handle, callbacks, link, up, down, pty,
                     sub>>
  BY DEF KillById, record, calls, client
<1>2. \A k \in Call : ~Pending(k) /\ ~Pending(k)'
  BY <1>1, OnlyCall DEF Pending, Active
<1>3. Running' /\ Known'
  BY <1>1 DEF Orderly, Running, Phase, Beginning, Following, ExitComes, CutLoose, Over, Quiet,
         Known
<1>4. Resting' /\ Calling'
  BY <1>1, <1>2 DEF Orderly, Resting, Idle, Calling
<1>5. Ended'
  BY <1>1 DEF Ended
<1>6. QED  BY <1>3, <1>4, <1>5 DEF Orderly

\* The terminal ends while nothing is under way: its session leaves behind the
\* requests that end the shell, or the daemon is told without one.
LEMMA DisposeOrderly ==
  ASSUME TypeOK, Alone, Orderly, Dispose, breach' = {}
  PROVE  Orderly'
<1>1. /\ Calm /\ link # "cut" /\ row' = "disposed"
      /\ UNCHANGED <<exited, step, answer, link, down, doomed, pty, sub>>
  BY DEF Dispose, calls, daemon
<1>2. \A k \in Call : ~Pending(k) /\ ~Pending(k)'
  BY <1>1 DEF Calm, CalmBut, Pending, Active
<1>3. CASE cur = NoCall
  <2>1. kill' = TRUE /\ UNCHANGED <<cur, callbacks, up>>
    BY <1>3 DEF Dispose
  <2>2. Resting'
    BY <1>1, <1>2, <2>1 DEF Orderly, Resting, Idle
  <2>3. QED
    BY <1>1, <1>2, <1>3, <2>1, <2>2 DEF Orderly, Running, Calling, Ended, Known
<1>4. CASE cur # NoCall
  <2>1. callbacks = {cur} /\ cur \in handle /\ Phase
    BY <1>4 DEF Orderly, Running
  <2>2. /\ cur' = NoCall /\ callbacks' = {} /\ kill' = kill
        /\ up' = up \o (IF cur \in exited THEN <<>> ELSE <<"close">>) \o <<"unsubscribe">>
    BY <1>1, <1>4, <2>1 DEF Dispose, Unsubscribe
  <2>3. up \in Seq(Requests) /\ "close" \in Requests /\ "unsubscribe" \in Requests
    BY DEF TypeOK, Requests
  <2>4. CASE cur \in exited
    <3>1. up = <<>> /\ pty = 0 /\ down = <<>>
      BY <2>1, <2>4 DEF Phase, Over, Quiet
    <3>2. up \o <<>> = up
      BY <2>3, ConcatEmptySeq
    <3>3. up' = up \o <<"unsubscribe">>
      BY <2>2, <2>4, <3>2
    <3>4. up' = <<"unsubscribe">>
      BY <2>3, <3>1, <3>3, ConcatOne, AppendShort
    <3>5. Idle'
      BY <1>1, <2>2, <3>1, <3>4, AllEmpty, TakeShort DEF Idle, Leaving
    <3>6. Ended'
      BY <1>1, <3>1 DEF Ended
    <3>7. QED  BY <1>1, <1>2, <2>2, <3>5, <3>6, CallIsNat
               DEF Orderly, Running, Resting, Calling, Known
  <2>5. CASE cur \notin exited
    <3> DEFINE u == Append(up, "close")
    <3>1. up \o <<"close">> = u /\ u \in Seq(Requests)
      BY <2>3, ConcatOne, ElementsAppend
    <3>2. u \o <<"unsubscribe">> = Append(u, "unsubscribe")
      BY <2>3, <3>1, ConcatOne
    <3>3. up' = Append(u, "unsubscribe")
      BY <2>2, <2>5, <3>1, <3>2
    <3>4. up = <<>> \/ up = <<"follow">> \/ up = <<"replay">>
      BY <1>1, <2>1, <2>5 DEF Phase, Beginning, Following, ExitComes, CutLoose, Quiet, Follow
    <3>5. up' \in Closing
      <4>1. CASE up = <<>>
        <5>1. u = <<"close">>
          BY <4>1, AppendShort
        <5>2. up' = <<"close", "unsubscribe">>
          BY <3>3, <5>1, AppendShort
        <5>3. QED  BY <5>2 DEF Closing
      <4>2. ASSUME NEW f \in {"follow", "replay"}, up = <<f>>  PROVE up' \in Closing
        <5>1. u = <<f, "close">>
          BY <4>2, AppendShort
        <5>2. up' = <<f, "close", "unsubscribe">>
          BY <3>3, <5>1, AppendShort
        <5>3. QED  BY <5>2 DEF Closing
      <4>3. QED  BY <3>4, <4>1, <4>2
    <3>6. All(down, Spent)
      <4>1. Beginning \/ Following \/ ExitComes
        BY <1>1, <2>1, <2>5 DEF Phase, CutLoose
      <4>2. Ending(down, {"exit"}, {"output"}) => All(down, {"exit"} \cup {"output"})
        BY EndingAll DEF TypeOK
      <4>3. {"output"} \subseteq Spent /\ {"exit"} \cup {"output"} \subseteq Spent
        BY DEF Spent, Passing
      <4>4. QED  BY <4>1, <4>2, <4>3, AllEmpty, AllWeaken DEF Beginning, Following, ExitComes
    <3>7. Idle'
      BY <1>1, <2>2, <3>5, <3>6, Shapes DEF Idle
    <3>8. Ended'
      BY <3>5, Shapes DEF Ended
    <3>9. QED  BY <1>1, <1>2, <2>2, <3>7, <3>8, CallIsNat
               DEF Orderly, Running, Resting, Calling, Known
  <2>6. QED  BY <2>4, <2>5
<1>5. QED  BY <1>3, <1>4

\* What the daemon does with a request.
LEMMA Serves ==
  ASSUME TypeOK, LinkInv, Serve, breach' = {}
  PROVE  /\ link = "up" /\ up # <<>> /\ up' = Tail(up)
         /\ Elements(up) = {Head(up)} \cup Elements(up')
         /\ UNCHANGED <<row, cur, exited, step, answer, handle, callbacks, link, kill>>
         /\ Head(up) = "list" => \E t \in {"alive", "absent"} :
               down' = Append(down, Frame(t, <<>>)) /\ UNCHANGED <<pty, doomed, sub>>
         /\ Head(up) = "open" => \E t \in {"open-ok", "exists", "error"} :
               /\ down' = Append(down, Frame(t, <<>>)) /\ UNCHANGED <<doomed, sub>>
               /\ t = "open-ok" \/ pty' = pty
         /\ Head(up) = "close" => \E t \in {"closed", "error"} :
               /\ down' = Append(down, Frame(t, <<>>)) /\ UNCHANGED <<pty, sub>>
               /\ doomed' = (pty # 0)
         /\ Head(up) \in {"follow", "replay"} =>
               /\ pty # 0 /\ sub' /\ UNCHANGED <<pty, doomed>>
               /\ down' = down \/ down' = Append(down, Frame("output", ring))
         /\ Head(up) = "unsubscribe" => ~sub' /\ UNCHANGED <<pty, doomed, down>>
<1>1. /\ up # <<>> /\ up' = Tail(up)
      /\ UNCHANGED <<row, cur, exited, step, answer, handle, callbacks, link, kill>>
  BY DEF Serve, record, calls
<1>2. link = "up" /\ Elements(up) = {Head(up)} \cup Elements(up')
  BY <1>1, ElementsTail DEF LinkInv, TypeOK
<1>3. Head(up) = "list" => \E t \in {"alive", "absent"} :
         down' = Append(down, Frame(t, <<>>)) /\ UNCHANGED <<pty, doomed, sub>>
  BY DEF Serve
<1>4. Head(up) = "open" => \E t \in {"open-ok", "exists", "error"} :
         /\ down' = Append(down, Frame(t, <<>>)) /\ UNCHANGED <<doomed, sub>>
         /\ t = "open-ok" \/ pty' = pty
  BY DEF Serve
<1>5. Head(up) = "close" => \E t \in {"closed", "error"} :
         /\ down' = Append(down, Frame(t, <<>>)) /\ UNCHANGED <<pty, sub>>
         /\ doomed' = (pty # 0)
  BY DEF Serve
<1>6. Head(up) \in {"follow", "replay"} =>
         /\ pty # 0 /\ sub' /\ UNCHANGED <<pty, doomed>>
         /\ down' = down \/ down' = Append(down, Frame("output", ring))
  BY DEF Serve
<1>7. Head(up) = "unsubscribe" => ~sub' /\ UNCHANGED <<pty, doomed, down>>
  BY DEF Serve
<1>8. QED  BY <1>1, <1>2, <1>3, <1>4, <1>5, <1>6, <1>7

LEMMA ServeSession ==
  ASSUME TypeOK, LinkInv, Alone, Orderly, Serve, breach' = {}, cur # NoCall
  PROVE  Orderly'
<1>1. /\ up # <<>> /\ up' = Tail(up) /\ Elements(up) = {Head(up)} \cup Elements(up')
      /\ UNCHANGED <<row, cur, exited, step, answer, handle, callbacks, link, kill>>
  BY Serves
<1>2. /\ callbacks = {cur} /\ cur \in handle /\ cur \notin exited
      /\ link = "up" /\ up \in Follow /\ down = <<>>
  BY <1>1 DEF Orderly, Running, Phase, Beginning, Following, ExitComes, CutLoose, Over, Quiet
<1>3. Head(up) \in {"follow", "replay"} /\ up' = <<>>
  BY <1>1, <1>2, Shapes
<1>4. /\ pty # 0 /\ sub' /\ UNCHANGED <<pty, doomed>>
      /\ down' = down \/ down' = Append(down, Frame("output", ring))
  BY <1>3, Serves
<1>5. All(down', {"output"})
  <2>1. All(down, {"output"}) /\ "output" \in Frames /\ ring \in Seq(Chunk)
    BY <1>2, AllEmpty DEF Frames, TypeOK
  <2>2. QED  BY <1>4, <2>1, DownAppend
<1>6. Running'
  BY <1>1, <1>2, <1>3, <1>4, <1>5 DEF Running, Phase, Following
<1>7. \A k \in Call : ~Pending(k) /\ ~Pending(k)'
  BY <1>1 DEF Alone, Pending, Active
<1>8. Resting' /\ Calling' /\ Known'
  BY <1>1, <1>7 DEF Orderly, Resting, Calling, Known
<1>9. Ended'
  <2>1. "close" \notin Elements(up)
    BY <1>1, <1>3, ElementsEmpty
  <2>2. \A k \in Call : ~Opened(k)
    BY <1>7, PendingIs DEF Opened, Waiting
  <2>3. QED  BY <1>1, <1>4, <2>1, <2>2 DEF Orderly, Ended
<1>10. QED  BY <1>6, <1>8, <1>9 DEF Orderly

LEMMA ServeIdle ==
  ASSUME TypeOK, LinkInv, Alone, Orderly, Serve, breach' = {}, cur = NoCall,
         \A k \in Call : ~Pending(k)
  PROVE  Orderly'
<1>1. /\ up # <<>> /\ up' = Tail(up) /\ Elements(up) = {Head(up)} \cup Elements(up')
      /\ UNCHANGED <<row, cur, exited, step, answer, handle, callbacks, link, kill>>
  BY Serves
<1>2. Idle
  BY DEF Orderly, Resting
<1>3. \A k \in Call : ~Pending(k)' /\ ~Opened(k)
  BY <1>1, PendingIs DEF Pending, Active, Opened, Waiting
<1>4. Running' /\ Calling' /\ Known'
  BY <1>1, <1>3 DEF Orderly, Running, Calling, Known
<1>5. ASSUME NEW t \in Frames, NEW b \in Seq(Chunk), t \in Spent,
             down' = Append(down, Frame(t, b))
      PROVE  All(down', Spent)
  BY <1>2, <1>5, DownAppend DEF Idle
<1>6. <<>> \in Seq(Chunk) /\ ring \in Seq(Chunk) /\ {"closed", "error", "output"} \subseteq Spent
      /\ {"closed", "error", "output"} \subseteq Frames
  BY EmptySeq DEF TypeOK, Spent, Passing, Frames
<1>7. CASE up \in Leaving
  <2>1. Head(up) = "unsubscribe" /\ up' = <<>>
    BY <1>1, <1>7, TakeShort DEF Leaving
  <2>2. ~sub' /\ UNCHANGED <<pty, doomed, down>>
    BY <2>1, Serves
  <2>3. Idle'
    BY <1>1, <1>2, <2>1, <2>2 DEF Idle, Leaving
  <2>4. Ended'
    BY <1>1, <1>3, <1>7, <2>2, Shapes DEF Orderly, Ended
  <2>5. QED  BY <1>4, <2>3, <2>4 DEF Orderly, Resting
<1>8. CASE up \in Closing /\ Head(up) = "close"
  <2>1. up' = <<"unsubscribe">>
    BY <1>1, <1>8, Shapes
  <2>2. PICK t \in {"closed", "error"} :
           /\ down' = Append(down, Frame(t, <<>>)) /\ UNCHANGED <<pty, sub>>
           /\ doomed' = (pty # 0)
    BY <1>8, Serves
  <2>3. All(down', Spent)
    BY <1>5, <1>6, <2>2
  <2>4. Idle'
    BY <1>1, <1>2, <2>1, <2>3, TakeShort DEF Idle, Leaving
  <2>5. Ended'
    BY <2>2 DEF Ended
  <2>6. QED  BY <1>4, <2>4, <2>5 DEF Orderly, Resting
<1>9. CASE up \in Closing /\ Head(up) \in {"follow", "replay"}
  <2>1. up' = <<"close", "unsubscribe">>
    BY <1>1, <1>9, Shapes
  <2>2. down' = down \/ down' = Append(down, Frame("output", ring))
    BY <1>9, Serves
  <2>3. All(down', Spent)
    BY <1>2, <1>5, <1>6, <2>2 DEF Idle
  <2>4. up' \in Closing
    BY <2>1 DEF Closing
  <2>5. Idle'
    BY <1>1, <1>2, <2>3, <2>4, Shapes DEF Idle
  <2>6. Ended'
    BY <2>4, Shapes DEF Ended
  <2>7. QED  BY <1>4, <2>5, <2>6 DEF Orderly, Resting
<1>10. QED  BY <1>2, <1>7, <1>8, <1>9, Shapes DEF Idle

LEMMA ServeCall ==
  ASSUME TypeOK, LinkInv, Alone, Orderly, Serve, breach' = {}, NEW k \in Call, Pending(k)
  PROVE  Orderly'
<1>1. /\ up # <<>> /\ up' = Tail(up) /\ link = "up"
      /\ Elements(up) = {Head(up)} \cup Elements(up')
      /\ UNCHANGED <<row, cur, exited, step, answer, handle, callbacks, link, kill>>
  BY Serves
<1>2. /\ cur = NoCall /\ callbacks = {} /\ ~kill /\ ~doomed /\ Goes(k)
      /\ \A j \in Call \ {k} : ~Pending(j) /\ ~Opened(j)
  BY OnlyCall
<1>3. \A j \in Call : Pending(j)' <=> Pending(j)
  BY <1>1 DEF Pending, Active
<1>4. Before(k) \/ Asked(k)
  BY <1>1, <1>2 DEF Goes, Replied, CutOff, Told, Quiet
<1>5. UNCHANGED <<AwaitsClient(k), Waiting(k), Request(k), Replies(k)>>
  BY <1>1 DEF AwaitsClient, Waiting, Request, Replies
<1>6. All(down, Passing) /\ ~Opened(k)
  <2>1. All(down, Passing)
    BY <1>4 DEF Before, Asked
  <2>2. \A f \in Elements(down) : f.t # "open-ok"
    BY <2>1 DEF All, Elements, Passing
  <2>3. ~Opened(k)
    BY <1>4, <2>2 DEF Opened, Before, AwaitsClient, Asked
  <2>4. QED  BY <2>1, <2>3
<1>7. Running' /\ Resting' /\ Known'
  BY <1>1, <1>2, <1>3 DEF Orderly, Running, Resting, Known
<1>8. ASSUME Goes(k)', ~doomed', pty' = pty \/ Opened(k)', "close" \notin Elements(up)
      PROVE  Orderly'
  <2>1. Calling'
    BY <1>1, <1>2, <1>3, <1>8 DEF Calling
  <2>2. Ended'
    BY <1>1, <1>2, <1>6, <1>8 DEF Orderly, Ended
  <2>3. QED  BY <1>7, <2>1, <2>2 DEF Orderly
<1>9. CASE up = <<"unsubscribe">> /\ Before(k)
  <2>1. Head(up) = "unsubscribe" /\ up' = <<>>
    BY <1>1, <1>9, TakeShort
  <2>2. ~sub' /\ UNCHANGED <<pty, doomed, down>>
    BY <2>1, Serves
  <2>3. Before(k)'
    BY <1>5, <1>9, <2>1, <2>2 DEF Before, Leaving
  <2>4. "close" \notin Elements(up)
    BY <1>9, Shapes DEF Before
  <2>5. QED  BY <1>2, <1>8, <2>2, <2>3, <2>4 DEF Goes
<1>10. CASE up = <<"unsubscribe", Request(k)>> /\ Asked(k)
  <2>1. Head(up) = "unsubscribe" /\ up' = <<Request(k)>>
    BY <1>1, <1>10, TakeShort
  <2>2. ~sub' /\ UNCHANGED <<pty, doomed, down>>
    BY <2>1, Serves
  <2>3. Asked(k)'
    BY <1>1, <1>5, <1>10, <2>1, <2>2 DEF Asked
  <2>4. "close" \notin Elements(up)
    <3>1. Elements(<<Request(k)>>) = {Request(k)} /\ Request(k) # "close"
      BY DEF Elements, Request
    <3>2. QED  BY <1>1, <2>1, <3>1
  <2>5. QED  BY <1>2, <1>8, <2>2, <2>3, <2>4 DEF Goes
<1>11. CASE up = <<Request(k)>> /\ ~sub /\ Asked(k)
  <2>1. Head(up) = Request(k) /\ up' = <<>> /\ Request(k) \in {"list", "open"}
    BY <1>1, <1>11, TakeShort DEF Request
  <2>2. "close" \notin Elements(up)
    BY <1>1, <2>1, ElementsEmpty
  <2>3. <<>> \in Seq(Chunk)
    BY EmptySeq
  <2>4. ASSUME NEW t \in Replies(k), t \in Frames, down' = Append(down, Frame(t, <<>>)),
               UNCHANGED sub
        PROVE  Goes(k)'
    <3>1. Ending(down', Replies(k), Passing)
      BY <1>6, <2>3, <2>4, DownAppend
    <3>2. QED  BY <1>1, <1>5, <1>11, <2>1, <2>4, <3>1 DEF Goes, Replied, Asked, Quiet
  <2>5. CASE Request(k) = "list"
    <3>1. PICK t \in {"alive", "absent"} :
             down' = Append(down, Frame(t, <<>>)) /\ UNCHANGED <<pty, doomed, sub>>
      BY <2>1, <2>5, Serves
    <3>2. t \in Replies(k) /\ t \in Frames
      BY <2>5 DEF Replies, Request, Frames
    <3>3. QED  BY <1>2, <1>8, <2>2, <2>4, <3>1, <3>2
  <2>6. CASE Request(k) = "open"
    <3>1. PICK t \in {"open-ok", "exists", "error"} :
             /\ down' = Append(down, Frame(t, <<>>)) /\ UNCHANGED <<doomed, sub>>
             /\ t = "open-ok" \/ pty' = pty
      BY <2>1, <2>6, Serves
    <3>2. t \in Replies(k) /\ t \in Frames /\ step[k] = "open"
      BY <2>6 DEF Replies, Request, Frames
    <3>3. t = "open-ok" => Opened(k)'
      <4>1. Frame(t, <<>>) \in Elements(down') /\ Frame(t, <<>>).t = t
        BY <2>3, <3>1, <3>2, AppendFrame DEF Frame
      <4>2. QED  BY <1>1, <1>11, <3>2, <4>1 DEF Opened, Asked
    <3>4. QED  BY <1>2, <1>8, <2>2, <2>4, <3>1, <3>2, <3>3
  <2>7. QED  BY <2>1, <2>5, <2>6
<1>12. QED  BY <1>1, <1>4, <1>9, <1>10, <1>11 DEF Before, Leaving, Asked

\* Each step keeps the order, as long as nothing is breached.
LEMMA StepOrderly ==
  ASSUME TypeOK, LinkInv, Alone, Orderly, Next, breach' = {}
  PROVE  Orderly'
<1>1. CASE Serve
  BY <1>1, ServeSession, ServeIdle, ServeCall
<1>2. CASE DaemonBack
  BY <1>2, Unmoved DEF DaemonBack, record, calls, client
<1>3. ASSUME NEW r \in Renderer, Drop(r)  PROVE Orderly'
  BY <1>3, Unmoved DEF Drop, record, calls, client, daemon
<1>4. CASE DaemonNext
  BY <1>1, <1>2, <1>4, OutputComes, ExitComing, LostOrderly DEF DaemonNext
<1>5. CASE ClientNext
  BY <1>5, OutputOrderly, ExitOrderly, ReplyOrderly, DisconnectedOrderly DEF ClientNext
<1>6. QED
  BY <1>3, <1>4, <1>5, CallNextOrderly, DisposeOrderly, KillOrderly, CrashOrderly DEF Next

OrderInv == AnswerInv /\ ServedInv /\ (breach = {} => Orderly)

LEMMA OrderInvariance == Spec => []OrderInv
<1>1. Init => OrderInv
  <2>1. SUFFICES ASSUME Init  PROVE AnswerInv /\ ServedInv /\ Orderly
    BY DEF OrderInv
  <2>2. /\ row = "none" /\ cur = NoCall /\ exited = {} /\ callbacks = {} /\ up = <<>>
        /\ down = <<>> /\ sub = FALSE /\ pty = 0 /\ step = [k \in Call |-> "unused"]
    BY <2>1 DEF Init
  <2>3. \A k \in Call : ~Pending(k)
    BY <2>2 DEF Pending, Active, InFlight
  <2>4. Idle
    BY <2>2, AllEmpty DEF Idle, Leaving
  <2>5. Orderly
    BY <2>2, <2>3, <2>4, CallIsNat DEF Orderly, Running, Resting, Calling, Ended, Known
  <2>6. LinkInv /\ CallsAnswered
    BY <2>1 DEF Init, LinkInv, CallsAnswered, Waiting
  <2>7. HeldOpen /\ Alone /\ Served
    BY <2>1 DEF Init, HeldOpen, Alone, Pending, Active, InFlight, Served, Attached
  <2>8. QED  BY <2>1, <2>5, <2>6, <2>7, InitTypes DEF AnswerInv, ServedInv
<1>2. OrderInv /\ [Next]_vars => OrderInv'
  <2>1. SUFFICES ASSUME OrderInv, [Next]_vars  PROVE OrderInv'
    OBVIOUS
  <2>2. AnswerInv' /\ ServedInv'
    BY <2>1, StepAnswers, StepServed DEF OrderInv
  <2>3. ASSUME breach' = {}  PROVE Orderly'
    <3>1. TypeOK /\ LinkInv /\ Alone /\ Orderly
      BY <2>1, <2>3, BreachGrows DEF OrderInv, AnswerInv, ServedInv
    <3>2. CASE UNCHANGED vars
      BY <3>1, <3>2, Unmoved DEF vars, record, calls, client, daemon
    <3>3. QED  BY <2>1, <2>3, <3>1, <3>2, StepOrderly
  <2>4. QED  BY <2>2, <2>3 DEF OrderInv
<1>3. QED  BY <1>1, <1>2, PTL DEF Spec

\* While calls do not meet and nothing was late, left or missed, a session at
\* rest follows the shell of the daemon, on the one registration the client
\* has for it; and a terminal that ended left no shell.
THEOREM RecordAtRest == Spec => []RecordFollowsShell
<1>1. OrderInv => RecordFollowsShell
  <2>1. SUFFICES ASSUME OrderInv, Settled, breach = {}
                 PROVE  /\ cur # NoCall /\ cur \notin exited =>
                              pty # 0 /\ sub /\ callbacks = {cur}
                        /\ row \in {"exited", "disposed"} => pty = 0
    BY DEF RecordFollowsShell
  <2>2. Orderly /\ Calm /\ up = <<>> /\ down = <<>> /\ link # "cut"
    BY <2>1 DEF OrderInv, Settled
  <2>3. ASSUME cur # NoCall, cur \notin exited  PROVE pty # 0 /\ sub /\ callbacks = {cur}
    <3>1. callbacks = {cur} /\ (Beginning \/ Following \/ ExitComes \/ CutLoose)
      BY <2>2, <2>3 DEF Orderly, Running, Phase
    <3>2. up \notin Follow
      BY <2>2, Shapes
    <3>3. Following
      BY <2>2, <3>1, <3>2 DEF Beginning, ExitComes, Ending, CutLoose
    <3>4. QED  BY <3>1, <3>3 DEF Following
  <2>4. ASSUME row \in {"exited", "disposed"}  PROVE pty = 0
    <3>1. ~kill /\ ~doomed /\ "close" \notin Elements(up)
      BY <2>2 DEF Calm, CalmBut
    <3>2. \A k \in Call : ~Opened(k)
      BY <2>2 DEF Calm, CalmBut, Active, InFlight, Opened
    <3>3. QED  BY <2>2, <2>4, <3>1, <3>2 DEF Orderly, Ended
  <2>5. QED  BY <2>3, <2>4
<1>2. QED  BY <1>1, OrderInvariance, PTL
=============================================================================
