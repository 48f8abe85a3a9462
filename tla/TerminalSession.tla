-------------------------- MODULE TerminalSession --------------------------
(***************************************************************************)
(* One terminal, end to end: the transports of the renderers that show it, *)
(* the session record and the database row of host-service (terminal.ts),  *)
(* its DaemonClient, and the daemon that runs the shell.                   *)
(*                                                                         *)
(* A call is the handling of one attach (of one WebSocket) or one create   *)
(* request; the record of a session is named after the call that made it,  *)
(* because two calls may each make one.  host-service runs one callback at *)
(* a time, and the continuation of a promise before the next callback.     *)
(* Requests to the daemon and its frames travel in order on one            *)
(* connection and carry the id of the terminal but none of the request.    *)
(***************************************************************************)
EXTENDS Naturals, Sequences, FiniteSets

CONSTANTS
    Renderer,
    NoRenderer,
    MaxCalls,   \* bound: attaches and creates
    MaxOut,     \* bound: chunks of output
    MaxPty,     \* bound: shells spawned; the daemon refuses the next one
    MaxFaults   \* bound: crashes, connections lost, requests timed out

Call == 1..MaxCalls
NoCall == 0

ASSUME TerminalAssumption ==
    /\ NoRenderer \notin Renderer
    /\ {MaxCalls, MaxOut, MaxPty, MaxFaults} \subseteq Nat

VARIABLES
    row,       \* status of the row in the table terminalSessions
    cur,       \* sessions.get(terminalId)
    socks,     \* socks[k]: session.sockets of the record k
    exited,    \* records whose shell has exited
    buffer,    \* buffer[k]: output kept for the next attach
    heard,     \* heard[k], history: output the record was given
    handle,    \* records with an unsubscribeDaemon
    callbacks, \* records registered for the id in the DaemonClient
    step,      \* step[k]: where the call is
    replay,    \* replay[k]: the attach asked for a replay
    answer,    \* answer[k]: what the call is about to go on with
    kill,      \* a closeDaemonSessionById is under way
    link,      \* the connection of the DaemonClient
    up, down,  \* requests and frames on it
    listening, \* the daemon accepts connections
    pty,       \* the shell the daemon runs, by number, or 0
    doomed,    \* that shell was told to end
    ring,      \* its ring buffer
    sub,       \* the connection is subscribed to it
    spawned, made, faults,
    viewer,    \* viewer[k]: the renderer whose socket call k handles
    wire,      \* wire[k]: the WebSocket; half: only the server has it open
    at,        \* at[r]: the socket of the transport, by its call
    ended,     \* transports that will not reconnect: _terminated
    shown,     \* shown[r]: output written to the xterm
    lost,      \* history: output written to a half open socket
    breach     \* history: calls that met, came late, left a shell the daemon
               \* was to close or the host to register, or missed its exit

record == <<cur, socks, exited, buffer, heard>>
calls == <<step, replay, answer>>
client == <<handle, callbacks, link, up, down>>
daemon == <<listening, pty, doomed, ring, sub, spawned, made>>
views == <<viewer, wire, at, ended, shown, lost>>
vars == <<row, record, calls, client, kill, daemon, views, faults, breach>>

Requests == {"list", "open", "close", "follow", "replay", "unsubscribe"}
Frames == {"output", "exit", "open-ok", "exists", "error", "closed",
           "alive", "absent"}
InFlight == {"opened", "adopt", "adoptlist", "create", "open", "relist"}
Chunk == 1..MaxOut

TypeOK ==
    /\ row \in {"none", "active", "exited", "disposed"}
    /\ cur \in Call \cup {NoCall}
    /\ socks \in [Call -> SUBSET Call]
    /\ exited \subseteq Call
    /\ buffer \in [Call -> Seq(Chunk)]
    /\ heard \in [Call -> SUBSET Chunk]
    /\ handle \subseteq Call
    /\ callbacks \subseteq Call
    /\ step \in [Call -> InFlight \cup {"unused", "done"}]
    /\ replay \in [Call -> BOOLEAN]
    /\ answer \in [Call -> Frames \cup {"none", "failed"}]
    /\ kill \in BOOLEAN
    /\ link \in {"none", "up", "cut"}
    /\ up \in Seq(Requests)
    /\ down \in Seq([t : Frames, bytes : Seq(Chunk)])
    /\ listening \in BOOLEAN
    /\ pty \in 0..MaxPty
    /\ doomed \in BOOLEAN
    /\ ring \in Seq(Chunk)
    /\ sub \in BOOLEAN
    /\ spawned \in 0..MaxPty
    /\ made \in 0..MaxOut
    /\ faults \in 0..MaxFaults
    /\ viewer \in [Call -> Renderer \cup {NoRenderer}]
    /\ wire \in [Call -> {"none", "open", "half", "closed"}]
    /\ at \in [Renderer -> Call \cup {NoCall}]
    /\ ended \subseteq Renderer
    /\ shown \in [Renderer -> Seq(Chunk)]
    /\ lost \subseteq Chunk
    /\ breach \subseteq {"overlap", "late", "left", "missed"}

Init ==
    /\ row = "none" /\ cur = NoCall /\ exited = {}
    /\ socks = [k \in Call |-> {}]
    /\ buffer = [k \in Call |-> <<>>]
    /\ heard = [k \in Call |-> {}]
    /\ handle = {} /\ callbacks = {}
    /\ step = [k \in Call |-> "unused"]
    /\ replay = [k \in Call |-> FALSE]
    /\ answer = [k \in Call |-> "none"]
    /\ kill = FALSE
    /\ link = "none" /\ up = <<>> /\ down = <<>>
    /\ listening = TRUE
    /\ pty = 0 /\ doomed = FALSE /\ ring = <<>> /\ sub = FALSE
    /\ spawned = 0 /\ made = 0 /\ faults = 0
    /\ viewer = [k \in Call |-> NoRenderer]
    /\ wire = [k \in Call |-> "none"]
    /\ at = [r \in Renderer |-> NoCall]
    /\ ended = {} /\ lost = {} /\ breach = {}
    /\ shown = [r \in Renderer |-> <<>>]

Elements(s) == {s[i] : i \in DOMAIN s}
Frame(t, bytes) == [t |-> t, bytes |-> bytes]
-----------------------------------------------------------------------------
(***************************************************************************)
(* The event loop of host-service.                                         *)
(***************************************************************************)
Active(k) == step[k] \in InFlight
AwaitsClient(k) == step[k] \in {"adopt", "create"}
\* Continuations that run before the next callback; a chunk may hold several
\* frames, which are handled before any of them.
Resumed == {k \in Call : AwaitsClient(k) /\ link # "none"}
Answered == {k \in Call : answer[k] # "none"}
NextCallback == Resumed \cup Answered = {}

Fresh(k) == step[k] = "unused" /\ \A j \in Call : j < k => step[j] # "unused"

\* No other call is being handled and no kill of the shell is outstanding.
CalmBut(K) ==
    /\ \A k \in Call \ K : ~Active(k)
    /\ ~kill /\ ~doomed
    /\ "close" \notin Elements(up)
    /\ \A f \in Elements(down) : f.t \notin {"closed", "error"}
Calm == CalmBut({})
Meets(k) == breach' = IF CalmBut({k}) THEN breach ELSE breach \cup {"overlap"}

\* Sockets of a record that the server takes for open.
Open(k) == {j \in socks[k] : wire[j] \in {"open", "half"}}
\* Renderers that get what is written to the sockets J.
Reached(J) == {r \in Renderer : at[r] \in J}
\* The server closes the sockets J: their transports see it.
CloseSockets(J) ==
    /\ wire' = [j \in Call |-> IF j \in J THEN "closed" ELSE wire[j]]
    /\ at' = [r \in Renderer |-> IF at[r] \in J THEN NoCall ELSE at[r]]
-----------------------------------------------------------------------------
(***************************************************************************)
(* How a call ends.                                                        *)
(***************************************************************************)
Ends(k) ==
    /\ step' = [step EXCEPT ![k] = "done"]
    /\ answer' = [answer EXCEPT ![k] = "none"]

\* An error to the client: its transport does not reconnect.
Reject(k) ==
    /\ Ends(k)
    /\ CloseSockets(IF viewer[k] = NoRenderer THEN {} ELSE {k})
    /\ ended' = ended \cup Reached({k})
    /\ UNCHANGED <<viewer, shown, lost, socks, buffer>>

\* mutant: the buffer is emptied whoever takes it
AttachEmptying(k, c) ==
    /\ Ends(k)
    /\ socks' = [socks EXCEPT ![c] = @ \cup {k}]
    /\ buffer' = [buffer EXCEPT ![c] = <<>>]
    /\ UNCHANGED <<viewer, wire, at, ended, lost, shown>>
\* attachSocketToSession, with replayBuffer, if the socket is still open; a
\* create request has none.
Attach(k, c) ==
    LET open == wire[k] \in {"open", "half"}
        to == Reached({k})
    IN  /\ Ends(k)
        /\ socks' = [socks EXCEPT ![c] = IF open THEN @ \cup {k} ELSE @]
        /\ buffer' = [buffer EXCEPT ![c] = IF open THEN <<>> ELSE @]
        /\ shown' = [r \in Renderer |-> IF r \in to THEN shown[r] \o buffer[c]
                                        ELSE shown[r]]
        /\ lost' = IF wire[k] = "half" THEN lost \cup Elements(buffer[c])
                   ELSE lost
        /\ ended' = IF c \in exited THEN ended \cup to ELSE ended
        /\ UNCHANGED <<viewer, wire, at>>

\* The record is in the map and the row active before subscribe, which
\* throws when a replay is asked for and the id has callbacks; they are
\* added even so.
Register(k, replayed) ==
    /\ row' = "active"
    /\ cur' = k
    /\ callbacks' = callbacks \cup {k}
    /\ up' = IF callbacks # {} \/ link = "cut" THEN up
             ELSE Append(up, IF replayed THEN "replay" ELSE "follow")
    /\ IF callbacks # {} /\ replayed
       THEN Reject(k) /\ UNCHANGED handle
       ELSE Attach(k, k) /\ handle' = handle \cup {k}
-----------------------------------------------------------------------------
(***************************************************************************)
(* The calls.                                                              *)
(***************************************************************************)
\* The call goes on when getDaemonClient does.
Awaits(k, s) ==
    /\ step' = [step EXCEPT ![k] = s]
    /\ answer' = [answer EXCEPT ![k] = "none"]
    /\ UNCHANGED <<socks, buffer>>

\* A transport without a socket connects.  It asks for a replay until output
\* was shown.
Connect(r, k) ==
    /\ Fresh(k)
    /\ at[r] = NoCall /\ r \notin ended /\ row # "none"
    /\ step' = [step EXCEPT ![k] = "opened"]
    /\ viewer' = [viewer EXCEPT ![k] = r]
    /\ replay' = [replay EXCEPT ![k] = (shown[r] = <<>>)]
    /\ wire' = [wire EXCEPT ![k] = "open"]
    /\ at' = [at EXCEPT ![r] = k]
    /\ UNCHANGED <<row, record, answer, client, kill, daemon, ended, shown,
                   lost, faults, breach>>

\* onOpen: resolveSessionForAttach up to its first await.
OnOpen(k) ==
    /\ NextCallback /\ step[k] = "opened"
    /\ \/ cur # NoCall /\ Attach(k, cur) /\ UNCHANGED breach
       \/ cur = NoCall /\ row = "active" /\ Awaits(k, "adopt") /\ Meets(k)
          /\ UNCHANGED views
       \/ cur = NoCall /\ row # "active" /\ Reject(k) /\ UNCHANGED breach
    /\ UNCHANGED <<row, cur, exited, heard, replay, client, kill, daemon,
                   faults>>

\* A create request.
Create(k) ==
    /\ NextCallback /\ Fresh(k)
    /\ \/ cur # NoCall /\ Ends(k) /\ UNCHANGED <<socks, buffer, breach>>
       \/ cur = NoCall /\ Awaits(k, "create") /\ Meets(k)
    /\ UNCHANGED <<row, cur, exited, heard, replay, client, kill, daemon,
                   views, faults>>

\* getDaemonClient connects, or has a client that takes itself for connected.
ClientReady(k) ==
    /\ AwaitsClient(k)
    /\ link # "none" \/ listening
    /\ link' = IF link = "none" THEN "up" ELSE link
    /\ up' = IF link' = "cut" THEN up
             ELSE Append(up, IF step[k] = "adopt" THEN "list" ELSE "open")
    /\ Awaits(k, IF step[k] = "adopt" THEN "adoptlist" ELSE "open")
    /\ UNCHANGED <<row, cur, exited, heard, replay, handle, callbacks, down,
                   kill, daemon, views, faults, breach>>

\* An attach that could not adopt creates: a record that has come meanwhile
\* is attached to.
Fallback(k) ==
    /\ IF cur # NoCall THEN Attach(k, cur)
       ELSE Awaits(k, "create") /\ UNCHANGED views
    /\ UNCHANGED <<row, cur, handle, callbacks, up>>

ClientFails(k) ==
    /\ AwaitsClient(k) /\ link = "none" /\ ~listening
    /\ \/ step[k] = "adopt" /\ Fallback(k)
       \/ step[k] = "create" /\ Reject(k)
          /\ UNCHANGED <<row, cur, handle, callbacks, up>>
    /\ UNCHANGED <<exited, heard, replay, link, down, kill, daemon, faults,
                   breach>>

\* The continuation of a call that has its answer.
Continue(k) ==
    /\ LET a == answer[k] IN
       \/ step[k] = "adoptlist" /\ a = "alive" /\ Register(k, replay[k])
       \/ step[k] = "adoptlist" /\ a \in {"absent", "failed"} /\ Fallback(k)
       \/ step[k] = "open" /\ a = "open-ok" /\ Register(k, TRUE)
       \/ /\ step[k] = "open" /\ a = "exists"
          /\ up' = IF link = "cut" THEN up ELSE Append(up, "list")
          /\ Awaits(k, "relist")
          /\ UNCHANGED <<row, cur, handle, callbacks, views>>
       \/ step[k] = "relist" /\ a = "alive" /\ Register(k, TRUE)
       \/ /\ \/ step[k] = "open" /\ a \in {"error", "failed"}
             \/ step[k] = "relist" /\ a \in {"absent", "failed"}
          /\ Reject(k)
          /\ UNCHANGED <<row, cur, handle, callbacks, up>>
    /\ UNCHANGED <<exited, heard, replay, link, down, kill, daemon, faults,
                   breach>>

Timeout(k) ==
    /\ NextCallback /\ faults < MaxFaults
    /\ step[k] \in {"adoptlist", "open", "relist"}
    /\ answer' = [answer EXCEPT ![k] = "failed"]
    /\ faults' = faults + 1
    /\ breach' = breach \cup {"late"}
    /\ UNCHANGED <<row, record, step, replay, client, kill, daemon, views>>
-----------------------------------------------------------------------------
(***************************************************************************)
(* Frames of the daemon, the end of the connection, the end of a terminal. *)
(***************************************************************************)
\* Frames that answer a request: whoever waits for one of the kind.
Matches(k, t) ==
    \/ step[k] \in {"adoptlist", "relist"} /\ t \in {"alive", "absent"}
    \/ step[k] = "open" /\ t \in {"open-ok", "exists", "error"}

\* broadcastBytes of every record in c, and bufferOutput where it reached no
\* socket.
Broadcast(c, bytes) ==
    /\ buffer' = [k \in Call |-> IF k \in c /\ Open(k) = {}
                                 THEN buffer[k] \o bytes ELSE buffer[k]]
    /\ lost' = IF \E k \in c : \E j \in Open(k) : wire[j] = "half"
               THEN lost \cup Elements(bytes) ELSE lost
    /\ shown' = [r \in Renderer |->
                   IF \E k \in c : at[r] \in Open(k) THEN shown[r] \o bytes
                   ELSE shown[r]]

\* onData of the DaemonClient, one frame.
OnOutput ==
    /\ Resumed = {} /\ down # <<>> /\ Head(down).t = "output"
    /\ down' = Tail(down)
    /\ Broadcast(callbacks, Head(down).bytes)
    /\ heard' = [k \in Call |-> IF k \in callbacks
                                THEN heard[k] \cup Elements(Head(down).bytes)
                                ELSE heard[k]]
    /\ UNCHANGED <<row, cur, socks, exited, calls, handle, callbacks, link, up,
                   kill, daemon, viewer, wire, at, ended, faults, breach>>

OnExit ==
    /\ Resumed = {} /\ down # <<>> /\ Head(down).t = "exit"
    /\ down' = Tail(down)
    /\ exited' = exited \cup callbacks
    /\ row' = IF callbacks # {} THEN "exited" ELSE row
    /\ ended' = ended \cup Reached(UNION {Open(k) : k \in callbacks})
    /\ UNCHANGED <<cur, socks, buffer, heard, calls, handle, callbacks, link, up,
                   kill, daemon, viewer, wire, at, shown, lost, faults, breach>>

OnReply ==
    /\ Resumed = {} /\ down # <<>> /\ Head(down).t \notin {"output", "exit"}
    /\ down' = Tail(down)
    /\ answer' = [k \in Call |-> IF Matches(k, Head(down).t) /\ answer[k] = "none"
                                 THEN Head(down).t ELSE answer[k]]
    /\ UNCHANGED <<row, record, step, replay, handle, callbacks, link, up,
                   kill, daemon, views, faults, breach>>

\* mutant: the requests under way are left to their time-outs
RejectRequestsNot == UNCHANGED answer
RejectRequests ==
    answer' = [k \in Call |-> IF step[k] \in {"adoptlist", "open", "relist"}
                             THEN "failed" ELSE answer[k]]

\* mutant: the sockets stay open
CloseSessionNot == UNCHANGED <<wire, at, socks>>
CloseSession ==
    /\ CloseSockets(IF cur = NoCall THEN {} ELSE Open(cur))
    /\ socks' = [k \in Call |-> IF k = cur THEN {} ELSE socks[k]]

\* onClose of the client: the listener of terminal.ts closes the sockets of
\* the session in the map and forgets it, and requests are rejected.
Disconnected ==
    /\ NextCallback /\ link = "cut" /\ down = <<>>
    /\ link' = "none"
    /\ callbacks' = {}
    /\ RejectRequests
    /\ cur' = NoCall
    /\ handle' = handle \ {cur}
    /\ CloseSession
    /\ UNCHANGED <<row, exited, buffer, heard, step, replay, up, down, kill,
                   daemon, viewer, ended, shown, lost, faults, breach>>

\* mutant: the callbacks stay
UnsubscribeNot(k) == handle' = handle \ {k} /\ UNCHANGED callbacks
\* unsubscribeDaemon of the record: the last one tells the daemon.
Unsubscribe(k) ==
    /\ handle' = handle \ {k}
    /\ callbacks' = IF k \in handle THEN callbacks \ {k} ELSE callbacks

\* disposeSessionAndWait up to its first await: by a request or a message on
\* a socket.  Without a session the daemon is told on a connection made for it.
Dispose ==
    /\ NextCallback /\ row \in {"active", "exited"}
    /\ row' = "disposed"
    /\ IF cur = NoCall
       THEN /\ kill' = TRUE
            /\ UNCHANGED <<cur, socks, handle, callbacks, up, wire, at>>
       ELSE /\ cur' = NoCall
            /\ CloseSession
            /\ Unsubscribe(cur)
            /\ up' = IF link = "cut" THEN up
                     ELSE up \o (IF cur \in exited THEN <<>> ELSE <<"close">>)
                             \o (IF cur \in handle /\ callbacks = {cur}
                                 THEN <<"unsubscribe">> ELSE <<>>)
            /\ UNCHANGED kill
    /\ breach' = (IF Calm THEN breach ELSE breach \cup {"overlap"})
                  \cup (IF link = "cut" THEN {"left"} ELSE {})
    /\ UNCHANGED <<exited, buffer, heard, calls, link, down, daemon, viewer,
                   ended, shown, lost, faults>>

\* closeDaemonSessionById, which fails when nobody listens.
KillById ==
    /\ kill
    /\ kill' = FALSE
    /\ doomed' = (doomed \/ (listening /\ pty # 0))
    /\ breach' = IF listening THEN breach ELSE breach \cup {"left"}
    /\ UNCHANGED <<row, record, calls, client, listening, pty, ring, sub,
                   spawned, made, views, faults>>
-----------------------------------------------------------------------------
(***************************************************************************)
(* The daemon.                                                             *)
(***************************************************************************)
\* The next request: handleOpen, handleList, handleClose, handleSubscribe
\* and handleUnsubscribe.
Serve ==
    /\ up # <<>>
    /\ up' = Tail(up)
    /\ LET m == Head(up)
           Send(t, bytes) == down' = Append(down, Frame(t, bytes))
       IN  \/ /\ m = "list"
              /\ Send(IF pty = 0 THEN "absent" ELSE "alive", <<>>)
              /\ UNCHANGED <<pty, doomed, ring, sub, spawned>>
           \/ /\ m = "open"
              /\ IF pty = 0 /\ spawned < MaxPty
                 THEN /\ spawned' = spawned + 1
                      /\ pty' = spawned + 1
                      /\ ring' = <<>>
                      /\ Send("open-ok", <<>>)
                 ELSE /\ Send(IF pty = 0 THEN "error" ELSE "exists", <<>>)
                      /\ UNCHANGED <<spawned, pty, ring>>
              /\ UNCHANGED <<doomed, sub>>
           \/ /\ m = "close"
              /\ doomed' = (pty # 0)
              /\ Send(IF pty = 0 THEN "error" ELSE "closed", <<>>)
              /\ UNCHANGED <<pty, ring, sub, spawned>>
           \/ /\ m \in {"follow", "replay"}
              /\ sub' = (pty # 0)
              /\ IF pty = 0 THEN Send("error", <<>>)
                 ELSE IF m = "replay" /\ ring # <<>> THEN Send("output", ring)
                 ELSE UNCHANGED down
              /\ UNCHANGED <<pty, doomed, ring, spawned>>
           \/ /\ m = "unsubscribe"
              /\ sub' = FALSE
              /\ UNCHANGED <<pty, doomed, ring, spawned, down>>
    /\ breach' = IF Head(up) \in {"follow", "replay"} /\ pty = 0
                 THEN breach \cup {"missed"} ELSE breach
    /\ UNCHANGED <<row, record, calls, handle, callbacks, link, kill, listening,
                   made, views, faults>>

Output ==
    /\ pty # 0 /\ made < MaxOut
    /\ made' = made + 1
    /\ ring' = Append(ring, made + 1)
    /\ down' = IF sub THEN Append(down, Frame("output", <<made + 1>>)) ELSE down
    /\ UNCHANGED <<row, record, calls, handle, callbacks, link, up, kill,
                   listening, pty, doomed, sub, spawned, views, faults, breach>>

ShellExits ==
    /\ pty # 0
    /\ pty' = 0 /\ doomed' = FALSE /\ ring' = <<>> /\ sub' = FALSE
    /\ down' = IF sub THEN Append(down, Frame("exit", <<>>)) ELSE down
    /\ UNCHANGED <<row, record, calls, handle, callbacks, link, up, kill,
                   listening, spawned, made, views, faults, breach>>

\* The connection is lost: the daemon crashes with its shells, or hands them
\* over to a successor.
Abandons ==
    \/ kill \/ "close" \in Elements(up)
    \/ \E k \in Call : step[k] \in {"open", "relist"}
Lost(crash) ==
    /\ listening /\ faults < MaxFaults
    /\ faults' = faults + 1
    /\ listening' = FALSE
    /\ link' = IF link = "up" THEN "cut" ELSE link
    /\ up' = <<>>
    /\ sub' = FALSE
    /\ pty' = IF crash THEN 0 ELSE pty
    /\ doomed' = (doomed /\ ~crash)
    /\ ring' = IF crash THEN <<>> ELSE ring
    /\ breach' = IF Abandons THEN breach \cup {"left"} ELSE breach
    /\ UNCHANGED <<row, record, calls, handle, callbacks, down, kill, spawned,
                   made, views>>

\* mutant: a state the connection does not have
DaemonBackMisnamed ==
    /\ ~listening
    /\ listening' = TRUE
    /\ link' = IF link = "cut" THEN "down" ELSE link
    /\ UNCHANGED <<row, record, calls, handle, callbacks, up, down, kill, pty,
                   doomed, ring, sub, spawned, made, views, faults, breach>>
DaemonBack ==
    /\ ~listening
    /\ listening' = TRUE
    /\ UNCHANGED <<row, record, calls, client, kill, pty, doomed, ring, sub,
                   spawned, made, views, faults, breach>>
-----------------------------------------------------------------------------
(***************************************************************************)
(* Renderers, and host-service itself.                                     *)
(***************************************************************************)
\* The socket of a transport is gone and the server does not know yet.
Drop(r) ==
    /\ at[r] # NoCall
    /\ wire' = [wire EXCEPT ![at[r]] = "half"]
    /\ at' = [at EXCEPT ![r] = NoCall]
    /\ UNCHANGED <<row, record, calls, client, kill, daemon, viewer, ended,
                   shown, lost, faults, breach>>

\* onClose: the session in the map forgets the socket, another record does
\* when it next broadcasts.
OnClose(k) ==
    /\ NextCallback /\ wire[k] = "half"
    /\ wire' = [wire EXCEPT ![k] = "closed"]
    /\ socks' = [c \in Call |-> IF c = cur THEN socks[c] \ {k} ELSE socks[c]]
    /\ UNCHANGED <<row, cur, exited, buffer, heard, calls, client, kill, daemon,
                   viewer, at, ended, shown, lost, faults, breach>>

\* host-service ends and starts: only the row stays.  What it wrote to the
\* daemon is read first.
HostCrash ==
    /\ faults < MaxFaults /\ up = <<>>
    /\ faults' = faults + 1
    /\ cur' = NoCall /\ exited' = {} /\ handle' = {} /\ callbacks' = {}
    /\ socks' = [k \in Call |-> {}]
    /\ buffer' = [k \in Call |-> <<>>]
    /\ heard' = [k \in Call |-> {}]
    /\ step' = [k \in Call |-> IF Active(k) THEN "done" ELSE step[k]]
    /\ answer' = [k \in Call |-> "none"]
    /\ kill' = FALSE
    /\ link' = "none" /\ down' = <<>> /\ sub' = FALSE
    /\ CloseSockets({k \in Call : wire[k] \in {"open", "half"}})
    /\ breach' = IF Abandons THEN breach \cup {"left"} ELSE breach
    /\ UNCHANGED <<row, replay, up, listening, pty, doomed, ring, spawned, made,
                   viewer, ended, shown, lost>>
-----------------------------------------------------------------------------
CallNext(k) ==
    \/ \E r \in Renderer : Connect(r, k)
    \/ OnOpen(k) \/ Create(k) \/ ClientReady(k) \/ ClientFails(k)
    \/ Continue(k) \/ Timeout(k) \/ OnClose(k)

ClientNext == OnOutput \/ OnExit \/ OnReply \/ Disconnected

DaemonNext ==
    \/ Serve \/ Output \/ ShellExits \/ DaemonBack
    \/ \E crash \in BOOLEAN : Lost(crash)

Next ==
    \/ \E k \in Call : CallNext(k)
    \/ ClientNext \/ DaemonNext
    \/ Dispose \/ KillById \/ HostCrash
    \/ \E r \in Renderer : Drop(r)

Spec == Init /\ [][Next]_vars
-----------------------------------------------------------------------------
(***************************************************************************)
(* Properties.                                                             *)
(***************************************************************************)
\* Renderers whose socket has been attached.
Attached(r) == at[r] # NoCall /\ step[at[r]] = "done"

\* While calls did not meet, the socket of every renderer that believes it is
\* attached is one of the session in the map: its input and its dispose
\* message are not ignored.
AttachedIsServed ==
    breach = {} =>
       \A r \in Renderer : Attached(r) => cur # NoCall /\ at[r] \in socks[cur]

\* Output that reached the session in the map was shown, or waits for the
\* next attach, or was written to a socket the other side had left.
OutputAccounted ==
    cur # NoCall =>
       \A x \in heard[cur] :
          \/ x \in Elements(buffer[cur]) \cup lost
          \/ \E r \in Renderer : x \in Elements(shown[r])

\* When calls did not meet and nothing is under way, the session in the map
\* follows the shell of the daemon, and a terminal that is not active has none.
Settled == Calm /\ up = <<>> /\ down = <<>> /\ link # "cut"
RecordFollowsShell ==
    Settled /\ breach = {} =>
       /\ cur # NoCall /\ cur \notin exited =>
             pty # 0 /\ sub /\ callbacks = {cur}
       /\ row \in {"exited", "disposed"} => pty = 0

\* A call that waits for the daemon has its request or an answer on the way,
\* or will be told that the connection is lost: none waits for ever.
CallsAnswered ==
    \A k \in Call :
       step[k] \in {"adoptlist", "open", "relist"} /\ answer[k] = "none" =>
          \/ link = "cut"
          \/ \E f \in Elements(down) : Matches(k, f.t)
          \/ (IF step[k] = "open" THEN "open" ELSE "list") \in Elements(up)

\* What a transport has shown is not shown to it again.
NoDoubledOutput ==
    \A r \in Renderer : \A i, j \in DOMAIN shown[r] :
       shown[r][i] = shown[r][j] => i = j
=============================================================================
