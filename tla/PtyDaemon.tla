----------------------------- MODULE PtyDaemon -----------------------------
(***************************************************************************)
(* One pty-daemon process: the session store, the connections of its       *)
(* socket server, the handlers of the wire protocol and the fan-out of     *)
(* PTY output and exit to subscribers (packages/pty-daemon/src).           *)
(*                                                                         *)
(* The daemon is single threaded: every action is one callback that runs   *)
(* to completion.  The bytes a PTY produces are named by their position    *)
(* in the stream of its session id; the stream goes on, and base moves,    *)
(* when an id is opened again.                                             *)
(***************************************************************************)
EXTENDS Naturals, Sequences, FiniteSets

CONSTANTS
    Id,           \* session ids the clients use
    Conn,         \* connection slots; a slot is used again after it closes
    Protocols,    \* protocol versions a client may offer
    Supported,    \* SUPPORTED_PROTOCOL_VERSIONS of this daemon
    BufferCap,    \* bufferCap: bytes kept for replay
    OutboundCap,  \* outboundBufferCap, counted in frames
    MaxChunk,     \* bound: bytes in one PTY read
    MaxBytes      \* bound: bytes a session id ever produces

ASSUME DaemonAssumption ==
    /\ BufferCap \in Nat \ {0}
    /\ OutboundCap \in Nat \ {0}
    /\ MaxChunk \in Nat \ {0}
    /\ MaxBytes \in Nat
    /\ Protocols \subseteq Nat
    /\ Supported \subseteq Nat

VARIABLES
    up,       \* the process is listening
    store,    \* SessionStore.sessions: the ids with an entry
    base,     \* base[i]: stream position where the session of i began
    total,    \* total[i]: stream position its PTY has produced
    chunks,   \* chunks[i]: start positions of the chunks in the ring buffer
    term,     \* term[i]: strongest signal sent to the shell
    escal,    \* escal[i]: killEscalationTimer is armed
    conn,     \* conn[c]: state of the connection
    subs,     \* subs[c]: conn.subscriptions
    outq,     \* outq[c]: frames written and not yet read by the client
    fresh,    \* history: subscriptions that have not sent output yet
    recv      \* history: recv[c][i], position up to which the client has read

vars == <<up, store, base, total, chunks, term, escal, conn, subs, outq,
          fresh, recv>>
ptyVars == <<base, total, chunks, term, escal>>

FrameType == {"hello-ack", "error", "open-ok", "closed", "list-reply",
              "output", "exit"}
\* first marks, as history, the first output frame of a subscription.
Frame == [type : FrameType, id : Id \cup {"none"}, from : Nat, to : Nat,
          first : BOOLEAN]

Reply(t, i) == [type |-> t, id |-> i, from |-> 0, to |-> 0, first |-> FALSE]
Output(i, a, b, f) ==
    [type |-> "output", id |-> i, from |-> a, to |-> b, first |-> f]
\* mutant: an exit frame of a type the protocol does not have
ExitMisnamed(i) ==
    [type |-> "exited", id |-> i, from |-> total[i], to |-> total[i],
     first |-> FALSE]
Exit(i) ==
    [type |-> "exit", id |-> i, from |-> total[i], to |-> total[i],
     first |-> FALSE]

TypeOK ==
    /\ up \in BOOLEAN
    /\ store \subseteq Id
    /\ base \in [Id -> Nat]
    /\ total \in [Id -> Nat]
    /\ chunks \in [Id -> SUBSET Nat]
    /\ term \in [Id -> {"run", "hup", "kill"}]
    /\ escal \in [Id -> BOOLEAN]
    /\ conn \in [Conn -> {"closed", "open", "ready", "destroyed"}]
    /\ subs \in [Conn -> SUBSET Id]
    /\ outq \in [Conn -> Seq(Frame)]
    /\ fresh \in [Conn -> SUBSET Id]
    /\ recv \in [Conn -> [Id -> Nat]]

Init ==
    /\ up = TRUE
    /\ store = {}
    /\ base = [i \in Id |-> 0]
    /\ total = [i \in Id |-> 0]
    /\ chunks = [i \in Id |-> {}]
    /\ term = [i \in Id |-> "run"]
    /\ escal = [i \in Id |-> FALSE]
    /\ conn = [c \in Conn |-> "closed"]
    /\ subs = [c \in Conn |-> {}]
    /\ outq = [c \in Conn |-> <<>>]
    /\ fresh = [c \in Conn |-> {}]
    /\ recv = [c \in Conn |-> [i \in Id |-> 0]]
-----------------------------------------------------------------------------
(***************************************************************************)
(* writeMessage: a destroyed socket swallows the frame; a reader that      *)
(* leaves more than the outbound cap unread loses its connection, and      *)
(* what was buffered for it.                                               *)
(***************************************************************************)
Writable == {c \in Conn : conn[c] \in {"open", "ready"}}
Drowned(R) == {c \in R \cap Writable : Len(outq[c]) >= OutboundCap}

\* mutant: one reader that is behind ends the fan-out for all
SendAllOrNone(R, f) ==
    /\ conn' = [c \in Conn |-> IF c \in Drowned(R) THEN "destroyed"
                                                   ELSE conn[c]]
    /\ outq' = [c \in Conn |->
                  IF c \in Drowned(R) THEN <<>>
                  ELSE IF c \in R \cap Writable /\ Drowned(R) = {}
                    THEN Append(outq[c], f[c])
                  ELSE outq[c]]
\* mutant: a frame for a reader that is behind is dropped
SendDropping(R, f) ==
    /\ UNCHANGED conn
    /\ outq' = [c \in Conn |->
                  IF c \in (R \cap Writable) \ Drowned(R)
                  THEN Append(outq[c], f[c]) ELSE outq[c]]
Send(R, f) ==
    /\ conn' = [c \in Conn |-> IF c \in Drowned(R) THEN "destroyed"
                                                   ELSE conn[c]]
    /\ outq' = [c \in Conn |->
                  IF c \in Drowned(R) THEN <<>>
                  ELSE IF c \in R \cap Writable THEN Append(outq[c], f[c])
                  ELSE outq[c]]

Answer(c, t, i) == Send({c}, [d \in {c} |-> Reply(t, i)])

\* An error frame followed by socket.destroy(): the frame need not be flushed.
Destroy(c) ==
    /\ conn' = [conn EXCEPT ![c] = "destroyed"]
    /\ outq' = [outq EXCEPT ![c] = <<>>]
-----------------------------------------------------------------------------
(***************************************************************************)
(* Connections and the handshake.                                          *)
(***************************************************************************)
\* onConnection: a new Conn; a closed slot holds nothing of an earlier one.
Connect(c) ==
    /\ up /\ conn[c] = "closed"
    /\ conn' = [conn EXCEPT ![c] = "open"]
    /\ UNCHANGED <<up, store, ptyVars, subs, outq, fresh, recv>>

\* The socket's close event, whoever ended it: conns.delete(conn).
SocketClosed(c) ==
    /\ conn[c] # "closed"
    /\ conn' = [conn EXCEPT ![c] = "closed"]
    /\ subs' = [subs EXCEPT ![c] = {}]
    /\ outq' = [outq EXCEPT ![c] = <<>>]
    /\ fresh' = [fresh EXCEPT ![c] = {}]
    /\ recv' = [recv EXCEPT ![c] = [i \in Id |-> 0]]
    /\ UNCHANGED <<up, store, ptyVars>>

\* pickProtocol: the best version both sides speak, as a set of at most one.
PickProtocol(offered) ==
    {v \in offered \cap Supported : \A w \in offered \cap Supported : w <= v}

Hello(c, offered) ==
    /\ conn[c] = "open"
    /\ IF PickProtocol(offered) = {}
         THEN Destroy(c)
         ELSE /\ outq' = [outq EXCEPT ![c] =
                                Append(@, Reply("hello-ack", "none"))]
              /\ conn' = [conn EXCEPT ![c] = "ready"]
    /\ UNCHANGED <<up, store, ptyVars, subs, fresh, recv>>

\* Any other message before hello.
NotHello(c) ==
    /\ conn[c] = "open"
    /\ Destroy(c)
    /\ UNCHANGED <<up, store, ptyVars, subs, fresh, recv>>

(***************************************************************************)
(* Requests of a connection that has said hello.                           *)
(***************************************************************************)
Ready(c) == conn[c] = "ready"

\* A session starts with an empty ring buffer and an unsignalled shell.
FreshPty(i) ==
    /\ base' = [base EXCEPT ![i] = total[i]]
    /\ chunks' = [chunks EXCEPT ![i] = {}]
    /\ term' = [term EXCEPT ![i] = "run"]
    /\ escal' = [escal EXCEPT ![i] = FALSE]
    /\ UNCHANGED total

HandleOpen(c, i) ==
    /\ Ready(c) /\ i \notin store
    /\ store' = store \cup {i}
    /\ FreshPty(i)
    /\ Answer(c, "open-ok", i)
    /\ UNCHANGED <<up, subs, fresh, recv>>

\* Requests answered with an error and no effect: open of a live id (EEXIST)
\* or with a spawn that throws (ESPAWN), an unknown id (ENOENT), a PTY call
\* that throws (EWRITE, ERESIZE, EKILL), a second hello, an unknown op.
HandleError(c, i) ==
    /\ Ready(c)
    /\ Answer(c, "error", i)
    /\ UNCHANGED <<up, store, ptyVars, subs, fresh, recv>>

HandleList(c) ==
    /\ Ready(c)
    /\ Answer(c, "list-reply", "none")
    /\ UNCHANGED <<up, store, ptyVars, subs, fresh, recv>>

\* mutant: the escalation timer is not scheduled
KillOnce(i, sig) ==
    /\ term' = [term EXCEPT ![i] = IF sig = "kill" THEN "kill"
                                   ELSE IF @ = "run" THEN "hup" ELSE @]
    /\ UNCHANGED escal

\* Pty.kill: any signal but SIGKILL arms the escalation timer, once.
Kill(i, sig) ==
    /\ term' = [term EXCEPT ![i] = IF sig = "kill" THEN "kill"
                                   ELSE IF @ = "run" THEN "hup" ELSE @]
    /\ escal' = [escal EXCEPT ![i] = @ \/ sig # "kill"]

HandleClose(c, i, sig) ==
    /\ Ready(c) /\ i \in store
    /\ Kill(i, sig)
    /\ Answer(c, "closed", i)
    /\ UNCHANGED <<up, store, base, total, chunks, subs, fresh, recv>>

\* The replay is one output frame with the whole ring buffer, if any.
Oldest(i) == {b \in chunks[i] : \A d \in chunks[i] : b <= d}

HandleSubscribe(c, i, replay) ==
    /\ Ready(c) /\ i \in store
    /\ subs' = [subs EXCEPT ![c] = @ \cup {i}]
    /\ IF replay /\ chunks[i] # {}
         THEN /\ \E b \in Oldest(i) :
                   Send({c}, [d \in {c} |-> Output(i, b, total[i], TRUE)])
              /\ fresh' = [fresh EXCEPT ![c] = @ \ {i}]
         ELSE /\ fresh' = [fresh EXCEPT ![c] = @ \cup {i}]
              /\ UNCHANGED <<conn, outq>>
    /\ UNCHANGED <<up, store, ptyVars, recv>>

HandleUnsubscribe(c, i) ==
    /\ Ready(c) /\ i \in subs[c]
    /\ subs' = [subs EXCEPT ![c] = @ \ {i}]
    /\ fresh' = [fresh EXCEPT ![c] = @ \ {i}]
    /\ UNCHANGED <<up, store, ptyVars, conn, outq, recv>>
-----------------------------------------------------------------------------
(***************************************************************************)
(* Events of the PTYs.                                                     *)
(***************************************************************************)
Subscribers(i) == {c \in Conn : i \in subs[c]}

\* mutant: eviction looks at the bytes before the new chunk
KeptBeforePush(i, end) ==
    {b \in chunks[i] \cup {total[i]} : total[i] - b <= BufferCap}

\* appendOutput: chunks leave at the head until what is left fits the cap.
Kept(i, end) == {b \in chunks[i] \cup {total[i]} : end - b <= BufferCap}

\* pty.onData: append to the ring buffer, then fan out.
OnData(i, n) ==
    /\ i \in store
    /\ total[i] + n <= MaxBytes
    /\ chunks' = [chunks EXCEPT ![i] = Kept(i, total[i] + n)]
    /\ total' = [total EXCEPT ![i] = @ + n]
    /\ Send(Subscribers(i),
            [c \in Subscribers(i) |->
               Output(i, total[i], total[i] + n, i \in fresh[c])])
    /\ fresh' = [c \in Conn |-> fresh[c] \ {i}]
    /\ UNCHANGED <<up, store, base, term, escal, subs, recv>>

\* mutant: subscriptions survive the exit of their session
DropSubscriptionsNot(i) == subs' = subs /\ fresh' = fresh
DropSubscriptions(i) ==
    /\ subs' = [c \in Conn |-> subs[c] \ {i}]
    /\ fresh' = [c \in Conn |-> fresh[c] \ {i}]

\* pty.onExit: tell the subscribers, drop their subscriptions and the entry.
\* The escalation timer belongs to the dead Pty object from here on.
OnExit(i) ==
    /\ i \in store
    /\ Send(Subscribers(i), [c \in Subscribers(i) |-> Exit(i)])
    /\ DropSubscriptions(i)
    /\ store' = store \ {i}
    /\ chunks' = [chunks EXCEPT ![i] = {}]
    /\ escal' = [escal EXCEPT ![i] = FALSE]
    /\ term' = [term EXCEPT ![i] = "run"]
    /\ UNCHANGED <<up, base, total, recv>>

\* The escalation timer: SIGKILL to the targets of the first signal.
Escalate(i) ==
    /\ i \in store /\ escal[i]
    /\ escal' = [escal EXCEPT ![i] = FALSE]
    /\ term' = [term EXCEPT ![i] = "kill"]
    /\ UNCHANGED <<up, store, base, total, chunks, conn, subs, outq, fresh,
                   recv>>

\* The client reads the next frame from its socket.
Receive(c) ==
    /\ conn[c] \in {"open", "ready"} /\ outq[c] # <<>>
    /\ LET f == Head(outq[c]) IN
         /\ outq' = [outq EXCEPT ![c] = Tail(@)]
         /\ recv' = IF f.type = "output" THEN [recv EXCEPT ![c][f.id] = f.to]
                                         ELSE recv
    /\ UNCHANGED <<up, store, ptyVars, conn, subs, fresh>>

(***************************************************************************)
(* The end of the process: a signal runs Server.close, which destroys the  *)
(* connections and SIGKILLs every shell; a crash hangs the shells up.      *)
(***************************************************************************)
Stop ==
    /\ up
    /\ up' = FALSE
    /\ store' = {}
    /\ conn' = [c \in Conn |-> "closed"]
    /\ subs' = [c \in Conn |-> {}]
    /\ outq' = [c \in Conn |-> <<>>]
    /\ fresh' = [c \in Conn |-> {}]
    /\ chunks' = [i \in Id |-> {}]
    /\ escal' = [i \in Id |-> FALSE]
    /\ term' = [i \in Id |-> "run"]
    /\ recv' = [c \in Conn |-> [i \in Id |-> 0]]
    /\ UNCHANGED <<base, total>>

Listen ==
    /\ ~up
    /\ up' = TRUE
    /\ UNCHANGED <<store, ptyVars, conn, subs, outq, fresh, recv>>
-----------------------------------------------------------------------------
ConnNext(c) ==
    \/ Connect(c)
    \/ SocketClosed(c)
    \/ \E offered \in SUBSET Protocols : Hello(c, offered)
    \/ NotHello(c)
    \/ HandleList(c)
    \/ Receive(c)
    \/ \E i \in Id :
         \/ HandleOpen(c, i)
         \/ HandleError(c, i)
         \/ \E sig \in {"hup", "kill"} : HandleClose(c, i, sig)
         \/ \E replay \in BOOLEAN : HandleSubscribe(c, i, replay)
         \/ HandleUnsubscribe(c, i)

PtyNext(i) ==
    \/ \E n \in 1..MaxChunk : OnData(i, n)
    \/ OnExit(i)
    \/ Escalate(i)

Next ==
    \/ \E c \in Conn : ConnNext(c)
    \/ \E i \in Id : PtyNext(i)
    \/ Stop
    \/ Listen

Spec == Init /\ [][Next]_vars

\* The event loop runs due timers; the kernel ends a process sent SIGKILL
\* and the PTY reports it.
Reap(i) == term[i] = "kill" /\ OnExit(i)
Fairness == \A i \in Id : WF_vars(Escalate(i)) /\ WF_vars(Reap(i))
FairSpec == Spec /\ Fairness
-----------------------------------------------------------------------------
(***************************************************************************)
(* Properties.                                                             *)
(***************************************************************************)
\* A subscription never outlives its session, so the owner of a stale one
\* cannot be sent the output of a later session that reuses the id.
NoDanglingSubscription ==
    \A c \in Conn : subs[c] \subseteq store /\ fresh[c] \subseteq subs[c]

\* What a replay sends is output of the running session only, never of an
\* earlier session of the same id, and never more than the cap.
ReplayBounded ==
    \A i \in Id : \A b \in chunks[i] :
       /\ i \in store
       /\ base[i] <= b /\ b < total[i]
       /\ total[i] - b <= BufferCap

\* A live subscription always has output positions without a gap or a
\* repetition: each frame starts where the one before it ended, counting
\* what the client has read, and the last one ends at the newest byte.
IsOutput(c, i, j) == outq[c][j].type = "output" /\ outq[c][j].id = i
StreamContiguous ==
    \A c \in Writable, i \in Id :
      LET J == {j \in DOMAIN outq[c] : IsOutput(c, i, j)}
          EndBefore(j) == IF \E k \in J : k < j
                          THEN outq[c][CHOOSE k \in J :
                                 k < j /\ \A l \in J : l < j => l <= k].to
                          ELSE recv[c][i]
      IN  /\ \A j \in J : outq[c][j].first
                            \/ outq[c][j].from = EndBefore(j)
          /\ i \in subs[c] \ fresh[c] =>
                EndBefore(Len(outq[c]) + 1) = total[i]

\* After the exit of a session no frame carries its output, and output under
\* the same id needs a subscription made after the exit.
ExitIsFinal ==
    \A c \in Conn, i \in Id : \A j, k \in DOMAIN outq[c] :
       /\ j < k
       /\ outq[c][j].type = "exit" /\ outq[c][j].id = i
       /\ IsOutput(c, i, k)
       => \E l \in (j + 1)..k : IsOutput(c, i, l) /\ outq[c][l].first

\* A closed session ends even when its shell ignores the hang-up.
CloseTerminates ==
    \A i \in Id : (i \in store /\ term[i] # "run") ~> (i \notin store)

\* Exit notice: a subscriber is told of the exit or has lost its socket.
SubscribersToldOfExit ==
    [][\A c \in Conn : \A i \in subs[c] :
          (i \notin store' /\ c \in Writable /\ up' /\ conn'[c] = "ready")
          => /\ outq'[c] # <<>>
             /\ outq'[c][Len(outq'[c])] = Exit(i)]_vars
=============================================================================
