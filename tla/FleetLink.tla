----------------------------- MODULE FleetLink -----------------------------
(***************************************************************************)
(* The link between one agent and the central server: the agent's client    *)
(* (internal/fleet/client.go) opens a stream, learns from the ack how far   *)
(* the server's store got, and pushes snapshots and metric rows; the server *)
(* (internal/server: Connect, Registry, broker) keeps a handler per stream, *)
(* stores the rows, and sends commands down the stream, matching results to *)
(* the callers that wait.  A connection may be cut at any time; each end    *)
(* notices later, so that an old stream's handler runs beside the next one. *)
(*                                                                         *)
(* Rows are numbered by their ts.  Definitions headed "Slip" are plausible  *)
(* mistakes; nothing uses them.                                             *)
(***************************************************************************)
EXTENDS Naturals, Sequences, FiniteSets, FiniteSetsExt

CONSTANTS
  Callers,     \* those who control the agent through the server
  MaxStreams,  \* bound: streams the agent opens
  MaxWork      \* bound: metric rows and commands together

ASSUME LinkAssumption ==
  MaxStreams \in Nat \ {0} /\ MaxWork \in Nat \ {0}

VARIABLES
  (* the agent *)
  conn,      \* the stream in use, 0 while it backs off
  cut,       \* its connection is broken, which neither end may know
  opened,    \* streams opened
  acked,     \* the first message of the stream has come
  watermark, \* rows up to here were handed to the stream
  logged,    \* rows of the local store
  minted,    \* the agent has a token of its own
  running,   \* stream -> the commands its receiver executes
  (* the wire *)
  up, down,  \* stream -> messages on their way
  (* the server *)
  handler,   \* stream -> where its Connect handler is
  batch,     \* stream -> the rows it is storing
  store,     \* ts -> copies of the row in the agent's metric store
  streamOpen,  \* Registry
  current,   \* broker.sessions, 0 for none
  pending, nextID,  \* stream -> its session's table and counter
  enrolled,  \* AuthStore knows the agent
  calls,     \* caller -> its FleetControl
  ops,       \* commands called
  failed,    \* history: an Append failed
  overtaken  \* history: streams on which a command came before the ack

agent == <<conn, cut, opened, acked, watermark, logged, minted, running>>
wire == <<up, down>>
server == <<handler, batch, store, streamOpen, current, enrolled, failed>>
broker == <<pending, nextID, calls, ops>>
vars == <<agent, wire, server, broker, overtaken>>

Streams == 1 .. MaxStreams
Rows == 1 .. MaxWork
Phases == {"none", "hello", "serving", "storing", "closing", "closed"}
Idle == [pc |-> "idle", stream |-> 0, id |-> 0, op |-> 0, result |-> 0]

\* Every variable has its type.
TypeOK ==
  /\ conn \in 0 .. opened /\ opened \in 0 .. MaxStreams
  /\ cut \in BOOLEAN /\ acked \in BOOLEAN /\ minted \in BOOLEAN /\ enrolled \in BOOLEAN
  /\ watermark \in 0 .. logged /\ logged \in 0 .. MaxWork
  /\ \A s \in Streams : \A i \in DOMAIN up[s] : up[s][i].kind \in {"hello", "snapshot", "metrics", "result"}
  /\ \A s \in Streams : \A i \in DOMAIN down[s] : down[s][i].kind \in {"ack", "command"}
  /\ running \in [Streams -> SUBSET ((1 .. MaxWork) \X (1 .. MaxWork))]
  /\ handler \in [Streams -> Phases] /\ batch \in [Streams -> SUBSET Rows]
  /\ \A r \in Rows : store[r] <= MaxStreams
  /\ streamOpen \in BOOLEAN /\ current \in 0 .. opened
  /\ pending \in [Streams -> SUBSET (1 .. MaxWork)] /\ nextID \in [Streams -> 0 .. MaxWork]
  /\ \A c \in Callers : calls[c].pc \in {"idle", "got", "send", "waiting"}
  /\ ops \in 0 .. MaxWork /\ overtaken \subseteq Streams

Init ==
  /\ conn = 0 /\ cut = FALSE /\ opened = 0 /\ acked = FALSE /\ watermark = 0 /\ logged = 0
  /\ minted \in BOOLEAN /\ enrolled = minted
  /\ running = [s \in Streams |-> {}]
  /\ up = [s \in Streams |-> <<>>] /\ down = [s \in Streams |-> <<>>]
  /\ handler = [s \in Streams |-> "none"] /\ batch = [s \in Streams |-> {}]
  /\ store = [r \in Rows |-> 0] /\ streamOpen = FALSE /\ current = 0
  /\ pending = [s \in Streams |-> {}] /\ nextID = [s \in Streams |-> 0]
  /\ calls = [c \in Callers |-> Idle] /\ ops = 0
  /\ failed = FALSE /\ overtaken = {}

-----------------------------------------------------------------------------
(* The connection. *)

Whole(s) == s = conn /\ ~cut

\* What the agent sends is lost when the connection is broken, also while Send
\* still succeeds.
Sent(s, msgs) == up' = IF Whole(s) THEN [up EXCEPT ![s] = @ \o msgs] ELSE up

Connect ==
  /\ conn = 0 /\ opened < MaxStreams
  /\ conn' = opened + 1 /\ opened' = conn' /\ cut' = FALSE /\ acked' = FALSE
  /\ up' = [up EXCEPT ![conn'] = <<[kind |-> "hello", enrolling |-> ~minted]>>]
  /\ UNCHANGED <<watermark, logged, minted, running, down, server, broker, overtaken>>

\* What is on its way down is lost, what is on its way up may still be read.
Cut ==
  /\ conn # 0 /\ ~cut /\ cut' = TRUE
  /\ down' = [down EXCEPT ![conn] = <<>>]
  /\ UNCHANGED <<conn, opened, acked, watermark, logged, minted, running, up, server, broker, overtaken>>

\* connectOnce returns on an error of the stream; a command goes on.
StreamError ==
  /\ conn # 0
  /\ cut \/ handler[conn] = "closed"
  /\ conn' = 0 /\ cut' = FALSE /\ acked' = FALSE
  /\ down' = [down EXCEPT ![conn] = <<>>]
  /\ UNCHANGED <<opened, watermark, logged, minted, running, up, server, broker, overtaken>>

-----------------------------------------------------------------------------
(* The agent. *)

\* The sampler adds a row to the local store.
Sample ==
  /\ logged + ops < MaxWork /\ logged' = logged + 1
  /\ UNCHANGED <<conn, cut, opened, acked, watermark, minted, running, wire, server, broker, overtaken>>

\* The first message is taken for the ack; if it is a command, that is gone and
\* the watermark starts at zero.
RecvAck ==
  /\ conn # 0 /\ ~acked /\ down[conn] # <<>>
  /\ acked' = TRUE
  /\ LET m == Head(down[conn]) IN
     IF m.kind = "ack"
       THEN /\ watermark' = m.max /\ minted' = (minted \/ m.token)
            /\ UNCHANGED overtaken
       ELSE /\ watermark' = 0 /\ overtaken' = overtaken \cup {conn} /\ UNCHANGED minted
  /\ down' = [down EXCEPT ![conn] = Tail(@)]
  /\ UNCHANGED <<conn, cut, opened, logged, running, up, server, broker>>

\* A tick: a snapshot, and the rows past the watermark if there are any.
Push ==
  /\ conn # 0 /\ acked
  /\ \A i \in DOMAIN up[conn] : up[conn][i].kind = "result"
  /\ Sent(conn, <<[kind |-> "snapshot"]>>
                \o IF watermark < logged
                     THEN <<[kind |-> "metrics", rows |-> watermark + 1 .. logged]>> ELSE <<>>)
  /\ watermark' = logged
  /\ UNCHANGED <<conn, cut, opened, acked, logged, minted, running, down, server, broker, overtaken>>

\* The receiver goroutine runs one command at a time.
RecvCommand ==
  /\ conn # 0 /\ acked /\ running[conn] = {} /\ down[conn] # <<>>
  /\ LET m == Head(down[conn]) IN
     running' = [running EXCEPT ![conn] = IF m.kind = "command" THEN {<<m.id, m.op>>} ELSE {}]
  /\ down' = [down EXCEPT ![conn] = Tail(@)]
  /\ UNCHANGED <<conn, cut, opened, acked, watermark, logged, minted, up, server, broker, overtaken>>

\* The result goes to the stream the command came from.
Executed(s) ==
  /\ \E r \in running[s] : Sent(s, <<[kind |-> "result", id |-> r[1], op |-> r[2]]>>)
  /\ running' = [running EXCEPT ![s] = {}]
  /\ UNCHANGED <<conn, cut, opened, acked, watermark, logged, minted, down, server, broker, overtaken>>

-----------------------------------------------------------------------------
(* The server's handler of a stream. *)

\* Slip: the ts to go on with instead of the last one stored.
NextTs == 1 + Max({0} \cup {r \in Rows : store[r] > 0})

MaxTs == Max({0} \cup {r \in Rows : store[r] > 0})

Received(s, kind) ==
  /\ handler[s] \in {"none", "serving"} /\ up[s] # <<>> /\ Head(up[s]).kind = kind
  /\ up' = [up EXCEPT ![s] = Tail(@)]

\* Hello: Open and register.  An agent that enrols twice is refused.
Hello(s) ==
  /\ Received(s, "hello")
  /\ IF Head(up[s]).enrolling /\ enrolled
       THEN /\ handler' = [handler EXCEPT ![s] = "closed"]
            /\ UNCHANGED <<streamOpen, current, enrolled>>
       ELSE /\ handler' = [handler EXCEPT ![s] = "hello"]
            /\ streamOpen' = TRUE /\ current' = s /\ enrolled' = TRUE
  /\ UNCHANGED <<agent, down, batch, store, failed, broker, overtaken>>

\* MaxTs and the ack, which a command of the registered session may precede.
Ack(s) ==
  /\ handler[s] = "hello"
  /\ handler' = [handler EXCEPT ![s] = "serving"]
  /\ down' = IF Whole(s)
       THEN [down EXCEPT ![s] = Append(@, [kind |-> "ack", max |-> MaxTs, token |-> ~minted])]
       ELSE down
  /\ UNCHANGED <<agent, up, batch, store, streamOpen, current, enrolled, failed, broker, overtaken>>

\* Slip: a snapshot does not open what an old stream has closed.
UpdateKeepsClosed == streamOpen' = streamOpen

Update == streamOpen' = TRUE

Snapshot(s) ==
  /\ Received(s, "snapshot") /\ Update
  /\ UNCHANGED <<agent, down, handler, batch, store, current, enrolled, failed, broker, overtaken>>

Metrics(s) ==
  /\ Received(s, "metrics")
  /\ handler' = [handler EXCEPT ![s] = "storing"]
  /\ batch' = [batch EXCEPT ![s] = Head(up[s]).rows]
  /\ UNCHANGED <<agent, down, store, streamOpen, current, enrolled, failed, broker, overtaken>>

\* Slip: the groups of a batch are not sorted.
Newest(s) == Max(batch[s])

\* storeBatch appends the groups oldest first.
NextGroup(s) == Min(batch[s])

\* One Append, or its failure, with which storeBatch returns.
AppendGroup(s) ==
  /\ handler[s] = "storing"
  /\ \/ LET r == NextGroup(s) IN
          /\ store' = [store EXCEPT ![r] = @ + 1]
          /\ batch' = [batch EXCEPT ![s] = @ \ {r}]
          /\ UNCHANGED failed
     \/ batch' = [batch EXCEPT ![s] = {}] /\ failed' = TRUE /\ UNCHANGED store
  /\ handler' = [handler EXCEPT ![s] = IF batch'[s] = {} THEN "serving" ELSE "storing"]
  /\ UNCHANGED <<agent, wire, streamOpen, current, enrolled, broker, overtaken>>

\* Slip: a result is delivered to the agent's current session.
SessionByName(s) == current

SessionOf(s) == s

\* deliver: to the request of that id, or dropped.
Result(s) ==
  /\ Received(s, "result")
  /\ LET m == Head(up[s])  t == SessionOf(s) IN
     IF t # 0 /\ m.id \in pending[t]
       THEN /\ pending' = [pending EXCEPT ![t] = @ \ {m.id}]
            /\ calls' = [c \in Callers |->
                 IF calls[c].pc # "idle" /\ calls[c].stream = t /\ calls[c].id = m.id
                   THEN [calls[c] EXCEPT !.result = m.op] ELSE calls[c]]
       ELSE UNCHANGED <<pending, calls>>
  /\ UNCHANGED <<agent, down, server, nextID, ops, overtaken>>

\* Recv fails: the registry entry is closed, whichever stream opened it.
RecvError(s) ==
  /\ ~Whole(s) /\ handler[s] = "serving"
  /\ handler' = [handler EXCEPT ![s] = "closing"]
  /\ streamOpen' = FALSE
  /\ up' = [up EXCEPT ![s] = <<>>]
  /\ UNCHANGED <<agent, down, batch, store, current, enrolled, failed, broker, overtaken>>

\* A stream that is gone before its Hello was read.
NeverServed(s) ==
  /\ s <= opened /\ ~Whole(s) /\ handler[s] = "none"
  /\ handler' = [handler EXCEPT ![s] = "closed"]
  /\ up' = [up EXCEPT ![s] = <<>>]
  /\ UNCHANGED <<agent, down, batch, store, streamOpen, current, enrolled, failed, broker, overtaken>>

\* Slip: waiters are left behind.
WaitersLeft(s) == pending

FailAll(s) == [pending EXCEPT ![s] = {}]

\* The deferred unregister and failAll.
Teardown(s) ==
  /\ handler[s] = "closing"
  /\ handler' = [handler EXCEPT ![s] = "closed"]
  /\ current' = IF current = s THEN 0 ELSE current
  /\ pending' = FailAll(s)
  /\ UNCHANGED <<agent, wire, batch, store, streamOpen, enrolled, failed, nextID, calls, ops, overtaken>>

-----------------------------------------------------------------------------
(* FleetControl and dispatch. *)

\* broker.get; without a session the caller is told at once.
Control(c) ==
  /\ calls[c].pc = "idle" /\ current # 0 /\ logged + ops < MaxWork
  /\ ops' = ops + 1
  /\ calls' = [calls EXCEPT ![c] = [Idle EXCEPT !.pc = "got", !.stream = current, !.op = ops + 1]]
  /\ UNCHANGED <<agent, wire, server, pending, nextID, overtaken>>

Enter(c) ==
  LET s == calls[c].stream IN
  /\ calls[c].pc = "got"
  /\ nextID' = [nextID EXCEPT ![s] = @ + 1]
  /\ pending' = [pending EXCEPT ![s] = @ \cup {nextID'[s]}]
  /\ calls' = [calls EXCEPT ![c].pc = "send", ![c].id = nextID'[s]]
  /\ UNCHANGED <<agent, wire, server, ops, overtaken>>

Abandon(c) ==
  /\ calls' = [calls EXCEPT ![c] = Idle]
  /\ pending' = [pending EXCEPT ![calls[c].stream] = @ \ {calls[c].id}]

\* Send fails once the handler has returned; before, it may go nowhere.
Send(c) ==
  LET s == calls[c].stream IN
  /\ calls[c].pc = "send"
  /\ \/ /\ handler[s] # "closed"
        /\ calls' = [calls EXCEPT ![c].pc = "waiting"]
        /\ down' = IF Whole(s)
             THEN [down EXCEPT ![s] = Append(@, [kind |-> "command", id |-> calls[c].id, op |-> calls[c].op])]
             ELSE down
        /\ UNCHANGED pending
     \/ ~Whole(s) /\ Abandon(c) /\ UNCHANGED down
  /\ UNCHANGED <<agent, up, server, nextID, ops, overtaken>>

\* The result, or a closed channel.
Return(c) ==
  /\ calls[c].pc = "waiting"
  /\ \/ calls[c].result # 0
     \/ calls[c].id \notin pending[calls[c].stream]
  /\ calls' = [calls EXCEPT ![c] = Idle]
  /\ UNCHANGED <<agent, wire, server, pending, nextID, ops, overtaken>>

\* The caller's context ends while it waits; the command goes on.
Timeout(c) ==
  /\ calls[c].pc = "waiting" /\ Abandon(c)
  /\ UNCHANGED <<agent, wire, server, nextID, ops, overtaken>>

-----------------------------------------------------------------------------
Handler(s) ==
  \/ Hello(s) \/ Ack(s) \/ Snapshot(s) \/ Metrics(s) \/ AppendGroup(s) \/ Result(s)
  \/ RecvError(s) \/ NeverServed(s) \/ Teardown(s)

Next ==
  \/ Connect \/ Cut \/ StreamError \/ Sample \/ RecvAck \/ Push \/ RecvCommand
  \/ \E s \in Streams : Executed(s) \/ Handler(s)
  \/ \E c \in Callers : Control(c) \/ Enter(c) \/ Send(c) \/ Return(c) \/ Timeout(c)

\* Goroutines that can run do, the ticker fires, and both ends notice a broken
\* connection.  Nobody has to call, and no deadline has to pass.
Fairness ==
  /\ WF_vars(StreamError) /\ WF_vars(RecvAck) /\ WF_vars(Push) /\ WF_vars(RecvCommand)
  /\ \A s \in Streams : WF_vars(Executed(s)) /\ WF_vars(Handler(s))
  /\ \A c \in Callers : WF_vars(Enter(c)) /\ WF_vars(Send(c)) /\ WF_vars(Return(c))

Spec == Init /\ [][Next]_vars /\ Fairness

-----------------------------------------------------------------------------
\* "So the store's max(ts) always reflects a fully-committed prefix": below the
\* newest stored row none is missing, whatever was cut, re-sent or stored by two
\* handlers at once, as long as no Append failed.
PrefixStored == ~failed => \A r \in 1 .. MaxTs : store[r] > 0

\* A caller gets the result of its own command: never that of an earlier one
\* that timed out, or that came in on another stream under the same id.
ResultOfOwnCommand == \A c \in Callers : calls[c].result \in {0, calls[c].op}

\* Without any deadline a call returns, answered or disconnected, unless its
\* command came before the ack and was taken for it.
CallsReturn ==
  \A c \in Callers : calls[c].pc # "idle" ~> calls[c].pc = "idle" \/ calls[c].stream \in overtaken

\* An agent whose stream holds is shown as connected again, also after an old
\* stream's handler has closed the entry.
ShownConnected ==
  \A s \in Streams :
    Whole(s) /\ acked ~> streamOpen \/ ~Whole(s)
=============================================================================
