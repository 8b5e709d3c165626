-------------------------- MODULE FleetLinkProofs --------------------------
(***************************************************************************)
(* A theorem about FleetLink for any number of callers, streams, rows and   *)
(* commands: a caller of the server gets the result of its own command.     *)
(***************************************************************************)
EXTENDS FleetLink, TLAPS

-----------------------------------------------------------------------------
(* A tag is the id of a request with the command it stands for.  Tags live   *)
(* on a stream: in commands on their way down, in commands that run, and in  *)
(* results on their way up.                                                  *)

IsSeq(q) == \E S : q \in Seq(S)

Tagged(q, kind) == {<<q[i].id, q[i].op>> : i \in {j \in DOMAIN q : q[j].kind = kind}}

Tags(s) == Tagged(down[s], "command") \cup running[s] \cup Tagged(up[s], "result")

LEMMA TaggedTail ==
  ASSUME NEW q, IsSeq(q), q # <<>>, NEW kind
  PROVE  /\ IsSeq(Tail(q))
         /\ Tagged(Tail(q), kind) \subseteq Tagged(q, kind)
         /\ Head(q).kind = kind => <<Head(q).id, Head(q).op>> \in Tagged(q, kind)
<1>1. PICK S : q \in Seq(S)
  BY DEF IsSeq
<1>2. Tail(q) \in Seq(S) /\ Len(q) \in Nat /\ Len(q) >= 1 /\ DOMAIN q = 1 .. Len(q)
  BY <1>1
<1>3. DOMAIN Tail(q) = 1 .. Len(q) - 1 /\ \A i \in 1 .. Len(q) - 1 : Tail(q)[i] = q[i + 1]
  BY <1>1, <1>2
<1>4. Tagged(Tail(q), kind) \subseteq Tagged(q, kind)
  <2> SUFFICES ASSUME NEW i \in DOMAIN Tail(q), Tail(q)[i].kind = kind
               PROVE  <<Tail(q)[i].id, Tail(q)[i].op>> \in Tagged(q, kind)
    BY DEF Tagged
  <2>1. i + 1 \in DOMAIN q /\ Tail(q)[i] = q[i + 1]
    BY <1>2, <1>3
  <2> QED BY <2>1 DEF Tagged
<1>5. Head(q) = q[1] /\ 1 \in DOMAIN q
  BY <1>1, <1>2
<1> QED BY <1>2, <1>4, <1>5 DEF IsSeq, Tagged

LEMMA TaggedConcat ==
  ASSUME NEW p, NEW q, IsSeq(p), IsSeq(q), NEW kind
  PROVE  /\ IsSeq(p \o q)
         /\ Tagged(p \o q, kind) \subseteq Tagged(p, kind) \cup Tagged(q, kind)
<1>1. PICK S, T : p \in Seq(S) /\ q \in Seq(T)
  BY DEF IsSeq
<1>2. p \in Seq(S \cup T) /\ q \in Seq(S \cup T)
  BY <1>1
<1>3. /\ p \o q \in Seq(S \cup T)
      /\ DOMAIN (p \o q) = 1 .. Len(p) + Len(q)
      /\ DOMAIN p = 1 .. Len(p) /\ DOMAIN q = 1 .. Len(q) /\ Len(p) \in Nat /\ Len(q) \in Nat
      /\ \A i \in 1 .. Len(p) + Len(q) : (p \o q)[i] = IF i <= Len(p) THEN p[i] ELSE q[i - Len(p)]
  BY <1>2
<1>4. ASSUME NEW i \in DOMAIN (p \o q), (p \o q)[i].kind = kind
      PROVE  <<(p \o q)[i].id, (p \o q)[i].op>> \in Tagged(p, kind) \cup Tagged(q, kind)
  <2>1. CASE i <= Len(p)
    BY <1>3, <1>4, <2>1 DEF Tagged
  <2>2. CASE ~(i <= Len(p))
    <3>1. i - Len(p) \in DOMAIN q /\ (p \o q)[i] = q[i - Len(p)]
      BY <1>3, <2>2
    <3> QED BY <1>4, <3>1 DEF Tagged
  <2> QED BY <2>1, <2>2
<1> QED BY <1>3, <1>4 DEF IsSeq, Tagged

LEMMA TaggedAppend ==
  ASSUME NEW q, IsSeq(q), NEW m, NEW kind
  PROVE  /\ IsSeq(Append(q, m))
         /\ Tagged(Append(q, m), kind) \subseteq
              Tagged(q, kind) \cup IF m.kind = kind THEN {<<m.id, m.op>>} ELSE {}
<1>1. PICK S : q \in Seq(S)
  BY DEF IsSeq
<1>2. q \in Seq(S \cup {m})
  BY <1>1
<1>3. /\ Append(q, m) \in Seq(S \cup {m})
      /\ DOMAIN Append(q, m) = 1 .. Len(q) + 1
      /\ DOMAIN q = 1 .. Len(q) /\ Len(q) \in Nat
      /\ \A i \in 1 .. Len(q) : Append(q, m)[i] = q[i]
      /\ Append(q, m)[Len(q) + 1] = m
  BY <1>2
<1>4. ASSUME NEW i \in DOMAIN Append(q, m), Append(q, m)[i].kind = kind
      PROVE  <<Append(q, m)[i].id, Append(q, m)[i].op>>
               \in Tagged(q, kind) \cup IF m.kind = kind THEN {<<m.id, m.op>>} ELSE {}
  <2>1. CASE i \in 1 .. Len(q)
    BY <1>3, <1>4, <2>1 DEF Tagged
  <2>2. CASE i = Len(q) + 1
    BY <1>3, <1>4, <2>2
  <2> QED BY <1>3, <2>1, <2>2
<1> QED BY <1>3, <1>4 DEF IsSeq, Tagged

LEMMA TaggedShort ==
  /\ IsSeq(<<>>) /\ \A kind : Tagged(<<>>, kind) = {}
  /\ \A m : /\ IsSeq(<<m>>)
            /\ \A kind : Tagged(<<m>>, kind) \subseteq IF m.kind = kind THEN {<<m.id, m.op>>} ELSE {}
<1>1. IsSeq(<<>>) /\ \A kind : Tagged(<<>>, kind) = {}
  BY DEF IsSeq, Tagged
<1>2. ASSUME NEW m
      PROVE  /\ IsSeq(<<m>>)
             /\ \A kind : Tagged(<<m>>, kind) \subseteq IF m.kind = kind THEN {<<m.id, m.op>>} ELSE {}
  <2>1. <<m>> \in Seq({m}) /\ DOMAIN <<m>> = {1} /\ <<m>>[1] = m
    OBVIOUS
  <2> QED BY <2>1 DEF IsSeq, Tagged
<1> QED BY <1>1, <1>2

-----------------------------------------------------------------------------
(* The inductive invariant. *)

Wire ==
  /\ up = [s \in Streams |-> up[s]] /\ down = [s \in Streams |-> down[s]]
  /\ \A s \in Streams : IsSeq(up[s]) /\ IsSeq(down[s])
  /\ running = [s \in Streams |-> running[s]]
  /\ conn \in 0 .. MaxStreams /\ opened \in 0 .. MaxStreams /\ current \in 0 .. MaxStreams

Places == {"idle", "got", "send", "waiting"}

Desks ==
  /\ calls \in [Callers -> [pc : Places, stream : 0 .. MaxStreams, id : Nat, op : Nat, result : Nat]]
  /\ \A c \in Callers : calls[c].pc # "idle" => calls[c].stream \in Streams
  /\ nextID \in [Streams -> Nat] /\ ops \in Nat

Registered(c) == calls[c].pc \in {"send", "waiting"}

\* The tags of a stream were given out by its session ...
TagsIssued == \A s \in Streams : Tags(s) \subseteq (1 .. nextID[s]) \X Nat

\* ... the caller's id among them, which stands for its command wherever it is ...
TagsOwned ==
  \A c \in Callers, s \in Streams : Registered(c) /\ calls[c].stream = s =>
    /\ calls[c].id \in 1 .. nextID[s]
    /\ \A t \in Tags(s) : t[1] = calls[c].id => t[2] = calls[c].op

\* ... and is nobody else's.
IdsDistinct ==
  \A c, d \in Callers :
    Registered(c) /\ Registered(d) /\ calls[c].stream = calls[d].stream /\ calls[c].id = calls[d].id
      => c = d

\* Before it has an id, no result is for a caller.
NoIdNoResult ==
  \A c \in Callers : ~Registered(c) => calls[c].id = 0 /\ calls[c].result = 0

IInv ==
  /\ Wire /\ Desks
  /\ TagsIssued /\ TagsOwned /\ IdsDistinct /\ NoIdNoResult
  /\ ResultOfOwnCommand

-----------------------------------------------------------------------------
(* What travels: every step but Send only moves or drops tags. *)

NoNewTags == \A s \in Streams : Tags(s)' \subseteq Tags(s)

\* Three ways a stream's tags are left alone or lose some.
LEMMA TagsKept ==
  ASSUME UNCHANGED <<up, down, running>>
  PROVE  NoNewTags
BY DEF NoNewTags, Tags

LEMMA UpShorter ==
  ASSUME Wire, NEW s \in Streams, up[s] # <<>>, up' = [up EXCEPT ![s] = Tail(@)],
         UNCHANGED <<down, running, conn, opened>>, current' \in 0 .. MaxStreams
  PROVE  Wire' /\ NoNewTags
<1>1. IsSeq(Tail(up[s])) /\ Tagged(Tail(up[s]), "result") \subseteq Tagged(up[s], "result")
  BY TaggedTail DEF Wire
<1>2. \A t \in Streams : up'[t] = IF t = s THEN Tail(up[s]) ELSE up[t]
  BY DEF Wire
<1>3. up' = [t \in Streams |-> up'[t]]
  BY DEF Wire
<1> QED BY <1>1, <1>2, <1>3 DEF Wire, NoNewTags, Tags

LEMMA UpEmptied ==
  ASSUME Wire, NEW s \in Streams, up' = [up EXCEPT ![s] = <<>>],
         UNCHANGED <<down, running, conn, opened, current>>
  PROVE  Wire' /\ NoNewTags
<1>1. \A t \in Streams : up'[t] = IF t = s THEN <<>> ELSE up[t]
  BY DEF Wire
<1>2. up' = [t \in Streams |-> up'[t]]
  BY DEF Wire
<1> QED BY <1>1, <1>2, TaggedShort DEF Wire, NoNewTags, Tags

LEMMA DownEmptied ==
  ASSUME Wire, NEW s \in Streams, down' = [down EXCEPT ![s] = <<>>],
         UNCHANGED <<up, running, opened, current>>, conn' \in 0 .. MaxStreams
  PROVE  Wire' /\ NoNewTags
<1>1. \A t \in Streams : down'[t] = IF t = s THEN <<>> ELSE down[t]
  BY DEF Wire
<1>2. down' = [t \in Streams |-> down'[t]]
  BY DEF Wire
<1> QED BY <1>1, <1>2, TaggedShort DEF Wire, NoNewTags, Tags

\* The steps of the connection and of the agent.
LEMMA AgentTags ==
  ASSUME Wire, TagsIssued,
         Connect \/ Cut \/ StreamError \/ Sample \/ RecvAck \/ Push \/ RecvCommand
  PROVE  Wire' /\ NoNewTags /\ UNCHANGED <<nextID, calls, ops>>
<1>1. CASE Connect
  <2>1. /\ conn' \in Streams /\ opened' = conn'
        /\ up' = [up EXCEPT ![conn'] = <<[kind |-> "hello", enrolling |-> ~minted]>>]
        /\ UNCHANGED <<down, running, current, nextID, calls, ops>>
    BY <1>1, LinkAssumption DEF Connect, Wire, Streams, server, broker
  <2> DEFINE m == [kind |-> "hello", enrolling |-> ~minted]
  <2>2. IsSeq(<<m>>) /\ Tagged(<<m>>, "result") = {}
    BY TaggedShort
  <2>3. \A t \in Streams : up'[t] = IF t = conn' THEN <<m>> ELSE up[t]
    BY <2>1 DEF Wire
  <2>4. up' = [t \in Streams |-> up'[t]]
    BY <2>1 DEF Wire
  <2>5. NoNewTags
    BY <2>1, <2>2, <2>3 DEF NoNewTags, Tags
  <2> QED BY <2>1, <2>2, <2>3, <2>4, <2>5 DEF Wire, Streams
<1>2. CASE Cut
  <2>1. conn \in Streams
    BY <1>2 DEF Cut, Wire, Streams
  <2> QED BY <1>2, <2>1, DownEmptied DEF Cut, Wire, server, broker
<1>3. CASE StreamError
  <2>1. conn \in Streams /\ 0 \in 0 .. MaxStreams
    BY <1>3, LinkAssumption DEF StreamError, Wire, Streams
  <2> QED BY <1>3, <2>1, DownEmptied DEF StreamError, server, broker
<1>4. CASE Sample
  BY <1>4, TagsKept DEF Sample, wire, server, broker, Wire
<1>5. CASE RecvAck
  <2>1. conn \in Streams /\ down[conn] # <<>> /\ down' = [down EXCEPT ![conn] = Tail(@)]
    BY <1>5 DEF RecvAck, Wire, Streams
  <2>2. UNCHANGED <<up, running, conn, opened, current, nextID, calls, ops>>
    BY <1>5 DEF RecvAck, server, broker
  <2>3. IsSeq(Tail(down[conn])) /\ Tagged(Tail(down[conn]), "command") \subseteq Tagged(down[conn], "command")
    BY <2>1, TaggedTail DEF Wire
  <2>4. \A t \in Streams : down'[t] = IF t = conn THEN Tail(down[conn]) ELSE down[t]
    BY <2>1 DEF Wire
  <2>5. down' = [t \in Streams |-> down'[t]]
    BY <2>1 DEF Wire
  <2> QED BY <2>2, <2>3, <2>4, <2>5 DEF Wire, NoNewTags, Tags
<1>6. CASE Push
  <2> DEFINE snap == [kind |-> "snapshot"]
             rows == [kind |-> "metrics", rows |-> watermark + 1 .. logged]
             msgs == <<snap>> \o IF watermark < logged THEN <<rows>> ELSE <<>>
  <2>1. IsSeq(msgs) /\ Tagged(msgs, "result") = {}
    <3>1. /\ IsSeq(<<snap>>) /\ IsSeq(<<rows>>) /\ IsSeq(<<>>) /\ Tagged(<<>>, "result") = {}
          /\ Tagged(<<snap>>, "result") = {} /\ Tagged(<<rows>>, "result") = {}
      BY TaggedShort
    <3>2. PICK more : more = (IF watermark < logged THEN <<rows>> ELSE <<>>)
      OBVIOUS
    <3>3. IsSeq(more) /\ Tagged(more, "result") = {}
      BY <3>1, <3>2
    <3>4. IsSeq(<<snap>> \o more)
          /\ Tagged(<<snap>> \o more, "result") \subseteq Tagged(<<snap>>, "result") \cup Tagged(more, "result")
      BY <3>1, <3>3, TaggedConcat
    <3> QED BY <3>1, <3>2, <3>3, <3>4
  <2>2. conn \in Streams /\ Sent(conn, msgs)
    BY <1>6 DEF Push, Wire, Streams
  <2>3. UNCHANGED <<down, running, conn, opened, current, nextID, calls, ops>>
    BY <1>6 DEF Push, server, broker
  <2> HIDE DEF msgs
  <2>4. IsSeq(up[conn] \o msgs) /\ Tagged(up[conn] \o msgs, "result") \subseteq Tagged(up[conn], "result")
    BY <2>1, <2>2, TaggedConcat DEF Wire
  <2>5. \A t \in Streams : up'[t] = up[t] \/ (t = conn /\ up'[t] = up[conn] \o msgs)
    BY <2>2 DEF Sent, Wire
  <2>6. up' = [t \in Streams |-> up'[t]]
    BY <2>2 DEF Sent, Wire
  <2>7. NoNewTags
    BY <2>3, <2>4, <2>5 DEF NoNewTags, Tags
  <2> QED BY <2>3, <2>4, <2>5, <2>6, <2>7 DEF Wire
<1>7. CASE RecvCommand
  <2> DEFINE m == Head(down[conn])
             new == IF m.kind = "command" THEN {<<m.id, m.op>>} ELSE {}
  <2>1. /\ conn \in Streams /\ down[conn] # <<>>
        /\ down' = [down EXCEPT ![conn] = Tail(@)] /\ running' = [running EXCEPT ![conn] = new]
    BY <1>7 DEF RecvCommand, Wire, Streams
  <2>2. UNCHANGED <<up, conn, opened, current, nextID, calls, ops>>
    BY <1>7 DEF RecvCommand, server, broker
  <2>3. IsSeq(Tail(down[conn])) /\ Tagged(Tail(down[conn]), "command") \subseteq Tagged(down[conn], "command")
        /\ new \subseteq Tagged(down[conn], "command")
    BY <2>1, TaggedTail DEF Wire
  <2> HIDE DEF new
  <2>4. \A t \in Streams : /\ down'[t] = IF t = conn THEN Tail(down[conn]) ELSE down[t]
                           /\ running'[t] = IF t = conn THEN new ELSE running[t]
    BY <2>1 DEF Wire
  <2>5. down' = [t \in Streams |-> down'[t]] /\ running' = [t \in Streams |-> running'[t]]
    BY <2>1 DEF Wire
  <2> QED BY <2>2, <2>3, <2>4, <2>5 DEF Wire, NoNewTags, Tags
<1> QED BY <1>1, <1>2, <1>3, <1>4, <1>5, <1>6, <1>7

\* The result of a command goes on under the command's tag.
LEMMA ExecutedTags ==
  ASSUME Wire, TagsIssued, NEW s \in Streams, Executed(s)
  PROVE  Wire' /\ NoNewTags /\ UNCHANGED <<nextID, calls, ops>>
<1>1. PICK r \in running[s] : Sent(s, <<[kind |-> "result", id |-> r[1], op |-> r[2]]>>)
  BY DEF Executed
<1>2. /\ running' = [running EXCEPT ![s] = {}]
      /\ UNCHANGED <<down, conn, opened, current, nextID, calls, ops>>
  BY DEF Executed, server, broker
<1> DEFINE m == [kind |-> "result", id |-> r[1], op |-> r[2]]
<1>3. r = <<r[1], r[2]>>
  BY <1>1 DEF TagsIssued, Tags
<1>4. IsSeq(<<m>>) /\ Tagged(<<m>>, "result") \subseteq {r}
  BY <1>3, TaggedShort
<1>5. IsSeq(up[s] \o <<m>>) /\ Tagged(up[s] \o <<m>>, "result") \subseteq Tagged(up[s], "result") \cup {r}
  BY <1>4, TaggedConcat DEF Wire
<1>6. \A t \in Streams : /\ up'[t] = up[t] \/ (t = s /\ up'[t] = up[s] \o <<m>>)
                         /\ running'[t] = IF t = s THEN {} ELSE running[t]
  BY <1>1, <1>2 DEF Sent, Wire
<1>7. up' = [t \in Streams |-> up'[t]] /\ running' = [t \in Streams |-> running'[t]]
  BY <1>1, <1>2 DEF Sent, Wire
<1>8. NoNewTags
  <2> HIDE DEF m
  <2>1. ASSUME NEW t \in Streams PROVE Tags(t)' \subseteq Tags(t)
    <3>1. down'[t] = down[t]
      BY <1>2
    <3>2. CASE t # s
      BY <1>6, <3>1, <3>2 DEF Tags
    <3>3. CASE t = s
      <4>1. Tagged(up'[s], "result") \subseteq Tagged(up[s], "result") \cup {r}
        BY <1>5, <1>6
      <4> QED BY <1>1, <1>6, <3>1, <3>3, <4>1 DEF Tags
    <3> QED BY <3>2, <3>3
  <2> QED BY <2>1 DEF NoNewTags
<1> QED BY <1>2, <1>5, <1>6, <1>7, <1>8 DEF Wire

\* The server's handler; Result alone touches the calls.
LEMMA HandlerTags ==
  ASSUME Wire, NEW s \in Streams, Handler(s)
  PROVE  Wire' /\ NoNewTags /\ UNCHANGED <<nextID, ops>>
<1>1. CASE Hello(s)
  <2>1. current' \in 0 .. MaxStreams
    BY <1>1 DEF Hello, Wire, Streams
  <2> QED BY <1>1, <2>1, UpShorter DEF Hello, Received, agent, broker
<1>2. CASE Ack(s)
  <2> DEFINE m == [kind |-> "ack", max |-> MaxTs, token |-> ~minted]
  <2>1. UNCHANGED <<up, running, conn, opened, current, nextID, ops>>
    BY <1>2 DEF Ack, agent, broker
  <2>2. \/ down' = [down EXCEPT ![s] = Append(@, m)]
        \/ down' = down
    BY <1>2 DEF Ack
  <2>3. IsSeq(Append(down[s], m)) /\ Tagged(Append(down[s], m), "command") \subseteq Tagged(down[s], "command")
    <3>1. m.kind # "command"
      OBVIOUS
    <3> HIDE DEF m
    <3> QED BY <3>1, TaggedAppend DEF Wire
  <2> HIDE DEF m
  <2>4. \A t \in Streams : down'[t] = down[t] \/ (t = s /\ down'[t] = Append(down[s], m))
    BY <2>2 DEF Wire
  <2>5. down' = [t \in Streams |-> down'[t]]
    BY <2>2 DEF Wire
  <2>6. NoNewTags
    BY <2>1, <2>3, <2>4 DEF NoNewTags, Tags
  <2> QED BY <2>1, <2>3, <2>4, <2>5, <2>6 DEF Wire
<1>3. CASE Snapshot(s)
  BY <1>3, UpShorter DEF Snapshot, Received, agent, broker, Wire
<1>4. CASE Metrics(s)
  BY <1>4, UpShorter DEF Metrics, Received, agent, broker, Wire
<1>5. CASE AppendGroup(s)
  BY <1>5, TagsKept DEF AppendGroup, agent, wire, broker, Wire
<1>6. CASE Result(s)
  BY <1>6, UpShorter DEF Result, Received, agent, server, Wire
<1>7. CASE RecvError(s)
  BY <1>7, UpEmptied DEF RecvError, agent, broker
<1>8. CASE NeverServed(s)
  BY <1>8, UpEmptied DEF NeverServed, agent, broker
<1>9. CASE Teardown(s)
  <2>1. current' \in 0 .. MaxStreams
    BY <1>9, LinkAssumption DEF Teardown, Wire
  <2> QED BY <1>9, <2>1, TagsKept DEF Teardown, agent, wire, Wire
<1> QED BY <1>1, <1>2, <1>3, <1>4, <1>5, <1>6, <1>7, <1>8, <1>9 DEF Handler

-----------------------------------------------------------------------------
(* What the callers know. *)

\* Where the calls and the counters stay, tags that stay or go disturb nothing.
LEMMA CallsAside ==
  ASSUME IInv, Wire', NoNewTags, UNCHANGED <<nextID, calls, ops>>
  PROVE  IInv'
BY DEF IInv, Desks, NoNewTags, TagsIssued, TagsOwned, IdsDistinct, NoIdNoResult,
       ResultOfOwnCommand, Registered

\* A call that ends, with or without a result.
LEMMA CallEnds ==
  ASSUME IInv, Wire', NoNewTags, UNCHANGED <<nextID, ops>>,
         NEW c \in Callers, calls' = [calls EXCEPT ![c] = Idle]
  PROVE  IInv'
<1>1. Idle \in [pc : Places, stream : 0 .. MaxStreams, id : Nat, op : Nat, result : Nat]
  BY LinkAssumption DEF Idle, Places
<1>2. \A d \in Callers : calls'[d] = IF d = c THEN Idle ELSE calls[d]
  BY DEF IInv, Desks
<1>3. Desks'
  <2>1. \A d \in Callers : calls'[d].pc # "idle" => calls'[d].stream \in Streams
    BY <1>2 DEF IInv, Desks, Idle
  <2> QED BY <1>1, <2>1 DEF IInv, Desks
<1>4. \A d \in Callers : Registered(d)' <=> d # c /\ Registered(d)
  BY <1>2 DEF Registered, Idle
<1>5. TagsIssued' /\ TagsOwned' /\ IdsDistinct'
  BY <1>2, <1>4 DEF IInv, NoNewTags, TagsIssued, TagsOwned, IdsDistinct
<1>6. NoIdNoResult' /\ ResultOfOwnCommand'
  BY <1>2, <1>4 DEF IInv, NoIdNoResult, ResultOfOwnCommand, Idle
<1> QED BY <1>3, <1>5, <1>6 DEF IInv

\* deliver: the id of a result is that of one call at most, and its command's.
LEMMA ResultIInv ==
  ASSUME IInv, NEW s \in Streams, Result(s)
  PROVE  IInv'
<1>1. Wire' /\ NoNewTags /\ UNCHANGED <<nextID, ops>>
  BY HandlerTags DEF Handler, IInv
<1> DEFINE m == Head(up[s])
           For(c) == calls[c].pc # "idle" /\ calls[c].stream = s /\ calls[c].id = m.id
<1>2. CASE UNCHANGED calls
  BY <1>1, <1>2, CallsAside
<1>3. CASE calls' = [c \in Callers |-> IF For(c) THEN [calls[c] EXCEPT !.result = m.op] ELSE calls[c]]
  <2>1. <<m.id, m.op>> \in Tags(s)
    BY TaggedTail DEF Result, Received, IInv, Wire, Tags
  <2>2. m.id \in 1 .. nextID[s] /\ m.op \in Nat
    BY <2>1 DEF IInv, TagsIssued
  <2>3. \A c \in Callers : For(c) => Registered(c) /\ m.op = calls[c].op
    BY <2>1, <2>2 DEF IInv, NoIdNoResult, TagsOwned, Desks
  <2> HIDE DEF m
  <2>4. \A c \in Callers :
          /\ calls[c] \in [pc : Places, stream : 0 .. MaxStreams, id : Nat, op : Nat, result : Nat]
          /\ calls'[c] = IF For(c) THEN [calls[c] EXCEPT !.result = m.op] ELSE calls[c]
    BY <1>3 DEF IInv, Desks
  <2>5. \A c \in Callers :
          /\ calls'[c] \in [pc : Places, stream : 0 .. MaxStreams, id : Nat, op : Nat, result : Nat]
          /\ calls'[c].pc = calls[c].pc /\ calls'[c].stream = calls[c].stream
          /\ calls'[c].id = calls[c].id /\ calls'[c].op = calls[c].op
          /\ calls'[c].result = IF For(c) THEN m.op ELSE calls[c].result
    BY <2>2, <2>4
  <2>6. calls' = [c \in Callers |-> calls'[c]]
    BY <1>3
  <2>7. Desks'
    BY <1>1, <2>5, <2>6 DEF IInv, Desks
  <2>8. \A c \in Callers : Registered(c)' <=> Registered(c)
    BY <2>5 DEF Registered
  <2>9. TagsIssued' /\ TagsOwned' /\ IdsDistinct'
    BY <1>1, <2>5, <2>8 DEF IInv, NoNewTags, TagsIssued, TagsOwned, IdsDistinct
  <2>10. NoIdNoResult'
    BY <2>3, <2>5, <2>8 DEF IInv, NoIdNoResult
  <2>11. ResultOfOwnCommand'
    BY <2>3, <2>5 DEF IInv, ResultOfOwnCommand
  <2> QED BY <1>1, <2>7, <2>9, <2>10, <2>11 DEF IInv
<1> QED BY <1>2, <1>3 DEF Result, SessionOf

\* FleetControl picks the agent's session.
LEMMA ControlIInv ==
  ASSUME IInv, NEW c \in Callers, Control(c)
  PROVE  IInv'
<1>1. /\ UNCHANGED <<up, down, running, conn, opened, current, nextID>>
      /\ current \in Streams /\ ops' = ops + 1 /\ calls[c].pc = "idle"
  BY DEF Control, agent, wire, server, IInv, Wire, Streams
<1> DEFINE call == [Idle EXCEPT !.pc = "got", !.stream = current, !.op = ops + 1]
<1>2. /\ call \in [pc : Places, stream : 0 .. MaxStreams, id : Nat, op : Nat, result : Nat]
      /\ call.pc = "got" /\ call.stream = current /\ call.id = 0 /\ call.result = 0
  <2>1. /\ Idle \in [pc : Places, stream : 0 .. MaxStreams, id : Nat, op : Nat, result : Nat]
        /\ Idle.id = 0 /\ Idle.result = 0
    BY LinkAssumption DEF Idle, Places
  <2>2. current \in 0 .. MaxStreams /\ ops + 1 \in Nat /\ "got" \in Places
    BY DEF IInv, Wire, Desks, Places
  <2> QED BY <2>1, <2>2
<1>3. calls' = [calls EXCEPT ![c] = call]
  BY DEF Control
<1> HIDE DEF call
<1>4. \A d \in Callers : calls'[d] = IF d = c THEN call ELSE calls[d]
  BY <1>3 DEF IInv, Desks
<1>5. Wire' /\ NoNewTags
  BY <1>1, TagsKept DEF IInv, Wire
<1>6. Desks'
  <2>1. \A d \in Callers : calls'[d].pc # "idle" => calls'[d].stream \in Streams
    BY <1>1, <1>2, <1>4 DEF IInv, Desks
  <2> QED BY <1>1, <1>2, <1>3, <2>1 DEF IInv, Desks
<1>7. \A d \in Callers : Registered(d)' <=> d # c /\ Registered(d)
  BY <1>1, <1>2, <1>4 DEF Registered
<1>8. TagsIssued' /\ TagsOwned' /\ IdsDistinct'
  BY <1>1, <1>4, <1>5, <1>7 DEF IInv, NoNewTags, TagsIssued, TagsOwned, IdsDistinct
<1>9. NoIdNoResult' /\ ResultOfOwnCommand'
  BY <1>1, <1>2, <1>4, <1>7 DEF IInv, NoIdNoResult, ResultOfOwnCommand
<1> QED BY <1>5, <1>6, <1>8, <1>9 DEF IInv

\* dispatch takes an id that no tag on its stream has, nor another caller.
LEMMA EnterIInv ==
  ASSUME IInv, NEW c \in Callers, Enter(c)
  PROVE  IInv'
<1>1. PICK s : s = calls[c].stream
  OBVIOUS
<1>2. /\ UNCHANGED <<up, down, running, conn, opened, current, ops>>
      /\ calls[c].pc = "got" /\ nextID' = [nextID EXCEPT ![s] = @ + 1]
      /\ calls' = [calls EXCEPT ![c].pc = "send", ![c].id = nextID'[s]]
  BY <1>1 DEF Enter, agent, wire, server
<1>3. s \in Streams /\ ~Registered(c) /\ calls[c].result = 0
  BY <1>1, <1>2 DEF IInv, Desks, NoIdNoResult, Registered
<1>4. /\ \A t \in Streams : nextID[t] \in Nat /\ nextID'[t] = IF t = s THEN nextID[t] + 1 ELSE nextID[t]
      /\ nextID' \in [Streams -> Nat]
  BY <1>2, <1>3 DEF IInv, Desks
<1>5. calls' = [calls EXCEPT ![c] = [calls[c] EXCEPT !.pc = "send", !.id = nextID[s] + 1]]
  BY <1>2, <1>3, <1>4 DEF IInv, Desks
<1>6. [calls[c] EXCEPT !.pc = "send", !.id = nextID[s] + 1]
        \in [pc : Places, stream : 0 .. MaxStreams, id : Nat, op : Nat, result : Nat]
  BY <1>3, <1>4 DEF IInv, Desks, Places
<1>7. /\ \A d \in Callers : d # c => calls'[d] = calls[d]
      /\ calls'[c].pc = "send" /\ calls'[c].stream = s /\ calls'[c].id = nextID[s] + 1
      /\ calls'[c].result = 0
  BY <1>1, <1>3, <1>5 DEF IInv, Desks
<1>8. Wire' /\ \A t \in Streams : Tags(t)' = Tags(t)
  BY <1>2 DEF IInv, Wire, Tags
<1>9. Desks'
  BY <1>2, <1>3, <1>4, <1>5, <1>6, <1>7 DEF IInv, Desks
<1>10. \A d \in Callers : Registered(d)' <=> d = c \/ Registered(d)
  BY <1>7 DEF Registered
<1>11. TagsIssued'
  BY <1>4, <1>8 DEF IInv, TagsIssued
<1>12. TagsOwned'
  <2>1. \A t \in Tags(s)' : t[1] \in 1 .. nextID[s]
    BY <1>3, <1>8 DEF IInv, TagsIssued
  <2> SUFFICES ASSUME NEW d \in Callers, NEW u \in Streams, Registered(d)', calls'[d].stream = u
               PROVE  /\ calls'[d].id \in 1 .. nextID'[u]
                      /\ \A t \in Tags(u)' : t[1] = calls'[d].id => t[2] = calls'[d].op
    BY DEF TagsOwned
  <2>2. CASE d = c
    BY <1>3, <1>4, <1>7, <2>1, <2>2
  <2>3. CASE d # c
    BY <1>4, <1>7, <1>8, <1>10, <2>3 DEF IInv, TagsOwned
  <2> QED BY <2>2, <2>3
<1>13. IdsDistinct'
  <2>1. \A d \in Callers : Registered(d) /\ calls[d].stream = s => calls[d].id # nextID[s] + 1
    BY <1>3, <1>4 DEF IInv, TagsOwned
  <2> QED BY <1>7, <1>10, <2>1 DEF IInv, IdsDistinct
<1>14. NoIdNoResult' /\ ResultOfOwnCommand'
  BY <1>7, <1>10 DEF IInv, NoIdNoResult, ResultOfOwnCommand
<1> QED BY <1>8, <1>9, <1>11, <1>12, <1>13, <1>14 DEF IInv

\* The command goes down under the caller's tag.
LEMMA SendIInv ==
  ASSUME IInv, NEW c \in Callers, Send(c)
  PROVE  IInv'
<1>1. PICK s, m : s = calls[c].stream /\ m = [kind |-> "command", id |-> calls[c].id, op |-> calls[c].op]
  OBVIOUS
<1>2. UNCHANGED <<up, running, conn, opened, current, nextID, ops>> /\ calls[c].pc = "send"
  BY DEF Send, agent, server
<1>3. CASE Abandon(c) /\ UNCHANGED down
  BY <1>2, <1>3, CallEnds, TagsKept DEF Abandon, IInv, Wire
<1>4. CASE /\ calls' = [calls EXCEPT ![c].pc = "waiting"]
           /\ down' = [down EXCEPT ![s] = Append(@, m)] \/ down' = down
  <2>1. s \in Streams /\ Registered(c) /\ calls[c].stream = s
    BY <1>1, <1>2 DEF IInv, Desks, Registered
  <2>2. calls[c] \in [pc : Places, stream : 0 .. MaxStreams, id : Nat, op : Nat, result : Nat]
    BY DEF IInv, Desks
  <2>3. PICK tag : tag = <<calls[c].id, calls[c].op>>
    OBVIOUS
  <2>4. tag \in (1 .. nextID[s]) \X Nat
    BY <2>1, <2>2, <2>3 DEF IInv, TagsOwned
  <2>5. \A d \in Callers :
          /\ calls'[d].stream = calls[d].stream /\ calls'[d].id = calls[d].id
          /\ calls'[d].op = calls[d].op /\ calls'[d].result = calls[d].result
          /\ calls'[d].pc # "idle" <=> calls[d].pc # "idle"
          /\ Registered(d)' <=> Registered(d)
    BY <1>2, <1>4, <2>2 DEF IInv, Desks, Registered
  <2>6. Desks'
    <3>1. [calls[c] EXCEPT !.pc = "waiting"]
            \in [pc : Places, stream : 0 .. MaxStreams, id : Nat, op : Nat, result : Nat]
      BY <2>2 DEF Places
    <3> QED BY <1>2, <1>4, <2>5, <3>1 DEF IInv, Desks
  <2>7. IsSeq(Append(down[s], m))
        /\ Tagged(Append(down[s], m), "command") \subseteq Tagged(down[s], "command") \cup {tag}
    <3>1. m.kind = "command" /\ <<m.id, m.op>> = tag
      BY <1>1, <2>3
    <3> QED BY <2>1, <3>1, TaggedAppend DEF IInv, Wire
  <2>8. /\ \A t \in Streams : down'[t] = down[t] \/ (t = s /\ down'[t] = Append(down[s], m))
        /\ down' = [t \in Streams |-> down'[t]]
    BY <1>4, <2>1 DEF IInv, Wire
  <2>9. Wire'
    BY <1>2, <2>7, <2>8 DEF IInv, Wire
  <2>10. \A t \in Streams : Tags(t)' \subseteq Tags(t) \cup IF t = s THEN {tag} ELSE {}
    BY <1>2, <2>7, <2>8 DEF Tags
  <2>11. TagsIssued'
    BY <1>2, <2>4, <2>10 DEF IInv, TagsIssued
  <2>12. TagsOwned'
    <3> SUFFICES ASSUME NEW d \in Callers, NEW u \in Streams, Registered(d)', calls'[d].stream = u
                 PROVE  /\ calls'[d].id \in 1 .. nextID'[u]
                        /\ \A t \in Tags(u)' : t[1] = calls'[d].id => t[2] = calls'[d].op
      BY DEF TagsOwned
    <3>1. Registered(d) /\ calls[d].stream = u
      BY <2>5
    <3>2. ASSUME NEW t \in Tags(u)', t[1] = calls[d].id PROVE t[2] = calls[d].op
      <4>1. CASE t \in Tags(u)
        BY <3>1, <3>2, <4>1 DEF IInv, TagsOwned
      <4>2. CASE u = s /\ t = tag
        <5>1. d = c
          BY <2>1, <2>3, <3>1, <3>2, <4>2 DEF IInv, IdsDistinct
        <5> QED BY <2>3, <4>2, <5>1
      <4> QED BY <2>10, <4>1, <4>2
    <3> QED BY <1>2, <2>5, <3>1, <3>2 DEF IInv, TagsOwned
  <2>13. IdsDistinct'
    BY <2>5 DEF IInv, IdsDistinct
  <2>14. NoIdNoResult' /\ ResultOfOwnCommand'
    BY <2>5 DEF IInv, NoIdNoResult, ResultOfOwnCommand
  <2> QED BY <2>6, <2>9, <2>11, <2>12, <2>13, <2>14 DEF IInv
<1> QED BY <1>1, <1>3, <1>4 DEF Send

-----------------------------------------------------------------------------
LEMMA InitIInv == Init => IInv
<1> SUFFICES ASSUME Init PROVE IInv
  OBVIOUS
<1>1. Wire
  BY TaggedShort, LinkAssumption DEF Init, Wire
<1>2. Desks
  BY LinkAssumption DEF Init, Desks, Idle, Places
<1>3. \A s \in Streams : Tags(s) = {}
  BY TaggedShort DEF Init, Tags
<1>4. \A c \in Callers : ~Registered(c) /\ calls[c] = Idle
  BY DEF Init, Registered, Idle
<1> QED BY <1>1, <1>2, <1>3, <1>4
        DEF IInv, TagsIssued, TagsOwned, IdsDistinct, NoIdNoResult, ResultOfOwnCommand, Idle

LEMMA StepIInv == IInv /\ [Next]_vars => IInv'
<1> SUFFICES ASSUME IInv, [Next]_vars PROVE IInv'
  OBVIOUS
<1>1. CASE Connect \/ Cut \/ StreamError \/ Sample \/ RecvAck \/ Push \/ RecvCommand
  BY <1>1, AgentTags, CallsAside DEF IInv
<1>2. ASSUME NEW s \in Streams, Executed(s) PROVE IInv'
  BY <1>2, ExecutedTags, CallsAside DEF IInv
<1>3. ASSUME NEW s \in Streams, Handler(s) PROVE IInv'
  <2>1. CASE Result(s)
    BY <2>1, ResultIInv
  <2>2. CASE ~Result(s)
    <3>1. UNCHANGED calls
      BY <1>3, <2>2 DEF Handler, Hello, Ack, Snapshot, Metrics, AppendGroup, RecvError, NeverServed,
                        Teardown, broker
    <3> QED BY <1>3, <3>1, HandlerTags, CallsAside DEF IInv
  <2> QED BY <2>1, <2>2
<1>4. ASSUME NEW c \in Callers, Control(c) \/ Enter(c) \/ Send(c) PROVE IInv'
  BY <1>4, ControlIInv, EnterIInv, SendIInv
<1>5. ASSUME NEW c \in Callers, Return(c) \/ Timeout(c) PROVE IInv'
  <2>1. /\ calls' = [calls EXCEPT ![c] = Idle]
        /\ UNCHANGED <<up, down, running, conn, opened, current, nextID, ops>>
    BY <1>5 DEF Return, Timeout, Abandon, agent, wire, server
  <2> QED BY <2>1, CallEnds, TagsKept DEF IInv, Wire
<1>6. CASE UNCHANGED vars
  <2>1. UNCHANGED <<up, down, running, conn, opened, current, nextID, calls, ops>>
    BY <1>6 DEF vars, agent, wire, server, broker
  <2> QED BY <2>1, CallsAside, TagsKept DEF IInv, Wire
<1> QED BY <1>1, <1>2, <1>3, <1>4, <1>5, <1>6 DEF Next

-----------------------------------------------------------------------------
\* A caller of FleetControl is answered with the result of its own command, for
\* any number of callers, streams and commands, cuts and timeouts: an id is taken
\* once per session (broker.go: dispatch), results return on the stream their
\* command came from (client.go), and deliver looks in that stream's session only.
THEOREM FleetResultOfOwnCommand == Spec => []ResultOfOwnCommand
<1>1. IInv => ResultOfOwnCommand
  BY DEF IInv
<1> QED BY <1>1, InitIInv, StepIInv, PTL DEF Spec
=============================================================================
