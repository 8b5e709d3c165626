-------------------------- MODULE FleetStoreProofs --------------------------
(***************************************************************************)
(* Two theorems about FleetLink for any number of callers, streams, rows    *)
(* and commands.  As long as no Append failed, the server's store has no    *)
(* gap below its newest row.  And every variable keeps its type, which here *)
(* bounds how often a row is stored (once per stream that sent it) and the  *)
(* ids given out (one per command called).                                  *)
(***************************************************************************)
EXTENDS FleetLinkProofs, FiniteSetTheorems, WellFoundedInduction

-----------------------------------------------------------------------------
(* The store.  What follows holds as long as no Append failed.               *)

Interval(R) == \E a, b \in Rows : a <= b /\ R = a .. b

\* Row r precedes the message at i, on its way up in an earlier one.
Ahead(q, i, r) == \E j \in 1 .. i - 1 : q[j].kind = "metrics" /\ r \in q[j].rows

\* Row r is stored, or about to be stored by the handler of s.
There(s, r) == store[r] > 0 \/ r \in batch[s]

StoreTypes ==
  /\ handler = [s \in Streams |-> handler[s]] /\ batch = [s \in Streams |-> batch[s]]
  /\ store \in [Rows -> Nat]
  /\ watermark \in 0 .. MaxWork /\ logged \in 0 .. MaxWork

\* The rows in the store are those up to some k.
Prefix == \E k \in 0 .. MaxWork : \A r \in Rows : store[r] > 0 <=> r <= k

\* A batch is what is left of an interval, below which nothing is missing ...
BatchFits ==
  \A s \in Streams :
    /\ handler[s] = "storing" => Interval(batch[s])
    /\ handler[s] # "storing" => batch[s] = {}
    /\ \A x \in batch[s], r \in Rows : r < x => There(s, r)

\* ... and so it will be for what is on its way, message after message ...
MessagesFit ==
  \A s \in Streams : \A i \in DOMAIN up[s] :
    up[s][i].kind = "metrics" =>
      /\ Interval(up[s][i].rows)
      /\ \A x \in up[s][i].rows, r \in Rows :
           r < x => There(s, r) \/ r \in up[s][i].rows \/ Ahead(up[s], i, r)

\* ... and for what the agent sends next on a whole stream, by its watermark,
WatermarkFits ==
  conn # 0 /\ acked /\ ~cut =>
    \A r \in Rows : r <= watermark => There(conn, r) \/ Ahead(up[conn], Len(up[conn]) + 1, r)

\* which an ack has set to what was stored.
AcksFit ==
  \A s \in Streams : \A i \in DOMAIN down[s] :
    down[s][i].kind = "ack" =>
      /\ down[s][i].max \in 0 .. MaxWork
      /\ \A r \in Rows : r <= down[s][i].max => store[r] > 0

StoreInv == StoreTypes /\ Prefix /\ BatchFits /\ MessagesFit /\ WatermarkFits /\ AcksFit

PInv == IInv /\ (~failed => StoreInv)

-----------------------------------------------------------------------------
(* The sequences of messages. *)

LEMMA TailFacts ==
  ASSUME NEW q, IsSeq(q), q # <<>>
  PROVE  /\ Len(q) \in Nat /\ Len(q) >= 1 /\ DOMAIN q = 1 .. Len(q) /\ Head(q) = q[1]
         /\ Len(Tail(q)) = Len(q) - 1 /\ DOMAIN Tail(q) = 1 .. Len(q) - 1
         /\ \A i \in 1 .. Len(q) - 1 : Tail(q)[i] = q[i + 1]
<1>1. PICK S : q \in Seq(S)
  BY DEF IsSeq
<1> QED BY <1>1

LEMMA TailIndex ==
  ASSUME NEW q, IsSeq(q), q # <<>>, NEW i \in DOMAIN Tail(q)
  PROVE  i \in Nat /\ i + 1 \in DOMAIN q /\ i <= Len(q) /\ Tail(q)[i] = q[i + 1]
<1>1. i \in 1 .. Len(q) - 1 /\ Len(q) \in Nat
  BY TailFacts
<1> QED BY <1>1, TailFacts

LEMMA ConcatFacts ==
  ASSUME NEW p, NEW q, IsSeq(p), IsSeq(q)
  PROVE  /\ Len(p) \in Nat /\ Len(q) \in Nat /\ DOMAIN p = 1 .. Len(p) /\ DOMAIN q = 1 .. Len(q)
         /\ Len(p \o q) = Len(p) + Len(q) /\ DOMAIN (p \o q) = 1 .. Len(p) + Len(q)
         /\ \A i \in 1 .. Len(p) : (p \o q)[i] = p[i]
         /\ \A i \in 1 .. Len(q) : (p \o q)[Len(p) + i] = q[i]
<1>1. PICK S, T : p \in Seq(S) /\ q \in Seq(T)
  BY DEF IsSeq
<1>2. p \in Seq(S \cup T) /\ q \in Seq(S \cup T)
  BY <1>1
<1> QED BY <1>2

\* Reading the head moves its rows from the wire.
LEMMA AheadTail ==
  ASSUME NEW q, IsSeq(q), q # <<>>, NEW i \in Nat, NEW r, Ahead(q, i + 1, r), i + 1 <= Len(q) + 1
  PROVE  Ahead(Tail(q), i, r) \/ (Head(q).kind = "metrics" /\ r \in Head(q).rows)
<1>1. PICK j \in 1 .. i : q[j].kind = "metrics" /\ r \in q[j].rows
  BY DEF Ahead
<1>2. CASE j = 1
  BY <1>1, <1>2, TailFacts
<1>3. CASE j # 1
  <2>1. j - 1 \in 1 .. i - 1 /\ j - 1 \in 1 .. Len(q) - 1 /\ (j - 1) + 1 = j
    BY <1>3, TailFacts
  <2>2. Tail(q)[j - 1] = q[j]
    BY <2>1, TailFacts
  <2> QED BY <1>1, <2>1, <2>2 DEF Ahead
<1> QED BY <1>2, <1>3

LEMMA AheadConcat ==
  ASSUME NEW p, NEW q, IsSeq(p), IsSeq(q), NEW i \in 1 .. Len(p) + 1, NEW r, Ahead(p, i, r)
  PROVE  \A n \in Nat : n >= i => Ahead(p \o q, n, r)
<1>1. PICK j \in 1 .. i - 1 : p[j].kind = "metrics" /\ r \in p[j].rows
  BY DEF Ahead
<1>2. (p \o q)[j] = p[j]
  BY ConcatFacts
<1> QED BY <1>1, <1>2, ConcatFacts DEF Ahead

-----------------------------------------------------------------------------
(* The wire's part of the invariant, for each way the wire changes. *)

\* A step that stores nothing and loses or gains no message of metrics.
LEMMA ReadOther ==
  ASSUME Wire, MessagesFit, WatermarkFits, NEW s \in Streams, up[s] # <<>>,
         Head(up[s]).kind # "metrics", up' = [up EXCEPT ![s] = Tail(@)],
         UNCHANGED <<store, batch, conn, cut, acked, watermark>>
  PROVE  MessagesFit' /\ WatermarkFits'
<1>1. IsSeq(up[s])
  BY DEF Wire
<1>2. \A t \in Streams : up'[t] = IF t = s THEN Tail(up[s]) ELSE up[t]
  BY DEF Wire
<1>3. \A t, r : There(t, r)' <=> There(t, r)
  BY DEF There
<1>4. ASSUME NEW i \in Nat, NEW r, i <= Len(up[s]), Ahead(up[s], i + 1, r)
      PROVE  Ahead(Tail(up[s]), i, r)
  BY <1>1, <1>4, AheadTail, TailFacts
<1>5. MessagesFit'
  <2> SUFFICES ASSUME NEW t \in Streams, NEW i \in DOMAIN up'[t], up'[t][i].kind = "metrics"
               PROVE  /\ Interval(up'[t][i].rows)
                      /\ \A x \in up'[t][i].rows, r \in Rows :
                           r < x => There(t, r) \/ r \in up'[t][i].rows \/ Ahead(up'[t], i, r)
    BY <1>3 DEF MessagesFit
  <2>1. CASE t # s
    BY <1>2, <2>1 DEF MessagesFit
  <2>2. CASE t = s
    <3>1. up'[t] = Tail(up[s]) /\ i \in DOMAIN Tail(up[s])
      BY <1>2, <2>2
    <3>2. i \in Nat /\ i + 1 \in DOMAIN up[s] /\ i <= Len(up[s]) /\ Tail(up[s])[i] = up[s][i + 1]
      BY <1>1, <3>1, TailIndex
    <3> QED BY <1>4, <2>2, <3>1, <3>2 DEF MessagesFit
  <2> QED BY <2>1, <2>2
<1>6. WatermarkFits'
  <2> SUFFICES ASSUME conn # 0, acked, ~cut, NEW r \in Rows, r <= watermark
               PROVE  There(conn, r) \/ Ahead(up'[conn], Len(up'[conn]) + 1, r)
    BY <1>3 DEF WatermarkFits
  <2>1. There(conn, r) \/ Ahead(up[conn], Len(up[conn]) + 1, r)
    BY DEF WatermarkFits
  <2>2. conn \in Streams
    BY DEF Wire, Streams
  <2>3. CASE conn = s
    <3>1. Len(up[s]) \in Nat /\ Len(Tail(up[s])) + 1 = Len(up[s])
      BY <1>1, TailFacts
    <3> QED BY <1>2, <1>4, <2>1, <2>3, <3>1
  <2> QED BY <1>2, <2>1, <2>2, <2>3
<1> QED BY <1>5, <1>6

\* Reading metrics: what the head had is now in the batch.
LEMMA ReadMetrics ==
  ASSUME Wire, StoreInv, NEW s \in Streams, Metrics(s)
  PROVE  MessagesFit' /\ WatermarkFits' /\ BatchFits'
<1> DEFINE rows == Head(up[s]).rows
<1>1. IsSeq(up[s]) /\ up[s] # <<>> /\ Head(up[s]).kind = "metrics" /\ handler[s] # "storing"
  BY DEF Wire, Metrics, Received
<1>2. batch[s] = {}
  BY <1>1 DEF StoreInv, BatchFits
<1>3. \A t \in Streams : /\ up'[t] = IF t = s THEN Tail(up[s]) ELSE up[t]
                         /\ batch'[t] = IF t = s THEN rows ELSE batch[t]
                         /\ handler'[t] = IF t = s THEN "storing" ELSE handler[t]
  BY DEF Wire, StoreInv, StoreTypes, Metrics, Received
<1>4. UNCHANGED <<store, conn, cut, acked, watermark>>
  BY DEF Metrics, agent
<1>5. \A t \in Streams : \A r : There(t, r)' <=> There(t, r) \/ (t = s /\ r \in rows)
  BY <1>2, <1>3, <1>4 DEF There
<1>6. /\ 1 \in DOMAIN up[s] /\ Head(up[s]) = up[s][1]
      /\ \A r : ~Ahead(up[s], 1, r)
  BY <1>1, TailFacts DEF Ahead
<1>7. Interval(rows) /\ \A x \in rows, r \in Rows : r < x => There(s, r) \/ r \in rows
  BY <1>1, <1>6 DEF StoreInv, MessagesFit
<1>8. ASSUME NEW i \in Nat, NEW r, i <= Len(up[s]), Ahead(up[s], i + 1, r)
      PROVE  Ahead(Tail(up[s]), i, r) \/ r \in rows
  BY <1>1, <1>8, AheadTail, TailFacts
<1> HIDE DEF rows
<1>9. BatchFits'
  BY <1>3, <1>5, <1>7 DEF StoreInv, BatchFits, Interval
<1>10. MessagesFit'
  <2> SUFFICES ASSUME NEW t \in Streams, NEW i \in DOMAIN up'[t], up'[t][i].kind = "metrics"
               PROVE  /\ Interval(up'[t][i].rows)
                      /\ \A x \in up'[t][i].rows, r \in Rows :
                           r < x => There(t, r)' \/ r \in up'[t][i].rows \/ Ahead(up'[t], i, r)
    BY DEF MessagesFit
  <2>1. CASE t # s
    BY <1>3, <1>5, <2>1 DEF StoreInv, MessagesFit
  <2>2. CASE t = s
    <3>1. up'[t] = Tail(up[s]) /\ i \in DOMAIN Tail(up[s])
      BY <1>3, <2>2
    <3>2. i \in Nat /\ i + 1 \in DOMAIN up[s] /\ i <= Len(up[s]) /\ Tail(up[s])[i] = up[s][i + 1]
      BY <1>1, <3>1, TailIndex
    <3> QED BY <1>5, <1>8, <2>2, <3>1, <3>2 DEF StoreInv, MessagesFit
  <2> QED BY <2>1, <2>2
<1>11. WatermarkFits'
  <2> SUFFICES ASSUME conn # 0, acked, ~cut, NEW r \in Rows, r <= watermark
               PROVE  store'[r] > 0 \/ r \in batch'[conn] \/ Ahead(up'[conn], Len(up'[conn]) + 1, r)
    BY <1>4 DEF WatermarkFits, There
  <2>1. PICK t \in Streams : t = conn
    BY DEF Wire, Streams
  <2>2. There(t, r) \/ Ahead(up[t], Len(up[t]) + 1, r)
    BY <2>1 DEF StoreInv, WatermarkFits
  <2>3. There(t, r)' \/ Ahead(up'[t], Len(up'[t]) + 1, r)
    <3>1. CASE t = s
      <4>1. Len(up[s]) \in Nat /\ Len(Tail(up[s])) + 1 = Len(up[s])
        BY <1>1, TailFacts
      <4>2. CASE There(s, r)
        BY <1>5, <3>1, <4>2
      <4>3. CASE Ahead(up[s], Len(up[s]) + 1, r)
        <5>1. Ahead(Tail(up[s]), Len(up[s]), r) \/ r \in rows
          BY <1>8, <4>1, <4>3
        <5>2. up'[s] = Tail(up[s])
          BY <1>3
        <5> QED BY <1>5, <3>1, <4>1, <5>1, <5>2
      <4> QED BY <2>2, <3>1, <4>2, <4>3
    <3>2. CASE t # s
      BY <1>3, <1>5, <2>2, <3>2
    <3> QED BY <3>1, <3>2
  <2> QED BY <2>1, <2>3 DEF There
<1> QED BY <1>9, <1>10, <1>11

\* Sending: the new messages come after the others.
LEMMA UpLonger ==
  ASSUME Wire, MessagesFit, NEW s \in Streams, NEW msgs, IsSeq(msgs),
         up' = [up EXCEPT ![s] = @ \o msgs], UNCHANGED <<store, batch>>,
         \A i \in DOMAIN msgs : msgs[i].kind = "metrics" =>
           /\ Interval(msgs[i].rows)
           /\ \A x \in msgs[i].rows, r \in Rows :
                r < x => There(s, r) \/ r \in msgs[i].rows \/ Ahead(up[s], Len(up[s]) + 1, r)
  PROVE  /\ MessagesFit'
         /\ \A r : Ahead(up[s], Len(up[s]) + 1, r) => Ahead(up'[s], Len(up'[s]) + 1, r)
<1> DEFINE q == up[s] \o msgs
<1>1. IsSeq(up[s])
  BY DEF Wire
<1>2. \A t \in Streams : up'[t] = IF t = s THEN q ELSE up[t]
  BY DEF Wire
<1>3. /\ Len(up[s]) \in Nat /\ Len(msgs) \in Nat /\ Len(q) = Len(up[s]) + Len(msgs)
      /\ DOMAIN up[s] = 1 .. Len(up[s]) /\ DOMAIN msgs = 1 .. Len(msgs) /\ DOMAIN q = 1 .. Len(q)
      /\ \A i \in 1 .. Len(up[s]) : q[i] = up[s][i]
      /\ \A i \in 1 .. Len(msgs) : q[Len(up[s]) + i] = msgs[i]
  BY <1>1, ConcatFacts
<1>4. ASSUME NEW i \in 1 .. Len(up[s]) + 1, NEW r, Ahead(up[s], i, r)
      PROVE  \A n \in Nat : n >= i => Ahead(q, n, r)
  BY <1>1, <1>4, AheadConcat
<1> HIDE DEF q
<1>5. \A t, r : There(t, r)' <=> There(t, r)
  BY DEF There
<1>6. MessagesFit'
  <2> SUFFICES ASSUME NEW t \in Streams, NEW i \in DOMAIN up'[t], up'[t][i].kind = "metrics"
               PROVE  /\ Interval(up'[t][i].rows)
                      /\ \A x \in up'[t][i].rows, r \in Rows :
                           r < x => There(t, r) \/ r \in up'[t][i].rows \/ Ahead(up'[t], i, r)
    BY <1>5 DEF MessagesFit
  <2>1. CASE t # s
    BY <1>2, <2>1 DEF MessagesFit
  <2>2. CASE t = s
    <3>1. up'[t] = q /\ i \in 1 .. Len(q)
      BY <1>2, <1>3, <2>2
    <3>2. CASE i <= Len(up[s])
      <4>1. i \in DOMAIN up[s] /\ q[i] = up[s][i] /\ i \in 1 .. Len(up[s]) + 1 /\ i \in Nat /\ i >= i
        BY <1>3, <3>1, <3>2
      <4> QED BY <1>4, <2>2, <3>1, <4>1 DEF MessagesFit
    <3>3. CASE ~(i <= Len(up[s]))
      <4>1. PICK j \in 1 .. Len(msgs) : i = Len(up[s]) + j
        <5>1. i - Len(up[s]) \in 1 .. Len(msgs) /\ i = Len(up[s]) + (i - Len(up[s]))
          BY <1>3, <3>1, <3>3
        <5> QED BY <5>1
      <4>2. q[i] = msgs[j] /\ j \in DOMAIN msgs /\ i \in Nat /\ i >= Len(up[s]) + 1
            /\ Len(up[s]) + 1 \in 1 .. Len(up[s]) + 1
        BY <1>3, <3>1, <4>1
      <4> QED BY <1>4, <2>2, <3>1, <4>2
    <3> QED BY <3>2, <3>3
  <2> QED BY <2>1, <2>2
<1>7. ASSUME NEW r, Ahead(up[s], Len(up[s]) + 1, r) PROVE Ahead(up'[s], Len(up'[s]) + 1, r)
  BY <1>2, <1>3, <1>4, <1>7
<1> QED BY <1>6, <1>7

\* The up side and the store stay as they are.
LEMMA UpSame ==
  ASSUME MessagesFit, UNCHANGED <<up, store, batch>>
  PROVE  /\ MessagesFit'
         /\ WatermarkFits /\ UNCHANGED <<conn, cut, acked, watermark>> => WatermarkFits'
<1>1. \A t, r : There(t, r)' <=> There(t, r)
  BY DEF There
<1>2. MessagesFit'
  BY <1>1 DEF MessagesFit, Ahead
<1>3. ASSUME WatermarkFits, UNCHANGED <<conn, cut, acked, watermark>> PROVE WatermarkFits'
  BY <1>3 DEF WatermarkFits, Ahead, There
<1> QED BY <1>2, <1>3

\* Only a broken stream loses what is on its way up.
LEMMA UpLost ==
  ASSUME Wire, MessagesFit, WatermarkFits, NEW s \in Streams, ~Whole(s),
         up' = [up EXCEPT ![s] = <<>>],
         UNCHANGED <<store, batch, conn, cut, acked, watermark>>
  PROVE  MessagesFit' /\ WatermarkFits'
<1>1. \A t \in Streams : up'[t] = IF t = s THEN <<>> ELSE up[t]
  BY DEF Wire
<1>2. \A t, r : There(t, r)' <=> There(t, r)
  BY DEF There
<1>3. MessagesFit'
  BY <1>1, <1>2 DEF MessagesFit
<1>4. WatermarkFits'
  <2> SUFFICES ASSUME conn # 0, acked, ~cut, NEW r \in Rows, r <= watermark
               PROVE  store[r] > 0 \/ r \in batch[conn] \/ Ahead(up'[conn], Len(up'[conn]) + 1, r)
    BY DEF WatermarkFits, There
  <2>1. conn \in Streams /\ conn # s
    BY DEF Wire, Streams, Whole
  <2>2. up'[conn] = up[conn]
    BY <1>1, <2>1
  <2> QED BY <2>2 DEF WatermarkFits, There
<1> QED BY <1>3, <1>4

-----------------------------------------------------------------------------
(* The handlers' and the acks' part. *)

\* A handler that stores nothing goes on to something else.
LEMMA HandlerElsewhere ==
  ASSUME StoreTypes, BatchFits, NEW s \in Streams, handler[s] # "storing",
         NEW pc, pc # "storing", handler' = [handler EXCEPT ![s] = pc], UNCHANGED <<store, batch>>
  PROVE  BatchFits'
<1>1. \A t \in Streams : handler'[t] = "storing" <=> handler[t] = "storing"
  BY DEF StoreTypes
<1> QED BY <1>1 DEF BatchFits, There

LEMMA BatchSame ==
  ASSUME BatchFits, UNCHANGED <<handler, batch, store>>
  PROVE  BatchFits'
BY DEF BatchFits, There

\* Messages on their way down go, and the store only grows.
LEMMA AcksKept ==
  ASSUME Wire, AcksFit, \A r \in Rows : store[r] > 0 => store'[r] > 0,
         \/ down' = down
         \/ \E s \in Streams : down' = [down EXCEPT ![s] = <<>>]
         \/ \E s \in Streams : down[s] # <<>> /\ down' = [down EXCEPT ![s] = Tail(@)]
  PROVE  AcksFit'
<1>1. CASE down' = down
  BY <1>1 DEF AcksFit
<1>2. ASSUME NEW s \in Streams, down' = [down EXCEPT ![s] = <<>>] PROVE AcksFit'
  <2>1. \A t \in Streams : down'[t] = IF t = s THEN <<>> ELSE down[t]
    BY <1>2 DEF Wire
  <2> QED BY <2>1 DEF AcksFit
<1>3. ASSUME NEW s \in Streams, down[s] # <<>>, down' = [down EXCEPT ![s] = Tail(@)] PROVE AcksFit'
  <2>1. \A t \in Streams : down'[t] = IF t = s THEN Tail(down[s]) ELSE down[t]
    BY <1>3 DEF Wire
  <2>2. IsSeq(down[s])
    BY DEF Wire
  <2>3. \A i \in DOMAIN Tail(down[s]) : i + 1 \in DOMAIN down[s] /\ Tail(down[s])[i] = down[s][i + 1]
    BY <1>3, <2>2, TailIndex
  <2>4. \A i \in DOMAIN Tail(down[s]) : Tail(down[s])[i].kind = "ack" =>
          /\ Tail(down[s])[i].max \in 0 .. MaxWork
          /\ \A r \in Rows : r <= Tail(down[s])[i].max => store[r] > 0
    BY <2>3 DEF AcksFit
  <2> QED BY <2>1, <2>4 DEF AcksFit
<1> QED BY <1>1, <1>2, <1>3

LEMMA AcksMore ==
  ASSUME Wire, AcksFit, UNCHANGED store, NEW s \in Streams, NEW m,
         down' = [down EXCEPT ![s] = Append(@, m)],
         m.kind = "ack" => m.max \in 0 .. MaxWork /\ \A r \in Rows : r <= m.max => store[r] > 0
  PROVE  AcksFit'
<1>1. \A t \in Streams : down'[t] = IF t = s THEN Append(down[s], m) ELSE down[t]
  BY DEF Wire
<1>2. PICK S : down[s] \in Seq(S)
  BY DEF Wire, IsSeq
<1>3. down[s] \in Seq(S \cup {m})
  BY <1>2
<1>4. \A i \in DOMAIN Append(down[s], m) :
        \/ i \in DOMAIN down[s] /\ Append(down[s], m)[i] = down[s][i]
        \/ Append(down[s], m)[i] = m
  BY <1>3
<1> QED BY <1>1, <1>4 DEF AcksFit

\* The server's MaxTs is the length of the prefix it has.
LEMMA MaxTsOfPrefix ==
  ASSUME NEW k \in 0 .. MaxWork, \A r \in Rows : store[r] > 0 <=> r <= k
  PROVE  MaxTs = k
<1>1. {0} \cup {r \in Rows : store[r] > 0} = 0 .. k
  BY LinkAssumption DEF Rows
<1>2. k \in 0 .. k /\ \A y \in 0 .. k : k >= y
  OBVIOUS
<1>3. \A x \in 0 .. k : (\A y \in 0 .. k : x >= y) => x = k
  OBVIOUS
<1> QED BY <1>1, <1>2, <1>3 DEF MaxTs, Max

\* storeBatch stores the oldest row of its batch, all before which are stored.
LEMMA AppendFits ==
  ASSUME Wire, StoreInv, ~failed', NEW s \in Streams, AppendGroup(s)
  PROVE  StoreInv'
<1> DEFINE m == NextGroup(s)
<1>1. handler[s] = "storing" /\ Interval(batch[s])
  BY DEF AppendGroup, StoreInv, BatchFits
<1>2. PICK a \in Rows, b \in Rows : a <= b /\ batch[s] = a .. b
  BY <1>1 DEF Interval
<1>3. m = a
  <2>1. a \in a .. b /\ \A y \in a .. b : a <= y
    BY <1>2 DEF Rows
  <2>2. \A x \in a .. b : (\A y \in a .. b : x <= y) => x = a
    BY <2>1 DEF Rows
  <2> QED BY <1>2, <2>1, <2>2 DEF NextGroup, Min
<1> HIDE DEF m
<1>4. /\ store' = [store EXCEPT ![a] = @ + 1]
      /\ batch' = [batch EXCEPT ![s] = @ \ {a}]
      /\ handler' = [handler EXCEPT ![s] = IF batch'[s] = {} THEN "serving" ELSE "storing"]
      /\ UNCHANGED <<conn, cut, acked, watermark, logged, up, down>>
  BY <1>3 DEF AppendGroup, agent, wire, m
<1>5. /\ \A r \in Rows : store[r] \in Nat /\ store'[r] = IF r = a THEN store[r] + 1 ELSE store[r]
      /\ \A t \in Streams : batch'[t] = IF t = s THEN batch[s] \ {a} ELSE batch[t]
      /\ \A t \in Streams : t # s => handler'[t] = handler[t]
      /\ handler'[s] = IF batch'[s] = {} THEN "serving" ELSE "storing"
  BY <1>4 DEF StoreInv, StoreTypes
<1>6. StoreTypes'
  <2>1. handler' = [t \in Streams |-> handler'[t]] /\ batch' = [t \in Streams |-> batch'[t]]
    BY <1>4 DEF StoreInv, StoreTypes
  <2>2. store' \in [Rows -> Nat]
    BY <1>4 DEF StoreInv, StoreTypes
  <2> QED BY <1>4, <2>1, <2>2 DEF StoreInv, StoreTypes
<1>7. \A r \in Rows : store'[r] > 0 <=> store[r] > 0 \/ r = a
  BY <1>2, <1>5
<1>8. \A t \in Streams, r \in Rows : There(t, r) => store'[r] > 0 \/ r \in batch'[t]
  BY <1>5, <1>7 DEF There
<1>9. Prefix'
  <2>1. PICK k \in 0 .. MaxWork : \A r \in Rows : store[r] > 0 <=> r <= k
    BY DEF StoreInv, Prefix
  <2>2. \A r \in Rows : r < a => r <= k
    <3>1. ASSUME NEW r \in Rows, r < a PROVE There(s, r) /\ r \notin batch[s]
      <4>1. a \in batch[s] /\ r \notin batch[s]
        BY <1>2, <3>1, LinkAssumption DEF Rows
      <4> QED BY <3>1, <4>1 DEF StoreInv, BatchFits
    <3> QED BY <2>1, <3>1 DEF There
  <2>3. a <= k + 1
    <3>1. CASE a = 1
      BY <3>1
    <3>2. CASE a # 1
      <4>1. a - 1 \in Rows /\ a - 1 < a
        BY <1>2, <3>2, LinkAssumption DEF Rows
      <4> QED BY <1>2, <2>2, <4>1, LinkAssumption DEF Rows
    <3> QED BY <3>1, <3>2
  <2>4. PICK n \in 0 .. MaxWork : n = IF a <= k THEN k ELSE a
    BY <1>2 DEF Rows
  <2>5. \A r \in Rows : store'[r] > 0 <=> r <= n
    BY <1>2, <1>7, <2>1, <2>3, <2>4, LinkAssumption DEF Rows
  <2> QED BY <2>5 DEF Prefix
<1>10. BatchFits'
  <2>1. batch'[s] # {} => Interval(batch'[s])
    <3>1. CASE a = b
      <4>1. batch'[s] = {}
        BY <1>2, <1>5, <3>1, LinkAssumption DEF Rows
      <4> QED BY <4>1
    <3>2. CASE a # b
      <4>1. a \in Nat /\ b \in Nat /\ a + 1 \in Rows /\ a + 1 <= b
        BY <1>2, <3>2, LinkAssumption DEF Rows
      <4>2. (a .. b) \ {a} = a + 1 .. b
        BY <4>1
      <4>3. batch'[s] = a + 1 .. b
        BY <1>2, <1>5, <4>2
      <4> QED BY <4>1, <4>3 DEF Interval
    <3> QED BY <3>1, <3>2
  <2>2. \A t \in Streams :
          /\ handler'[t] = "storing" => Interval(batch'[t])
          /\ handler'[t] # "storing" => batch'[t] = {}
    BY <1>5, <2>1 DEF StoreInv, BatchFits
  <2>3. \A t \in Streams : \A x \in batch'[t], r \in Rows : r < x => There(t, r)
    BY <1>5 DEF StoreInv, BatchFits
  <2> QED BY <1>8, <2>2, <2>3 DEF BatchFits, There
<1>11. MessagesFit'
  BY <1>4, <1>8 DEF StoreInv, MessagesFit, Ahead, There
<1>12. WatermarkFits'
  <2> SUFFICES ASSUME conn # 0, acked, ~cut, NEW r \in Rows, r <= watermark
               PROVE  store'[r] > 0 \/ r \in batch'[conn] \/ Ahead(up[conn], Len(up[conn]) + 1, r)
    BY <1>4 DEF WatermarkFits, There, Ahead
  <2>1. conn \in Streams
    BY DEF Wire, Streams
  <2> QED BY <1>8, <2>1 DEF StoreInv, WatermarkFits
<1>13. AcksFit'
  BY <1>4, <1>7, AcksKept DEF StoreInv
<1> QED BY <1>6, <1>9, <1>10, <1>11, <1>12, <1>13 DEF StoreInv

-----------------------------------------------------------------------------
(* The steps. *)

\* What none of the agent's steps touches.
LEMMA StoreAside ==
  ASSUME StoreInv, UNCHANGED <<handler, batch, store>>,
         watermark' \in 0 .. MaxWork, logged' \in 0 .. MaxWork,
         MessagesFit', WatermarkFits', AcksFit'
  PROVE  StoreInv'
BY BatchSame DEF StoreInv, StoreTypes, Prefix

\* A tick hands the rows past the watermark to the stream.
LEMMA PushFits ==
  ASSUME Wire, StoreInv, Push
  PROVE  StoreInv'
<1> DEFINE snap == [kind |-> "snapshot"]
           rows == [kind |-> "metrics", rows |-> watermark + 1 .. logged]
           more == IF watermark < logged THEN <<rows>> ELSE <<>>
<1>1. PICK s \in Streams : s = conn
  BY DEF Push, Wire, Streams
<1>2. /\ Sent(s, <<snap>> \o more) /\ watermark' = logged
      /\ UNCHANGED <<conn, cut, acked, logged, down, handler, batch, store>>
  BY <1>1 DEF Push, server
<1>3. watermark \in Nat /\ logged \in Nat /\ logged <= MaxWork
  BY LinkAssumption DEF StoreInv, StoreTypes
<1>4. watermark' \in 0 .. MaxWork /\ logged' \in 0 .. MaxWork /\ AcksFit'
  BY <1>2, AcksKept DEF StoreInv, StoreTypes
<1>5. CASE ~Whole(s)
  <2>1. up' = up
    BY <1>2, <1>5 DEF Sent
  <2>2. WatermarkFits'
    BY <1>1, <1>2, <1>5 DEF WatermarkFits, Whole
  <2> QED BY <1>2, <1>4, <2>1, <2>2, UpSame, StoreAside DEF StoreInv
<1>6. CASE Whole(s)
  <2>1. PICK msgs : msgs = <<snap>> \o more
    OBVIOUS
  <2>2. up' = [up EXCEPT ![s] = @ \o msgs]
    BY <1>2, <1>6, <2>1 DEF Sent
  <2>3. IsSeq(more) /\ IsSeq(msgs)
    BY <2>1, TaggedShort, TaggedConcat
  <2>4. conn # 0 /\ acked /\ ~cut
    BY <1>6 DEF Push, Whole
  <2>5. \A r \in Rows : r <= watermark => There(s, r) \/ Ahead(up[s], Len(up[s]) + 1, r)
    BY <1>1, <2>4 DEF StoreInv, WatermarkFits
  <2>6. \A i \in DOMAIN msgs : msgs[i] = snap \/ (watermark < logged /\ msgs[i] = rows)
    BY <2>1
  <2>7. watermark < logged => Interval(watermark + 1 .. logged)
    BY <1>3, LinkAssumption DEF Interval, Rows
  <2>8. \A x \in watermark + 1 .. logged, r \in Rows :
          r < x => r <= watermark \/ r \in watermark + 1 .. logged
    BY <1>3, LinkAssumption DEF Rows
  <2>9. \A i \in DOMAIN msgs : msgs[i].kind = "metrics" =>
          /\ Interval(msgs[i].rows)
          /\ \A x \in msgs[i].rows, r \in Rows :
               r < x => There(s, r) \/ r \in msgs[i].rows \/ Ahead(up[s], Len(up[s]) + 1, r)
    <3> SUFFICES ASSUME NEW i \in DOMAIN msgs, msgs[i].kind = "metrics"
                 PROVE  watermark < logged /\ msgs[i].rows = watermark + 1 .. logged
      BY <2>5, <2>7, <2>8
    <3> QED BY <2>6
  <2>10. /\ MessagesFit'
         /\ \A r : Ahead(up[s], Len(up[s]) + 1, r) => Ahead(up'[s], Len(up'[s]) + 1, r)
    BY <1>2, <2>2, <2>3, <2>9, UpLonger DEF StoreInv
  <2>11. WatermarkFits'
    <3> SUFFICES ASSUME NEW r \in Rows, r <= logged
                 PROVE  There(s, r) \/ Ahead(up'[s], Len(up'[s]) + 1, r)
      BY <1>1, <1>2 DEF WatermarkFits, There
    <3>1. CASE r <= watermark
      BY <2>5, <2>10, <3>1
    <3>2. CASE ~(r <= watermark)
      <4>1. watermark < logged /\ r \in watermark + 1 .. logged
        BY <1>3, <3>2, LinkAssumption DEF Rows
      <4>2. msgs = <<snap>> \o <<rows>>
        BY <2>1, <4>1
      <4>3. 2 \in 1 .. Len(msgs) /\ msgs[2] = rows
        BY <4>2
      <4>4. up'[s] = up[s] \o msgs /\ IsSeq(up[s])
        BY <2>2 DEF Wire
      <4>5. /\ Len(up[s]) \in Nat /\ Len(up'[s]) \in Nat /\ Len(up[s]) + 2 \in 1 .. Len(up'[s])
            /\ up'[s][Len(up[s]) + 2] = rows
        BY <2>3, <4>3, <4>4, ConcatFacts
      <4>6. PICK j : j = Len(up[s]) + 2
        OBVIOUS
      <4>7. j \in 1 .. (Len(up'[s]) + 1) - 1
        BY <4>5, <4>6
      <4>8. up'[s][j].kind = "metrics" /\ r \in up'[s][j].rows
        <5>1. rows.kind = "metrics" /\ rows.rows = watermark + 1 .. logged
          OBVIOUS
        <5>2. up'[s][j] = rows
          BY <4>5, <4>6
        <5> HIDE DEF rows
        <5> QED BY <4>1, <5>1, <5>2
      <4> QED BY <4>7, <4>8 DEF Ahead
    <3> QED BY <3>1, <3>2
  <2> QED BY <1>2, <1>4, <2>10, <2>11, StoreAside
<1> QED BY <1>5, <1>6

LEMMA AgentFits ==
  ASSUME Wire, Desks, StoreInv,
         Connect \/ Cut \/ StreamError \/ Sample \/ RecvAck \/ Push \/ RecvCommand
  PROVE  StoreInv'
<1>1. CASE Connect
  <2>1. /\ conn' \in Streams /\ acked' = FALSE
        /\ up' = [up EXCEPT ![conn'] = <<[kind |-> "hello", enrolling |-> ~minted]>>]
        /\ UNCHANGED <<watermark, logged, down, handler, batch, store>>
    BY <1>1, LinkAssumption DEF Connect, Wire, Streams, server
  <2>2. \A t \in Streams : up'[t] = IF t = conn' THEN <<[kind |-> "hello", enrolling |-> ~minted]>> ELSE up[t]
    BY <2>1 DEF Wire
  <2>3. MessagesFit'
    BY <2>1, <2>2 DEF StoreInv, MessagesFit, There, Ahead
  <2>4. WatermarkFits' /\ AcksFit'
    BY <2>1, AcksKept DEF WatermarkFits, StoreInv
  <2> QED BY <2>1, <2>3, <2>4, StoreAside DEF StoreInv, StoreTypes
<1>2. CASE Cut
  <2>1. /\ conn \in Streams /\ cut' = TRUE /\ down' = [down EXCEPT ![conn] = <<>>]
        /\ UNCHANGED <<watermark, logged, up, handler, batch, store>>
    BY <1>2 DEF Cut, Wire, Streams, server
  <2>2. MessagesFit' /\ WatermarkFits' /\ AcksFit'
    BY <2>1, UpSame, AcksKept DEF StoreInv, WatermarkFits
  <2> QED BY <2>1, <2>2, StoreAside DEF StoreInv, StoreTypes
<1>3. CASE StreamError
  <2>1. /\ conn \in Streams /\ conn' = 0 /\ down' = [down EXCEPT ![conn] = <<>>]
        /\ UNCHANGED <<watermark, logged, up, handler, batch, store>>
    BY <1>3 DEF StreamError, Wire, Streams, server
  <2>2. MessagesFit' /\ WatermarkFits' /\ AcksFit'
    BY <2>1, UpSame, AcksKept DEF StoreInv, WatermarkFits
  <2> QED BY <2>1, <2>2, StoreAside DEF StoreInv, StoreTypes
<1>4. CASE Sample
  <2>1. /\ logged' = logged + 1 /\ logged + ops < MaxWork
        /\ UNCHANGED <<conn, cut, acked, watermark, up, down, handler, batch, store>>
    BY <1>4 DEF Sample, wire, server
  <2>2. logged' \in 0 .. MaxWork
    BY <2>1, LinkAssumption DEF Desks, StoreInv, StoreTypes
  <2>3. MessagesFit' /\ WatermarkFits' /\ AcksFit'
    BY <2>1, UpSame, AcksKept DEF StoreInv
  <2> QED BY <2>1, <2>2, <2>3, StoreAside DEF StoreInv, StoreTypes
<1>5. CASE RecvAck
  <2>0. PICK s \in Streams : s = conn
    BY <1>5 DEF RecvAck, Wire, Streams
  <2>1. PICK m : s = conn /\ m = Head(down[s])
    BY <2>0
  <2>2. /\ down[s] # <<>> /\ down' = [down EXCEPT ![s] = Tail(@)]
        /\ watermark' = IF m.kind = "ack" THEN m.max ELSE 0
        /\ UNCHANGED <<logged, up, handler, batch, store>>
    BY <1>5, <2>1 DEF RecvAck, server
  <2>3. m.kind = "ack" => m.max \in 0 .. MaxWork /\ \A r \in Rows : r <= m.max => store[r] > 0
    <3>1. 1 \in DOMAIN down[s] /\ m = down[s][1]
      BY <2>1, <2>2, TailFacts DEF Wire
    <3> QED BY <3>1 DEF StoreInv, AcksFit
  <2>4. watermark' \in 0 .. MaxWork /\ \A r \in Rows : r <= watermark' => store[r] > 0
    BY <2>2, <2>3, LinkAssumption DEF Rows
  <2>5. MessagesFit' /\ WatermarkFits' /\ AcksFit'
    BY <2>2, <2>4, UpSame, AcksKept DEF StoreInv, WatermarkFits, There
  <2> QED BY <2>2, <2>4, <2>5, StoreAside DEF StoreInv, StoreTypes
<1>6. CASE Push
  BY <1>6, PushFits
<1>7. CASE RecvCommand
  <2>1. /\ conn \in Streams /\ down[conn] # <<>> /\ down' = [down EXCEPT ![conn] = Tail(@)]
        /\ UNCHANGED <<conn, cut, acked, watermark, logged, up, handler, batch, store>>
    BY <1>7 DEF RecvCommand, Wire, Streams, server
  <2>2. MessagesFit' /\ WatermarkFits' /\ AcksFit'
    BY <2>1, UpSame, AcksKept DEF StoreInv
  <2> QED BY <2>1, <2>2, StoreAside DEF StoreInv, StoreTypes
<1> QED BY <1>1, <1>2, <1>3, <1>4, <1>5, <1>6, <1>7

LEMMA ExecutedFits ==
  ASSUME Wire, StoreInv, NEW s \in Streams, Executed(s)
  PROVE  StoreInv'
<1>1. PICK m : m.kind = "result" /\ Sent(s, <<m>>)
  <2>1. PICK r \in running[s] : Sent(s, <<[kind |-> "result", id |-> r[1], op |-> r[2]]>>)
    BY DEF Executed
  <2> QED BY <2>1
<1>2. UNCHANGED <<conn, cut, acked, watermark, logged, down, handler, batch, store>>
  BY DEF Executed, server
<1>3. AcksFit'
  BY <1>2, AcksKept DEF StoreInv
<1>4. MessagesFit' /\ WatermarkFits'
  <2>1. CASE up' = up
    BY <1>2, <2>1, UpSame DEF StoreInv
  <2>2. CASE up' = [up EXCEPT ![s] = @ \o <<m>>]
    <3>1. IsSeq(<<m>>) /\ \A i \in DOMAIN <<m>> : <<m>>[i].kind # "metrics"
      BY <1>1, TaggedShort
    <3>2. MessagesFit' /\ \A r : Ahead(up[s], Len(up[s]) + 1, r) => Ahead(up'[s], Len(up'[s]) + 1, r)
      BY <1>2, <2>2, <3>1, UpLonger DEF StoreInv
    <3>3. WatermarkFits'
      <4> SUFFICES ASSUME conn # 0, acked, ~cut, NEW r \in Rows, r <= watermark
                   PROVE  There(conn, r) \/ Ahead(up'[conn], Len(up'[conn]) + 1, r)
        BY <1>2 DEF WatermarkFits, There
      <4>1. conn \in Streams /\ \A t \in Streams : t # s => up'[t] = up[t]
        BY <2>2 DEF Wire, Streams
      <4> QED BY <3>2, <4>1 DEF StoreInv, WatermarkFits
    <3> QED BY <3>2, <3>3
  <2> QED BY <1>1, <2>1, <2>2 DEF Sent
<1> QED BY <1>2, <1>3, <1>4, StoreAside DEF StoreInv, StoreTypes

\* What none of the handler's steps touches, but for the rows it stores.
LEMMA HandlerAside ==
  ASSUME StoreInv, NEW s \in Streams, UNCHANGED <<store, watermark, logged>>,
         handler' = handler \/ (\E pc : handler' = [handler EXCEPT ![s] = pc]),
         batch' = batch \/ (\E R : batch' = [batch EXCEPT ![s] = R]),
         BatchFits', MessagesFit', WatermarkFits', AcksFit'
  PROVE  StoreInv'
<1>1. handler' = [t \in Streams |-> handler'[t]] /\ batch' = [t \in Streams |-> batch'[t]]
  BY DEF StoreInv, StoreTypes
<1> QED BY <1>1 DEF StoreInv, StoreTypes, Prefix

LEMMA HandlerFits ==
  ASSUME Wire, StoreInv, ~failed', NEW s \in Streams, Handler(s)
  PROVE  StoreInv'
<1>1. CASE Hello(s)
  <2>1. /\ up[s] # <<>> /\ Head(up[s]).kind # "metrics" /\ up' = [up EXCEPT ![s] = Tail(@)]
        /\ handler[s] # "storing"
        /\ UNCHANGED <<conn, cut, acked, watermark, logged, down, batch, store>>
    BY <1>1 DEF Hello, Received, agent
  <2>2. PICK pc : pc # "storing" /\ handler' = [handler EXCEPT ![s] = pc]
    <3>1. \/ handler' = [handler EXCEPT ![s] = "closed"]
          \/ handler' = [handler EXCEPT ![s] = "hello"]
      BY <1>1 DEF Hello
    <3> QED BY <3>1
  <2>3. BatchFits' /\ MessagesFit' /\ WatermarkFits' /\ AcksFit'
    BY <2>1, <2>2, HandlerElsewhere, ReadOther, AcksKept DEF StoreInv
  <2> QED BY <2>1, <2>2, <2>3, HandlerAside
<1>2. CASE Ack(s)
  <2>1. /\ handler[s] # "storing" /\ handler' = [handler EXCEPT ![s] = "serving"]
        /\ UNCHANGED <<conn, cut, acked, watermark, logged, up, batch, store>>
    BY <1>2 DEF Ack, agent
  <2>2. MaxTs \in 0 .. MaxWork /\ \A r \in Rows : r <= MaxTs => store[r] > 0
    BY MaxTsOfPrefix DEF StoreInv, Prefix
  <2>3. PICK m : /\ m.max = MaxTs
                 /\ down' = [down EXCEPT ![s] = Append(@, m)] \/ down' = down
    <3>1. PICK m : m = [kind |-> "ack", max |-> MaxTs, token |-> ~minted]
      OBVIOUS
    <3>2. m.max = MaxTs
      BY <3>1
    <3>3. down' = [down EXCEPT ![s] = Append(@, m)] \/ down' = down
      BY <1>2, <3>1 DEF Ack
    <3> QED BY <3>2, <3>3
  <2>4. AcksFit'
    <3>1. CASE down' = down
      BY <2>1, <3>1, AcksKept DEF StoreInv
    <3>2. CASE down' = [down EXCEPT ![s] = Append(@, m)]
      BY <2>1, <2>2, <2>3, <3>2, AcksMore DEF StoreInv
    <3> QED BY <2>3, <3>1, <3>2
  <2>5. BatchFits' /\ MessagesFit' /\ WatermarkFits'
    BY <2>1, HandlerElsewhere, UpSame DEF StoreInv
  <2> QED BY <2>1, <2>4, <2>5, HandlerAside
<1>3. CASE Snapshot(s) \/ Result(s)
  <2>1. /\ up[s] # <<>> /\ Head(up[s]).kind # "metrics" /\ up' = [up EXCEPT ![s] = Tail(@)]
        /\ UNCHANGED <<conn, cut, acked, watermark, logged, down, handler, batch, store>>
    BY <1>3 DEF Snapshot, Result, Received, agent, server
  <2>2. BatchFits' /\ MessagesFit' /\ WatermarkFits' /\ AcksFit'
    BY <2>1, BatchSame, ReadOther, AcksKept DEF StoreInv
  <2> QED BY <2>1, <2>2, HandlerAside
<1>4. CASE Metrics(s)
  <2>1. /\ handler' = [handler EXCEPT ![s] = "storing"]
        /\ batch' = [batch EXCEPT ![s] = Head(up[s]).rows]
        /\ UNCHANGED <<watermark, logged, down, store>>
    BY <1>4 DEF Metrics, agent
  <2>2. BatchFits' /\ MessagesFit' /\ WatermarkFits' /\ AcksFit'
    BY <1>4, <2>1, ReadMetrics, AcksKept DEF StoreInv
  <2> QED BY <2>1, <2>2, HandlerAside
<1>5. CASE AppendGroup(s)
  BY <1>5, AppendFits
<1>6. CASE RecvError(s) \/ NeverServed(s)
  <2>1. /\ ~Whole(s) /\ handler[s] # "storing" /\ up' = [up EXCEPT ![s] = <<>>]
        /\ UNCHANGED <<conn, cut, acked, watermark, logged, down, batch, store>>
    BY <1>6 DEF RecvError, NeverServed, agent
  <2>2. PICK pc : pc # "storing" /\ handler' = [handler EXCEPT ![s] = pc]
    <3>1. \/ handler' = [handler EXCEPT ![s] = "closing"]
          \/ handler' = [handler EXCEPT ![s] = "closed"]
      BY <1>6 DEF RecvError, NeverServed
    <3> QED BY <3>1
  <2>3. BatchFits' /\ MessagesFit' /\ WatermarkFits' /\ AcksFit'
    BY <2>1, <2>2, HandlerElsewhere, UpLost, AcksKept DEF StoreInv
  <2> QED BY <2>1, <2>2, <2>3, HandlerAside
<1>7. CASE Teardown(s)
  <2>1. /\ handler[s] # "storing" /\ handler' = [handler EXCEPT ![s] = "closed"]
        /\ UNCHANGED <<conn, cut, acked, watermark, logged, up, down, batch, store>>
    BY <1>7 DEF Teardown, agent, wire
  <2>2. BatchFits' /\ MessagesFit' /\ WatermarkFits' /\ AcksFit'
    BY <2>1, HandlerElsewhere, UpSame, AcksKept DEF StoreInv
  <2> QED BY <2>1, <2>2, HandlerAside
<1> QED BY <1>1, <1>2, <1>3, <1>4, <1>5, <1>6, <1>7 DEF Handler

\* The callers, and a step that changes nothing.
LEMMA CallersFit ==
  ASSUME Wire, StoreInv,
         (\E c \in Callers : Control(c) \/ Enter(c) \/ Send(c) \/ Return(c) \/ Timeout(c)) \/ UNCHANGED vars
  PROVE  StoreInv'
<1>1. UNCHANGED <<conn, cut, acked, watermark, logged, up, handler, batch, store>>
  BY DEF Control, Enter, Send, Return, Timeout, vars, agent, wire, server
<1>2. AcksFit'
  <2>1. CASE down' = down
    BY <1>1, <2>1, AcksKept DEF StoreInv
  <2>2. ASSUME NEW c \in Callers, Send(c), down' # down PROVE AcksFit'
    <3>1. PICK s, m : s = calls[c].stream
                      /\ m = [kind |-> "command", id |-> calls[c].id, op |-> calls[c].op]
      OBVIOUS
    <3>2. down' = [down EXCEPT ![s] = Append(@, m)] /\ m.kind # "ack"
      BY <2>2, <3>1 DEF Send
    <3>3. s \in Streams
      BY <2>2, <3>2 DEF Wire
    <3> QED BY <1>1, <3>2, <3>3, AcksMore DEF StoreInv
  <2> QED BY <2>1, <2>2 DEF Control, Enter, Return, Timeout, vars, wire
<1>3. MessagesFit' /\ WatermarkFits'
  BY <1>1, UpSame DEF StoreInv
<1> QED BY <1>1, <1>2, <1>3, StoreAside DEF StoreInv, StoreTypes

-----------------------------------------------------------------------------
LEMMA InitPInv == Init => PInv
<1> SUFFICES ASSUME Init PROVE StoreInv
  BY InitIInv DEF PInv
<1>1. StoreTypes /\ BatchFits /\ MessagesFit /\ WatermarkFits /\ AcksFit
  BY LinkAssumption DEF Init, StoreTypes, BatchFits, MessagesFit, WatermarkFits, AcksFit
<1>2. Prefix
  <2>1. 0 \in 0 .. MaxWork /\ \A r \in Rows : store[r] > 0 <=> r <= 0
    BY LinkAssumption DEF Init, Rows
  <2> QED BY <2>1 DEF Prefix
<1> QED BY <1>1, <1>2 DEF StoreInv

LEMMA StepPInv == PInv /\ [Next]_vars => PInv'
<1> SUFFICES ASSUME PInv, [Next]_vars, ~failed' PROVE StoreInv'
  BY StepIInv DEF PInv
<1>1. ~failed
  <2>1. failed' = failed \/ failed' = TRUE
    BY DEF Next, Connect, Cut, StreamError, Sample, RecvAck, Push, RecvCommand, Executed,
           Handler, Hello, Ack, Snapshot, Metrics, AppendGroup, Result, RecvError, NeverServed, Teardown,
           Control, Enter, Send, Return, Timeout, vars, server
  <2> QED BY <2>1
<1>2. Wire /\ Desks /\ StoreInv
  BY <1>1 DEF PInv, IInv
<1> QED BY <1>2, AgentFits, ExecutedFits, HandlerFits, CallersFit DEF Next

-----------------------------------------------------------------------------
\* The server's store has no gap below its newest row as long as no Append
\* failed, for any number of streams, rows and commands: storeBatch appends the
\* groups oldest first (server.go), a stream starts at the store's MaxTs and its
\* batches follow on each other (client.go), and what a broken stream still
\* delivers fits in as well.
THEOREM FleetPrefixStored == Spec => []PrefixStored
<1>1. PInv => PrefixStored
  <2> SUFFICES ASSUME PInv, ~failed PROVE \A r \in 1 .. MaxTs : store[r] > 0
    BY DEF PrefixStored
  <2>1. PICK k \in 0 .. MaxWork : \A r \in Rows : store[r] > 0 <=> r <= k
    BY DEF PInv, StoreInv, Prefix
  <2>2. MaxTs = k
    BY <2>1, MaxTsOfPrefix
  <2> QED BY <2>1, <2>2, LinkAssumption DEF Rows
<1> QED BY <1>1, InitPInv, StepPInv, PTL DEF Spec
-----------------------------------------------------------------------------
(* Types.  How many copies of a row the store has is bounded by the streams    *)
(* that may still add one, and an id by the commands called.                   *)

Carried(q) == UNION {q[i].rows : i \in {j \in DOMAIN q : q[j].kind = "metrics"}}

\* Messages as the agent sends them, with one batch at most among them.
OneBatch(q) == \A i, j \in DOMAIN q : q[i].kind = "metrics" /\ q[j].kind = "metrics" => i = j

UpMessage(m) ==
  /\ m.kind \in {"hello", "snapshot", "metrics", "result"}
  /\ m.kind = "metrics" => Interval(m.rows) /\ m.rows \subseteq 1 .. logged

DownMessage(m) ==
  /\ m.kind \in {"ack", "command"}
  /\ m.kind = "ack" => m.max \in 0 .. logged /\ m.token \in BOOLEAN

UpMessages ==
  \A s \in Streams : OneBatch(up[s]) /\ \A i \in DOMAIN up[s] : UpMessage(up[s][i])

DownMessages ==
  \A s \in Streams : \A i \in DOMAIN down[s] : DownMessage(down[s][i])

LinkTypes ==
  /\ opened \in 0 .. MaxStreams /\ conn \in 0 .. opened /\ current \in 0 .. opened
  /\ cut \in BOOLEAN /\ acked \in BOOLEAN /\ minted \in BOOLEAN
  /\ enrolled \in BOOLEAN /\ streamOpen \in BOOLEAN /\ overtaken \subseteq Streams
  /\ logged \in Nat /\ watermark \in 0 .. logged /\ ops \in Nat /\ logged + ops <= MaxWork

\* What is stored or being stored has been logged.
ServerRows ==
  /\ handler \in [Streams -> Phases] /\ store \in [Rows -> Nat]
  /\ batch = [s \in Streams |-> batch[s]]
  /\ \A s \in Streams : /\ handler[s] = "storing" => Interval(batch[s])
                        /\ handler[s] # "storing" => batch[s] = {}
                        /\ batch[s] \subseteq 1 .. logged
  /\ \A r \in Rows : store[r] > 0 => r <= logged

\* A stream to come has neither messages nor a handler.
ToCome == \A s \in Streams : s > opened => up[s] = <<>> /\ handler[s] = "none"

\* Of a row that is on its way the agent has no second copy to send on that stream.
SentOnce ==
  \A s \in Streams :
    /\ Carried(up[s]) \cap batch[s] = {}
    /\ s = conn => \A r \in Carried(up[s]) \cup batch[s] : acked /\ r <= watermark

\* A stream may add a copy of a row that is still to be sent, sent, or being stored.
Owes(s, r) ==
  \/ s > opened \/ (s = conn /\ (~acked \/ watermark < r))
  \/ r \in Carried(up[s]) \/ r \in batch[s]

Copies == \A r \in Rows : store[r] + Cardinality({s \in Streams : Owes(s, r)}) <= MaxStreams

RowsInv ==
  LinkTypes /\ UpMessages /\ DownMessages /\ ServerRows /\ ToCome /\ SentOnce /\ Copies

\* Callers that have a session and no id yet.
Got == {c \in Callers : calls[c].pc = "got"}

IdsFew ==
  /\ IsFiniteSet(Got)
  /\ pending = [s \in Streams |-> pending[s]]
  /\ \A s \in Streams : nextID[s] + Cardinality(Got) <= ops /\ pending[s] \subseteq 1 .. nextID[s]

\* Commands are numbered as they are called.
OpsCalled ==
  /\ \A s \in Streams : \A t \in Tags(s) : t[2] \in 1 .. ops
  /\ \A c \in Callers : calls[c].pc # "idle" => calls[c].op \in 1 .. ops

TypesInv == IInv /\ RowsInv /\ IdsFew /\ OpsCalled

-----------------------------------------------------------------------------
(* What a queue carries. *)

\* Reading the head takes its rows from the queue.
LEMMA CarriedTail ==
  ASSUME NEW q, IsSeq(q), q # <<>>
  PROVE  /\ Carried(Tail(q)) \subseteq Carried(q)
         /\ Head(q).kind = "metrics" => Head(q).rows \subseteq Carried(q)
         /\ OneBatch(q) => OneBatch(Tail(q)) /\ (Head(q).kind = "metrics" => Carried(Tail(q)) = {})
         /\ \A i \in DOMAIN Tail(q) : \E j \in DOMAIN q : Tail(q)[i] = q[j]
         /\ \E j \in DOMAIN q : Head(q) = q[j]
<1>1. 1 \in DOMAIN q /\ Head(q) = q[1]
  BY TailFacts
<1>2. \A i \in DOMAIN Tail(q) : i \in Nat /\ i + 1 \in DOMAIN q /\ i + 1 # 1 /\ Tail(q)[i] = q[i + 1]
  BY TailIndex, TailFacts
<1>3. Carried(Tail(q)) \subseteq Carried(q)
  BY <1>2 DEF Carried
<1>4. Head(q).kind = "metrics" => Head(q).rows \subseteq Carried(q)
  BY <1>1 DEF Carried
<1>5. OneBatch(q) => OneBatch(Tail(q))
  <2> SUFFICES ASSUME OneBatch(q), NEW i \in DOMAIN Tail(q), NEW j \in DOMAIN Tail(q),
                      Tail(q)[i].kind = "metrics", Tail(q)[j].kind = "metrics"
               PROVE  i = j
    BY DEF OneBatch
  <2>1. i + 1 = j + 1
    BY <1>2 DEF OneBatch
  <2> QED BY <1>2, <2>1
<1>6. OneBatch(q) /\ Head(q).kind = "metrics" => Carried(Tail(q)) = {}
  <2> SUFFICES ASSUME OneBatch(q), Head(q).kind = "metrics", NEW i \in DOMAIN Tail(q)
               PROVE  Tail(q)[i].kind # "metrics"
    BY DEF Carried
  <2> QED BY <1>1, <1>2 DEF OneBatch
<1> QED BY <1>1, <1>2, <1>3, <1>4, <1>5, <1>6

\* What is sent joins what is under way.
LEMMA CarriedConcat ==
  ASSUME NEW p, NEW q, IsSeq(p), IsSeq(q)
  PROVE  /\ Carried(p \o q) \subseteq Carried(p) \cup Carried(q)
         /\ OneBatch(p) /\ (\A i \in DOMAIN q : q[i].kind # "metrics") => OneBatch(p \o q)
         /\ OneBatch(q) /\ (\A i \in DOMAIN p : p[i].kind # "metrics") => OneBatch(p \o q)
         /\ \A i \in DOMAIN (p \o q) : \/ \E j \in DOMAIN p : (p \o q)[i] = p[j]
                                       \/ \E j \in DOMAIN q : (p \o q)[i] = q[j]
<1> DEFINE n == Len(p)
<1>1. n \in Nat
  BY ConcatFacts
<1>2. \A i \in DOMAIN (p \o q) : \/ i \in DOMAIN p /\ (p \o q)[i] = p[i]
                                 \/ i \in Nat /\ i - n \in DOMAIN q /\ (p \o q)[i] = q[i - n]
  <2> SUFFICES ASSUME NEW i \in DOMAIN (p \o q)
               PROVE  \/ i \in DOMAIN p /\ (p \o q)[i] = p[i]
                      \/ i \in Nat /\ i - n \in DOMAIN q /\ (p \o q)[i] = q[i - n]
    OBVIOUS
  <2>1. i \in Nat /\ i >= 1 /\ i <= Len(p) + Len(q) /\ Len(q) \in Nat
    BY ConcatFacts
  <2>2. CASE i <= n
    BY <1>1, <2>1, <2>2, ConcatFacts
  <2>3. CASE ~(i <= n)
    <3>1. i - n \in 1 .. Len(q) /\ n + (i - n) = i
      BY <1>1, <2>1, <2>3
    <3> QED BY <2>1, <3>1, ConcatFacts
  <2> QED BY <2>2, <2>3
<1>3. Carried(p \o q) \subseteq Carried(p) \cup Carried(q)
  BY <1>2 DEF Carried
<1> HIDE DEF n
<1>4. OneBatch(p) /\ (\A i \in DOMAIN q : q[i].kind # "metrics") => OneBatch(p \o q)
  BY <1>2 DEF OneBatch
<1>5. OneBatch(q) /\ (\A i \in DOMAIN p : p[i].kind # "metrics") => OneBatch(p \o q)
  <2> SUFFICES ASSUME OneBatch(q), \A i \in DOMAIN p : p[i].kind # "metrics",
                      NEW i \in DOMAIN (p \o q), NEW j \in DOMAIN (p \o q),
                      (p \o q)[i].kind = "metrics", (p \o q)[j].kind = "metrics"
               PROVE  i = j
    BY DEF OneBatch
  <2>1. /\ i \in Nat /\ i - n \in DOMAIN q /\ q[i - n].kind = "metrics"
        /\ j \in Nat /\ j - n \in DOMAIN q /\ q[j - n].kind = "metrics"
    BY <1>2
  <2>2. i - n = j - n
    BY <2>1 DEF OneBatch
  <2> QED BY <1>1, <2>1, <2>2
<1> QED BY <1>2, <1>3, <1>4, <1>5

\* A message that carries nothing.
LEMMA CarriedShort ==
  /\ Carried(<<>>) = {} /\ OneBatch(<<>>)
  /\ \A m : m.kind # "metrics" => Carried(<<m>>) = {} /\ OneBatch(<<m>>)
<1>1. Carried(<<>>) = {} /\ OneBatch(<<>>)
  BY DEF Carried, OneBatch
<1>2. ASSUME NEW m, m.kind # "metrics" PROVE Carried(<<m>>) = {} /\ OneBatch(<<m>>)
  <2>1. DOMAIN <<m>> = {1} /\ <<m>>[1] = m
    OBVIOUS
  <2> QED BY <1>2, <2>1 DEF Carried, OneBatch
<1> QED BY <1>1, <1>2

-----------------------------------------------------------------------------
(* Bounds. *)

\* A set of naturals has a least element (the ordering is well founded).
LEMMA LeastNat ==
  ASSUME NEW T, T \subseteq Nat, T # {}
  PROVE  \E x \in T : \A y \in T : x <= y
<1>1. PICK x \in T : \A y \in T : ~ (<<y, x>> \in OpToRel(<, Nat))
  BY NatLessThanWellFounded, WFMin
<1>2. \A y \in T : ~(y < x)
  BY <1>1 DEF OpToRel
<1> QED BY <1>2

\* The server's newest row is one that the agent has logged.
LEMMA MaxTsLogged ==
  ASSUME LinkTypes, ServerRows
  PROVE  MaxTs \in 0 .. logged
<1> DEFINE S == {0} \cup {r \in Rows : store[r] > 0}
<1>1. logged \in Nat /\ S \subseteq 0 .. logged
  BY DEF LinkTypes, ServerRows, Rows
<1>2. PICK y \in S : \A x \in S : y >= x
  <2> DEFINE T == {logged - x : x \in S}
  <2> HIDE DEF S
  <2>1. T \subseteq Nat
    BY <1>1
  <2>2. T # {}
    BY DEF S
  <2> HIDE DEF T
  <2>3. PICK z \in T : \A w \in T : z <= w
    BY <2>1, <2>2, LeastNat
  <2>4. PICK y \in S : z = logged - y
    BY DEF T
  <2>5. \A x \in S : logged - y <= logged - x
    BY <2>3, <2>4 DEF T
  <2>6. \A x \in S : y >= x
    BY <1>1, <2>5
  <2> QED BY <2>6
<1>3. MaxTs = CHOOSE x \in S : \A w \in S : x >= w
  BY DEF MaxTs, Max
<1> HIDE DEF S
<1>4. MaxTs \in S
  BY <1>2, <1>3
<1> QED BY <1>1, <1>4

\* storeBatch goes on with the oldest row of a batch.
LEMMA NextGroupIsOldest ==
  ASSUME NEW s \in Streams, NEW a \in Rows, NEW b \in Rows, a <= b, batch[s] = a .. b
  PROVE  NextGroup(s) = a
<1>1. a \in a .. b /\ \A y \in a .. b : a <= y
  BY DEF Rows
<1>2. \A x \in a .. b : (\A y \in a .. b : x <= y) => x = a
  BY <1>1 DEF Rows
<1> QED BY <1>1, <1>2 DEF NextGroup, Min

-----------------------------------------------------------------------------
(* The queues, for each way they change. *)

LEMMA UpRead ==
  ASSUME Wire, UpMessages, NEW s \in Streams, up[s] # <<>>, up' = [up EXCEPT ![s] = Tail(@)],
         UNCHANGED logged
  PROVE  /\ UpMessages'
         /\ \A t \in Streams : Carried(up'[t]) \subseteq Carried(up[t])
         /\ \A t \in Streams : t # s => up'[t] = up[t]
         /\ UpMessage(Head(up[s]))
         /\ Head(up[s]).kind = "metrics" =>
              Carried(up'[s]) = {} /\ Head(up[s]).rows \subseteq Carried(up[s])
<1>1. \A t \in Streams : up'[t] = IF t = s THEN Tail(up[s]) ELSE up[t]
  BY DEF Wire
<1>2. IsSeq(up[s]) /\ OneBatch(up[s]) /\ \A i \in DOMAIN up[s] : UpMessage(up[s][i])
  BY DEF Wire, UpMessages
<1>3. /\ Carried(Tail(up[s])) \subseteq Carried(up[s]) /\ OneBatch(Tail(up[s]))
      /\ Head(up[s]).kind = "metrics" =>
           Carried(Tail(up[s])) = {} /\ Head(up[s]).rows \subseteq Carried(up[s])
      /\ UpMessage(Head(up[s])) /\ \A i \in DOMAIN Tail(up[s]) : UpMessage(Tail(up[s])[i])
  BY <1>2, CarriedTail
<1>4. UpMessages'
  BY <1>1, <1>3 DEF UpMessages, UpMessage
<1> QED BY <1>1, <1>3, <1>4

LEMMA UpCleared ==
  ASSUME Wire, UpMessages, NEW s \in Streams, up' = [up EXCEPT ![s] = <<>>], UNCHANGED logged
  PROVE  /\ UpMessages'
         /\ \A t \in Streams : Carried(up'[t]) \subseteq Carried(up[t])
         /\ \A t \in Streams : t # s => up'[t] = up[t]
<1>1. \A t \in Streams : up'[t] = IF t = s THEN <<>> ELSE up[t]
  BY DEF Wire
<1> QED BY <1>1, CarriedShort DEF UpMessages, UpMessage

LEMMA UpSent ==
  ASSUME Wire, UpMessages, NEW s \in Streams, NEW msgs, IsSeq(msgs), OneBatch(up[s] \o msgs),
         \A i \in DOMAIN msgs : UpMessage(msgs[i]), Sent(s, msgs), UNCHANGED logged
  PROVE  /\ UpMessages'
         /\ \A t \in Streams : t # s => up'[t] = up[t]
         /\ Carried(up'[s]) \subseteq Carried(up[s]) \cup IF Whole(s) THEN Carried(msgs) ELSE {}
<1>1. \A t \in Streams : up'[t] = IF t = s /\ Whole(s) THEN up[s] \o msgs ELSE up[t]
  BY DEF Wire, Sent
<1>2. IsSeq(up[s]) /\ \A i \in DOMAIN up[s] : UpMessage(up[s][i])
  BY DEF Wire, UpMessages
<1>3. /\ Carried(up[s] \o msgs) \subseteq Carried(up[s]) \cup Carried(msgs)
      /\ \A i \in DOMAIN (up[s] \o msgs) : UpMessage((up[s] \o msgs)[i])
  BY <1>2, CarriedConcat
<1>4. UpMessages'
  BY <1>1, <1>3 DEF UpMessages, UpMessage
<1> QED BY <1>1, <1>3, <1>4

LEMMA DownKept ==
  ASSUME Wire, DownMessages, logged \in Nat, logged' \in Nat, logged <= logged',
         \/ down' = down
         \/ \E s \in Streams : down' = [down EXCEPT ![s] = <<>>]
         \/ \E s \in Streams : down[s] # <<>> /\ down' = [down EXCEPT ![s] = Tail(@)]
  PROVE  DownMessages'
<1>1. \A m : DownMessage(m) => DownMessage(m)'
  BY DEF DownMessage
<1>2. CASE down' = down
  BY <1>1, <1>2 DEF DownMessages
<1>3. ASSUME NEW s \in Streams, down' = [down EXCEPT ![s] = <<>>] PROVE DownMessages'
  <2>1. \A t \in Streams : down'[t] = IF t = s THEN <<>> ELSE down[t]
    BY <1>3 DEF Wire
  <2> QED BY <1>1, <2>1 DEF DownMessages
<1>4. ASSUME NEW s \in Streams, down[s] # <<>>, down' = [down EXCEPT ![s] = Tail(@)] PROVE DownMessages'
  <2>1. \A t \in Streams : down'[t] = IF t = s THEN Tail(down[s]) ELSE down[t]
    BY <1>4 DEF Wire
  <2>2. \A i \in DOMAIN Tail(down[s]) : DownMessage(Tail(down[s])[i])
    BY <1>4, CarriedTail DEF Wire, DownMessages
  <2> QED BY <1>1, <2>1, <2>2 DEF DownMessages
<1> QED BY <1>2, <1>3, <1>4

LEMMA DownSent ==
  ASSUME Wire, DownMessages, UNCHANGED logged, NEW s \in Streams, NEW m, DownMessage(m),
         down' = [down EXCEPT ![s] = Append(@, m)]
  PROVE  DownMessages'
<1>1. \A t \in Streams : down'[t] = IF t = s THEN Append(down[s], m) ELSE down[t]
  BY DEF Wire
<1>2. Append(down[s], m) = down[s] \o <<m>> /\ IsSeq(<<m>>)
  <2>1. PICK S : down[s] \in Seq(S)
    BY DEF Wire, IsSeq
  <2>2. down[s] \in Seq(S \cup {m})
    BY <2>1
  <2> QED BY <2>2, TaggedShort
<1>3. \A i \in DOMAIN Append(down[s], m) : DownMessage(Append(down[s], m)[i])
  <2>1. \A i \in DOMAIN <<m>> : <<m>>[i] = m
    OBVIOUS
  <2> QED BY <1>2, <2>1, CarriedConcat DEF Wire, DownMessages
<1> QED BY <1>1, <1>3 DEF DownMessages, DownMessage

\* A step that stores nothing and lets no stream owe more.
LEMMA CopiesShrink ==
  ASSUME ServerRows, Copies, UNCHANGED store,
         \A s \in Streams, r \in Rows : Owes(s, r)' => Owes(s, r)
  PROVE  Copies'
<1> SUFFICES ASSUME NEW r \in Rows
             PROVE  store[r] + Cardinality({s \in Streams : Owes(s, r)'}) <= MaxStreams
  BY DEF Copies
<1> DEFINE A == {s \in Streams : Owes(s, r)}
           B == {s \in Streams : Owes(s, r)'}
<1>1. IsFiniteSet(Streams) /\ A \in SUBSET Streams /\ B \in SUBSET A
  BY LinkAssumption, FS_Interval DEF Streams
<1> HIDE DEF A, B
<1>2. IsFiniteSet(A) /\ IsFiniteSet(B) /\ Cardinality(B) <= Cardinality(A)
  BY <1>1, FS_Subset
<1>3. Cardinality(A) \in Nat /\ Cardinality(B) \in Nat /\ store[r] \in Nat
  BY <1>2, FS_CardinalityType DEF ServerRows
<1>4. store[r] + Cardinality(A) <= MaxStreams
  BY DEF Copies, A
<1> QED BY <1>2, <1>3, <1>4, LinkAssumption DEF B

\* The server's part, while its handlers store nothing.
LEMMA ServerRowsSame ==
  ASSUME ServerRows, UNCHANGED <<handler, batch, store>>, logged \in Nat, logged' \in Nat, logged <= logged'
  PROVE  ServerRows'
<1>1. \A n \in Int : n <= logged => n <= logged'
  OBVIOUS
<1>2. \A s \in Streams : batch[s] \subseteq 1 .. logged'
  BY DEF ServerRows
<1>3. \A r \in Rows : store[r] > 0 => r <= logged'
  BY <1>1 DEF ServerRows, Rows
<1> QED BY <1>2, <1>3 DEF ServerRows

\* A tick: what it sends are rows the stream owed before.
LEMMA PushRows ==
  ASSUME Wire, RowsInv, Push
  PROVE  RowsInv'
<1> DEFINE snap == [kind |-> "snapshot"]
           rows == [kind |-> "metrics", rows |-> watermark + 1 .. logged]
           more == IF watermark < logged THEN <<rows>> ELSE <<>>
<1>1. PICK s \in Streams : s = conn
  BY DEF Push, Wire, Streams
<1>2. PICK msgs : msgs = <<snap>> \o more
  OBVIOUS
<1>3. /\ acked /\ Sent(s, msgs) /\ watermark' = logged
      /\ \A i \in DOMAIN up[s] : up[s][i].kind = "result"
      /\ UNCHANGED <<conn, cut, opened, acked, logged, minted, down, handler, batch, store, streamOpen,
                     current, enrolled, ops, overtaken>>
  BY <1>1, <1>2 DEF Push, server, broker
<1>4. logged \in Nat /\ watermark \in Nat /\ watermark <= logged /\ logged <= MaxWork
  <2>1. logged \in Nat /\ watermark \in 0 .. logged /\ logged + ops <= MaxWork /\ ops \in Nat
    BY DEF RowsInv, LinkTypes
  <2> QED BY <2>1, LinkAssumption
<1>5. /\ IsSeq(<<snap>>) /\ IsSeq(more) /\ IsSeq(msgs) /\ OneBatch(msgs)
      /\ Carried(msgs) \subseteq watermark + 1 .. logged
      /\ \A i \in DOMAIN msgs : msgs[i] = snap \/ (watermark < logged /\ msgs[i] = rows)
  <2>1. IsSeq(<<snap>>) /\ IsSeq(more)
    BY TaggedShort
  <2>2. IsSeq(msgs)
    BY <1>2, <2>1, TaggedConcat
  <2>3. \A i \in DOMAIN <<snap>> : <<snap>>[i].kind # "metrics"
    OBVIOUS
  <2>4. OneBatch(more) /\ Carried(more) \subseteq watermark + 1 .. logged
    <3>1. CASE watermark < logged
      <4>1. more = <<rows>> /\ DOMAIN more = {1} /\ more[1] = rows /\ rows.rows = watermark + 1 .. logged
        BY <3>1
      <4> HIDE DEF more, rows
      <4> QED BY <4>1 DEF OneBatch, Carried
    <3>2. CASE ~(watermark < logged)
      <4>1. more = <<>>
        BY <3>2
      <4> QED BY <4>1, CarriedShort
    <3> QED BY <3>1, <3>2
  <2>5. Carried(<<snap>>) = {}
    BY CarriedShort
  <2>6. OneBatch(msgs) /\ Carried(msgs) \subseteq watermark + 1 .. logged
    BY <1>2, <2>1, <2>3, <2>4, <2>5, CarriedConcat
  <2>7. \A i \in DOMAIN msgs : msgs[i] = snap \/ (watermark < logged /\ msgs[i] = rows)
    BY <1>2
  <2> QED BY <2>1, <2>2, <2>6, <2>7
<1>6. \A i \in DOMAIN msgs : UpMessage(msgs[i])
  <2>1. snap.kind = "snapshot" /\ rows.kind = "metrics" /\ rows.rows = watermark + 1 .. logged
    OBVIOUS
  <2>2. watermark < logged => Interval(watermark + 1 .. logged) /\ watermark + 1 .. logged \subseteq 1 .. logged
    BY <1>4, LinkAssumption DEF Interval, Rows
  <2> HIDE DEF snap, rows
  <2> QED BY <1>5, <2>1, <2>2 DEF UpMessage
<1> HIDE DEF snap, rows, more
<1>7. OneBatch(up[s] \o msgs)
  <2>1. \A i \in DOMAIN up[s] : up[s][i].kind # "metrics"
    BY <1>3
  <2> QED BY <1>5, <2>1, CarriedConcat DEF Wire
<1>8. /\ UpMessages' /\ \A t \in Streams : t # s => up'[t] = up[t]
      /\ Carried(up'[s]) \subseteq Carried(up[s]) \cup Carried(msgs)
  BY <1>3, <1>5, <1>6, <1>7, UpSent DEF RowsInv
<1>9. Carried(up[s]) = {} /\ \A r \in batch[s] : r \in Nat /\ r <= watermark
  <2>1. Carried(up[s]) = {}
    BY <1>3 DEF Carried
  <2> QED BY <1>1, <2>1 DEF RowsInv, SentOnce, ServerRows
<1>10. \A r \in Carried(up'[s]) : r \in Nat /\ watermark < r /\ r <= logged
  BY <1>4, <1>5, <1>8, <1>9
<1>11. SentOnce'
  <2> SUFFICES ASSUME NEW t \in Streams
               PROVE  /\ Carried(up'[t]) \cap batch[t] = {}
                      /\ t = conn => \A r \in Carried(up'[t]) \cup batch[t] : acked /\ r <= logged
    BY <1>3 DEF SentOnce
  <2>1. CASE t = s
    BY <1>3, <1>4, <1>9, <1>10, <2>1
  <2>2. CASE t # s
    BY <1>1, <1>8, <2>2 DEF RowsInv, SentOnce
  <2> QED BY <2>1, <2>2
<1>12. \A t \in Streams, r \in Rows : Owes(t, r)' => Owes(t, r)
  <2> SUFFICES ASSUME NEW t \in Streams, NEW r \in Rows, Owes(t, r)' PROVE Owes(t, r)
    OBVIOUS
  <2>1. logged < r => watermark < r
    BY <1>4 DEF Rows
  <2>2. CASE t = s
    BY <1>1, <1>3, <1>10, <2>1, <2>2 DEF Owes
  <2>3. CASE t # s
    BY <1>1, <1>3, <1>8, <2>3 DEF Owes
  <2> QED BY <2>2, <2>3
<1>13. LinkTypes'
  BY <1>3, <1>4 DEF RowsInv, LinkTypes
<1>14. ToCome'
  <2>1. \A t \in Streams : t > opened => t # s
    BY <1>1 DEF RowsInv, LinkTypes, Streams
  <2> QED BY <1>3, <1>8, <2>1 DEF RowsInv, ToCome
<1>15. DownMessages' /\ ServerRows'
  BY <1>3, <1>4, DownKept, ServerRowsSame DEF RowsInv
<1>16. Copies'
  BY <1>3, <1>12, CopiesShrink DEF RowsInv
<1> QED BY <1>8, <1>11, <1>13, <1>14, <1>15, <1>16 DEF RowsInv

LEMMA AgentRows ==
  ASSUME Wire, RowsInv,
         Connect \/ Cut \/ StreamError \/ Sample \/ RecvAck \/ Push \/ RecvCommand
  PROVE  RowsInv'
<1>1. CASE Connect
  <2> DEFINE hello == [kind |-> "hello", enrolling |-> ~minted]
  <2>1. /\ conn' \in Streams /\ conn' = opened + 1 /\ opened' = conn' /\ cut' = FALSE /\ acked' = FALSE
        /\ up' = [up EXCEPT ![conn'] = <<hello>>]
        /\ UNCHANGED <<watermark, logged, minted, down, handler, batch, store, streamOpen, current,
                       enrolled, ops, overtaken>>
    BY <1>1, LinkAssumption DEF Connect, RowsInv, LinkTypes, Streams, server, broker
  <2>2. /\ Carried(<<hello>>) = {} /\ OneBatch(<<hello>>)
        /\ \A i \in DOMAIN <<hello>> : UpMessage(<<hello>>[i])
    BY CarriedShort DEF UpMessage
  <2>3. \A t \in Streams : up'[t] = IF t = conn' THEN <<hello>> ELSE up[t]
    BY <2>1 DEF Wire
  <2> HIDE DEF hello
  <2>4. opened \in Nat /\ \A t \in Streams : t \in Nat /\ (t > opened' => t > opened /\ t # conn')
    BY <2>1, LinkAssumption DEF RowsInv, LinkTypes, Streams
  <2>5. handler[conn'] = "none" /\ batch[conn'] = {} /\ conn' > opened
    BY <2>1, <2>4 DEF RowsInv, ToCome, ServerRows
  <2>6. LinkTypes'
    <3>1. opened + 1 \in 0 .. MaxStreams /\ opened + 1 \in 0 .. opened + 1 /\ current \in 0 .. opened + 1
      BY <2>1, <2>4, LinkAssumption DEF RowsInv, LinkTypes, Streams
    <3> QED BY <2>1, <3>1 DEF RowsInv, LinkTypes
  <2>7. UpMessages'
    BY <2>1, <2>2, <2>3 DEF RowsInv, UpMessages, UpMessage
  <2>8. DownMessages' /\ ServerRows'
    BY <2>1, <2>6, DownKept, ServerRowsSame DEF RowsInv, LinkTypes
  <2>9. ToCome'
    BY <2>1, <2>3, <2>4 DEF RowsInv, ToCome
  <2>10. SentOnce'
    BY <2>1, <2>2, <2>3, <2>5 DEF RowsInv, SentOnce
  <2>11. \A t \in Streams, r \in Rows : Owes(t, r)' => Owes(t, r)
    BY <2>1, <2>2, <2>3, <2>4, <2>5 DEF Owes
  <2>12. Copies'
    BY <2>1, <2>11, CopiesShrink DEF RowsInv
  <2> QED BY <2>6, <2>7, <2>8, <2>9, <2>10, <2>12 DEF RowsInv
<1>2. CASE Cut \/ RecvCommand
  <2>1. /\ conn \in Streams /\ cut' \in BOOLEAN
        /\ \/ down' = [down EXCEPT ![conn] = <<>>]
           \/ down[conn] # <<>> /\ down' = [down EXCEPT ![conn] = Tail(@)]
        /\ UNCHANGED <<conn, opened, acked, watermark, logged, minted, up, handler, batch, store,
                       streamOpen, current, enrolled, ops, overtaken>>
    <3>1. CASE Cut
      BY <1>2, <3>1 DEF Cut, Wire, Streams, server, broker
    <3>2. CASE RecvCommand
      BY <1>2, <3>2 DEF RecvCommand, Wire, Streams, server, broker, RowsInv, LinkTypes
    <3> QED BY <1>2, <3>1, <3>2
  <2>2. LinkTypes'
    BY <2>1 DEF RowsInv, LinkTypes
  <2>3. DownMessages' /\ ServerRows'
    BY <2>1, DownKept, ServerRowsSame DEF RowsInv, LinkTypes
  <2>4. UpMessages' /\ ToCome' /\ SentOnce'
    BY <2>1 DEF RowsInv, UpMessages, UpMessage, ToCome, SentOnce
  <2>5. Copies'
    BY <2>1, CopiesShrink DEF RowsInv, Owes
  <2> QED BY <2>2, <2>3, <2>4, <2>5 DEF RowsInv
<1>3. CASE StreamError
  <2>1. /\ conn \in Streams /\ conn' = 0 /\ cut' = FALSE /\ acked' = FALSE
        /\ down' = [down EXCEPT ![conn] = <<>>]
        /\ UNCHANGED <<opened, watermark, logged, minted, up, handler, batch, store,
                       streamOpen, current, enrolled, ops, overtaken>>
    BY <1>3 DEF StreamError, Wire, Streams, server, broker
  <2>2. \A t \in Streams : t # conn'
    BY <2>1 DEF Streams
  <2>3. LinkTypes'
    <3>1. 0 \in 0 .. opened
      BY LinkAssumption DEF RowsInv, LinkTypes
    <3> QED BY <2>1, <3>1 DEF RowsInv, LinkTypes
  <2>4. logged \in Nat /\ logged' = logged
    BY <2>1 DEF RowsInv, LinkTypes
  <2>5. DownMessages'
    <3>1. \E s \in Streams : down' = [down EXCEPT ![s] = <<>>]
      BY <2>1
    <3>2. logged \in Nat /\ logged' \in Nat /\ logged <= logged'
      BY <2>4
    <3> QED BY <3>1, <3>2, DownKept DEF RowsInv
  <2>6. ServerRows'
    BY <2>1, <2>4, ServerRowsSame DEF RowsInv
  <2>7. UpMessages' /\ ToCome' /\ SentOnce'
    BY <2>1, <2>2 DEF RowsInv, UpMessages, UpMessage, ToCome, SentOnce
  <2>8. Copies'
    BY <2>1, <2>2, CopiesShrink DEF RowsInv, Owes
  <2> QED BY <2>3, <2>5, <2>6, <2>7, <2>8 DEF RowsInv
<1>4. CASE Sample
  <2>1. /\ logged' = logged + 1 /\ logged + ops < MaxWork
        /\ UNCHANGED <<conn, cut, opened, acked, watermark, minted, up, down, handler, batch, store,
                       streamOpen, current, enrolled, ops, overtaken>>
    BY <1>4 DEF Sample, wire, server, broker
  <2>2. LinkTypes'
    BY <2>1, LinkAssumption DEF RowsInv, LinkTypes
  <2>3. logged \in Nat /\ logged' \in Nat /\ logged <= logged'
    BY <2>1 DEF RowsInv, LinkTypes
  <2>4. DownMessages' /\ ServerRows'
    BY <2>1, <2>3, DownKept, ServerRowsSame DEF RowsInv
  <2>5. UpMessages'
    <3>1. \A m : UpMessage(m) => UpMessage(m)'
      BY <2>3 DEF UpMessage
    <3> QED BY <2>1, <3>1 DEF RowsInv, UpMessages
  <2>6. ToCome' /\ SentOnce'
    BY <2>1 DEF RowsInv, ToCome, SentOnce
  <2>7. Copies'
    BY <2>1, CopiesShrink DEF RowsInv, Owes
  <2> QED BY <2>2, <2>4, <2>5, <2>6, <2>7 DEF RowsInv
<1>5. CASE RecvAck
  <2>1. PICK m : m = Head(down[conn])
    OBVIOUS
  <2>2. /\ conn \in Streams /\ ~acked /\ acked' = TRUE /\ down[conn] # <<>>
        /\ IF m.kind = "ack" THEN watermark' = m.max /\ minted' = (minted \/ m.token) /\ UNCHANGED overtaken
           ELSE watermark' = 0 /\ overtaken' = overtaken \cup {conn} /\ UNCHANGED minted
        /\ down' = [down EXCEPT ![conn] = Tail(@)]
        /\ UNCHANGED <<conn, cut, opened, logged, up, handler, batch, store,
                       streamOpen, current, enrolled, ops>>
    BY <1>5, <2>1 DEF RecvAck, Wire, Streams, server, broker
  <2>3. DownMessage(m)
    BY <2>1, <2>2, CarriedTail DEF Wire, RowsInv, DownMessages
  <2>4. watermark' \in 0 .. logged /\ minted' \in BOOLEAN /\ overtaken' \subseteq Streams
    <3>1. CASE m.kind = "ack"
      BY <2>2, <2>3, <3>1 DEF DownMessage, RowsInv, LinkTypes
    <3>2. CASE m.kind # "ack"
      <4>1. 0 \in 0 .. logged
        BY DEF RowsInv, LinkTypes
      <4> QED BY <2>2, <3>2, <4>1 DEF RowsInv, LinkTypes
    <3> QED BY <3>1, <3>2
  <2>5. LinkTypes'
    BY <2>2, <2>4 DEF RowsInv, LinkTypes
  <2>6. DownMessages' /\ ServerRows'
    <3>1. logged \in Nat /\ logged' = logged
      BY <2>2 DEF RowsInv, LinkTypes
    <3>2. DownMessages'
      <4>1. \E s \in Streams : down[s] # <<>> /\ down' = [down EXCEPT ![s] = Tail(@)]
        BY <2>2
      <4>2. logged \in Nat /\ logged' \in Nat /\ logged <= logged'
        BY <3>1
      <4> QED BY <4>1, <4>2, DownKept DEF RowsInv
    <3> QED BY <2>2, <3>1, <3>2, ServerRowsSame DEF RowsInv
  <2>7. UpMessages' /\ ToCome' /\ SentOnce'
    BY <2>2 DEF RowsInv, UpMessages, UpMessage, ToCome, SentOnce
  <2>8. Copies'
    BY <2>2, CopiesShrink DEF RowsInv, Owes
  <2> QED BY <2>5, <2>6, <2>7, <2>8 DEF RowsInv
<1>6. CASE Push
  BY <1>6, PushRows
<1> QED BY <1>1, <1>2, <1>3, <1>4, <1>5, <1>6

\* A result carries no rows.
LEMMA ExecutedRows ==
  ASSUME Wire, RowsInv, NEW s \in Streams, Executed(s)
  PROVE  RowsInv'
<1>1. PICK m : m.kind = "result" /\ Sent(s, <<m>>)
  <2>1. PICK r \in running[s] : Sent(s, <<[kind |-> "result", id |-> r[1], op |-> r[2]]>>)
    BY DEF Executed
  <2> QED BY <2>1
<1>2. UNCHANGED <<conn, cut, opened, acked, watermark, logged, minted, down, handler, batch, store,
                  streamOpen, current, enrolled, ops, overtaken>>
  BY DEF Executed, server, broker
<1>3. /\ IsSeq(<<m>>) /\ Carried(<<m>>) = {} /\ \A i \in DOMAIN <<m>> : <<m>>[i] = m
  BY <1>1, TaggedShort, CarriedShort
<1>4. OneBatch(up[s] \o <<m>>) /\ UpMessage(m)
  BY <1>1, <1>3, CarriedConcat DEF Wire, RowsInv, UpMessages, UpMessage
<1>5. /\ UpMessages' /\ \A t \in Streams : t # s => up'[t] = up[t]
      /\ Carried(up'[s]) \subseteq Carried(up[s])
  BY <1>1, <1>2, <1>3, <1>4, UpSent DEF RowsInv
<1>6. \A t \in Streams : Carried(up'[t]) \subseteq Carried(up[t])
  BY <1>5
<1>7. ToCome'
  <2>1. Whole(s) => ~(s > opened)
    BY DEF Whole, RowsInv, LinkTypes
  <2>2. ~Whole(s) => up' = up
    BY <1>1 DEF Sent
  <2> QED BY <1>2, <1>5, <2>1, <2>2 DEF RowsInv, ToCome
<1>8. LinkTypes' /\ DownMessages' /\ ServerRows'
  BY <1>2, DownKept, ServerRowsSame DEF RowsInv, LinkTypes
<1>9. SentOnce'
  BY <1>2, <1>6 DEF RowsInv, SentOnce
<1>10. Copies'
  BY <1>2, <1>6, CopiesShrink DEF RowsInv, Owes
<1> QED BY <1>5, <1>7, <1>8, <1>9, <1>10 DEF RowsInv

-----------------------------------------------------------------------------
(* The server's handlers. *)

\* A handler goes to another place at which it stores nothing.
LEMMA HandlerGoes ==
  ASSUME ServerRows, NEW s \in Streams, handler[s] # "storing",
         NEW pc \in Phases, pc # "storing", handler' = [handler EXCEPT ![s] = pc],
         UNCHANGED <<batch, store, logged>>
  PROVE  ServerRows'
<1>1. \A t \in Streams : handler'[t] = IF t = s THEN pc ELSE handler[t]
  BY DEF ServerRows
<1>2. handler' \in [Streams -> Phases]
  BY DEF ServerRows
<1> QED BY <1>1, <1>2 DEF ServerRows

\* Of a stream that was opened.
LEMMA ToComeKept ==
  ASSUME ToCome, NEW s \in Streams, ~(s > opened), UNCHANGED opened,
         \A t \in Streams : t # s => up'[t] = up[t] /\ handler'[t] = handler[t]
  PROVE  ToCome'
BY DEF ToCome

\* Messages that are read, or lost, take their rows away.
LEMMA RowsHeld ==
  ASSUME RowsInv, UNCHANGED <<conn, opened, acked, watermark, batch, store>>,
         \A t \in Streams : Carried(up'[t]) \subseteq Carried(up[t])
  PROVE  SentOnce' /\ Copies'
<1>1. SentOnce'
  BY DEF RowsInv, SentOnce
<1> QED BY <1>1, CopiesShrink DEF RowsInv, Owes

\* The rows of a message become those the handler is storing.
LEMMA MetricsRows ==
  ASSUME Wire, RowsInv, NEW s \in Streams, Metrics(s)
  PROVE  RowsInv'
<1>1. PICK R : R = Head(up[s]).rows
  OBVIOUS
<1>2. /\ handler[s] \in {"none", "serving"} /\ up[s] # <<>> /\ Head(up[s]).kind = "metrics"
      /\ up' = [up EXCEPT ![s] = Tail(@)]
      /\ handler' = [handler EXCEPT ![s] = "storing"] /\ batch' = [batch EXCEPT ![s] = R]
      /\ UNCHANGED <<conn, cut, opened, acked, watermark, logged, minted, down, store, streamOpen,
                     current, enrolled, ops, overtaken>>
  BY <1>1 DEF Metrics, Received, agent, broker
<1>3. /\ UpMessages' /\ \A t \in Streams : Carried(up'[t]) \subseteq Carried(up[t])
      /\ \A t \in Streams : t # s => up'[t] = up[t]
      /\ Interval(R) /\ R \subseteq 1 .. logged
      /\ Carried(up'[s]) = {} /\ R \subseteq Carried(up[s])
  BY <1>1, <1>2, UpRead DEF RowsInv, UpMessage
<1>4. /\ \A t \in Streams : batch'[t] = IF t = s THEN R ELSE batch[t]
      /\ \A t \in Streams : handler'[t] = IF t = s THEN "storing" ELSE handler[t]
  BY <1>2 DEF RowsInv, ServerRows
<1>5. ServerRows'
  <2>1. handler' \in [Streams -> Phases] /\ batch' = [t \in Streams |-> batch'[t]]
    BY <1>2 DEF RowsInv, ServerRows, Phases
  <2> QED BY <1>2, <1>3, <1>4, <2>1 DEF RowsInv, ServerRows
<1>6. ToCome'
  <2>1. ~(s > opened)
    BY <1>2 DEF RowsInv, ToCome
  <2> QED BY <1>2, <1>3, <1>4, <2>1, ToComeKept DEF RowsInv
<1>7. SentOnce'
  <2> SUFFICES ASSUME NEW t \in Streams
               PROVE  /\ Carried(up'[t]) \cap batch'[t] = {}
                      /\ t = conn => \A r \in Carried(up'[t]) \cup batch'[t] : acked /\ r <= watermark
    BY <1>2 DEF SentOnce
  <2>1. CASE t = s
    BY <1>3, <1>4, <2>1 DEF RowsInv, SentOnce
  <2>2. CASE t # s
    BY <1>3, <1>4, <2>2 DEF RowsInv, SentOnce
  <2> QED BY <2>1, <2>2
<1>8. Copies'
  <2>1. \A t \in Streams, r \in Rows : Owes(t, r)' => Owes(t, r)
    BY <1>2, <1>3, <1>4 DEF Owes
  <2> QED BY <1>2, <2>1, CopiesShrink DEF RowsInv
<1>9. LinkTypes' /\ DownMessages'
  BY <1>2, DownKept DEF RowsInv, LinkTypes
<1> QED BY <1>3, <1>5, <1>6, <1>7, <1>8, <1>9 DEF RowsInv

\* A row is stored once more, which the stream no longer owes; or the batch is given up.
LEMMA AppendRows ==
  ASSUME Wire, RowsInv, NEW s \in Streams, AppendGroup(s)
  PROVE  RowsInv'
<1>1. /\ handler[s] = "storing"
      /\ handler' = [handler EXCEPT ![s] = IF batch'[s] = {} THEN "serving" ELSE "storing"]
      /\ UNCHANGED <<conn, cut, opened, acked, watermark, logged, minted, up, down, streamOpen,
                     current, enrolled, ops, overtaken>>
  BY DEF AppendGroup, agent, wire, broker
<1>2. PICK a \in Rows, b \in Rows : a <= b /\ batch[s] = a .. b
  BY <1>1 DEF RowsInv, ServerRows, Interval
<1>3. /\ a \in Nat /\ b \in Nat /\ a \in batch[s] /\ a <= logged /\ logged \in Nat
  BY <1>2 DEF Rows, RowsInv, ServerRows, LinkTypes
<1>4. PICK R : /\ batch' = [batch EXCEPT ![s] = R]
               /\ \/ R = batch[s] \ {a} /\ store' = [store EXCEPT ![a] = @ + 1]
                  \/ R = {} /\ UNCHANGED store
  <2>1. NextGroup(s) = a
    BY <1>2, NextGroupIsOldest
  <2>2. CASE /\ store' = [store EXCEPT ![a] = @ + 1]
             /\ batch' = [batch EXCEPT ![s] = @ \ {a}]
    BY <2>2
  <2>3. CASE batch' = [batch EXCEPT ![s] = {}] /\ UNCHANGED store
    BY <2>3
  <2> QED BY <2>1, <2>2, <2>3 DEF AppendGroup
<1>5. /\ \A t \in Streams : batch'[t] = IF t = s THEN R ELSE batch[t]
      /\ batch' = [t \in Streams |-> batch'[t]]
      /\ R \subseteq batch[s]
  BY <1>4 DEF RowsInv, ServerRows
<1>6. R # {} => Interval(R)
  <2> SUFFICES ASSUME R # {} PROVE Interval(R)
    OBVIOUS
  <2>1. R = (a .. b) \ {a}
    BY <1>2, <1>4
  <2>2. R = a + 1 .. b
    BY <1>3, <2>1
  <2>3. a + 1 <= b
    BY <1>3, <2>2
  <2>4. a + 1 \in Rows
    BY <1>2, <1>3, <2>3, LinkAssumption DEF Rows
  <2> QED BY <2>2, <2>3, <2>4 DEF Interval
<1>7. /\ store' \in [Rows -> Nat]
      /\ \A r \in Rows : store'[r] > 0 => store[r] > 0 \/ r = a
  BY <1>4 DEF RowsInv, ServerRows
<1>8. \A t \in Streams : handler'[t] = IF t # s THEN handler[t] ELSE IF R = {} THEN "serving" ELSE "storing"
  BY <1>1, <1>5 DEF RowsInv, ServerRows
<1>9. handler' \in [Streams -> Phases]
  BY <1>1 DEF RowsInv, ServerRows, Phases
<1>10. ServerRows'
  <2>1. \A t \in Streams : /\ handler'[t] = "storing" => Interval(batch'[t])
                           /\ handler'[t] # "storing" => batch'[t] = {}
                           /\ batch'[t] \subseteq 1 .. logged
    BY <1>5, <1>6, <1>8 DEF RowsInv, ServerRows
  <2>2. \A r \in Rows : store'[r] > 0 => r <= logged
    BY <1>3, <1>7 DEF RowsInv, ServerRows
  <2> QED BY <1>1, <1>5, <1>7, <1>9, <2>1, <2>2 DEF ServerRows
<1>11. ~(s > opened)
  BY <1>1 DEF RowsInv, ToCome
<1>12. LinkTypes' /\ UpMessages' /\ DownMessages' /\ ToCome'
  <2>1. ToCome'
    BY <1>1, <1>8, <1>11, ToComeKept DEF RowsInv
  <2> QED BY <1>1, <2>1, DownKept DEF RowsInv, LinkTypes, UpMessages, UpMessage
<1>13. SentOnce'
  BY <1>1, <1>5 DEF RowsInv, SentOnce
<1>14. \A t \in Streams, r \in Rows : Owes(t, r)' => Owes(t, r)
  BY <1>1, <1>5 DEF Owes
<1>15. CASE UNCHANGED store
  BY <1>10, <1>12, <1>13, <1>14, <1>15, CopiesShrink DEF RowsInv
<1>16. CASE R = batch[s] \ {a} /\ store' = [store EXCEPT ![a] = @ + 1]
  <2>1. Owes(s, a) /\ ~Owes(s, a)'
    <3>1. Owes(s, a)
      BY <1>3 DEF Owes
    <3>2. a \notin Carried(up[s]) /\ a \notin batch'[s]
      BY <1>3, <1>5, <1>16 DEF RowsInv, SentOnce
    <3>3. s = conn => acked /\ a <= watermark
      BY <1>3 DEF RowsInv, SentOnce
    <3>4. watermark \in Nat
      BY DEF RowsInv, LinkTypes
    <3>5. ~(s = conn /\ (~acked \/ watermark < a))
      BY <1>3, <3>3, <3>4
    <3> QED BY <1>1, <1>11, <3>1, <3>2, <3>5 DEF Owes
  <2>2. ASSUME NEW r \in Rows
        PROVE  store'[r] + Cardinality({t \in Streams : Owes(t, r)'}) <= MaxStreams
    <3> DEFINE A == {t \in Streams : Owes(t, r)}
               B == {t \in Streams : Owes(t, r)'}
    <3>1. IsFiniteSet(Streams) /\ A \in SUBSET Streams /\ B \in SUBSET A
      BY <1>14, LinkAssumption, FS_Interval DEF Streams
    <3>2. r = a => s \in A /\ B \in SUBSET (A \ {s})
      BY <2>1, <3>1
    <3>3. store[r] + Cardinality(A) <= MaxStreams /\ store[r] \in Nat
          /\ store'[r] = IF r = a THEN store[r] + 1 ELSE store[r]
      BY <1>16 DEF RowsInv, ServerRows, Copies
    <3> HIDE DEF A, B
    <3>4. IsFiniteSet(A) /\ IsFiniteSet(B)
      BY <3>1, FS_Subset
    <3>5. Cardinality(A) \in Nat /\ Cardinality(B) \in Nat
      BY <3>4, FS_CardinalityType
    <3>6. CASE r = a
      <4>1. IsFiniteSet(A \ {s}) /\ Cardinality(A \ {s}) = Cardinality(A) - 1
        BY <3>2, <3>4, <3>6, FS_RemoveElement
      <4>2. Cardinality(B) <= Cardinality(A \ {s})
        BY <3>2, <3>6, <4>1, FS_Subset
      <4>3. store[r] + 1 + Cardinality(B) <= MaxStreams
        BY <3>3, <3>5, <4>1, <4>2, LinkAssumption
      <4> QED BY <3>3, <3>6, <4>3 DEF B
    <3>7. CASE r # a
      <4>1. Cardinality(B) <= Cardinality(A)
        BY <3>1, <3>4, FS_Subset
      <4>2. store[r] + Cardinality(B) <= MaxStreams
        BY <3>3, <3>5, <4>1, LinkAssumption
      <4> QED BY <3>3, <3>7, <4>2 DEF B
    <3> QED BY <3>6, <3>7
  <2>3. Copies'
    BY <2>2 DEF Copies
  <2> QED BY <1>10, <1>12, <1>13, <2>3 DEF RowsInv
<1> QED BY <1>4, <1>15, <1>16

LEMMA HandlerRows ==
  ASSUME Wire, RowsInv, NEW s \in Streams, Handler(s)
  PROVE  RowsInv'
<1>1. CASE Hello(s)
  <2>1. /\ handler[s] \in {"none", "serving"} /\ up[s] # <<>> /\ up' = [up EXCEPT ![s] = Tail(@)]
        /\ UNCHANGED <<conn, cut, opened, acked, watermark, logged, minted, down, batch, store, ops, overtaken>>
    BY <1>1 DEF Hello, Received, agent, broker
  <2>2. PICK pc \in {"hello", "closed"} : handler' = [handler EXCEPT ![s] = pc]
    BY <1>1 DEF Hello
  <2>3. ~(s > opened)
    BY <2>1 DEF RowsInv, ToCome
  <2>4. streamOpen' \in BOOLEAN /\ enrolled' \in BOOLEAN /\ current' \in 0 .. opened
    <3>1. s \in 0 .. opened
      BY <2>3 DEF RowsInv, LinkTypes, Streams
    <3> QED BY <1>1, <3>1 DEF Hello, RowsInv, LinkTypes
  <2>5. LinkTypes' /\ DownMessages'
    BY <2>1, <2>4, DownKept DEF RowsInv, LinkTypes
  <2>6. /\ UpMessages' /\ \A t \in Streams : Carried(up'[t]) \subseteq Carried(up[t])
        /\ \A t \in Streams : t # s => up'[t] = up[t]
    BY <2>1, UpRead DEF RowsInv
  <2>7. ServerRows'
    BY <2>1, <2>2, HandlerGoes DEF RowsInv, Phases
  <2>8. ToCome'
    BY <2>1, <2>2, <2>3, <2>6, ToComeKept DEF RowsInv, ServerRows
  <2> QED BY <2>1, <2>5, <2>6, <2>7, <2>8, RowsHeld DEF RowsInv
<1>2. CASE Ack(s)
  <2>1. /\ handler[s] = "hello" /\ handler' = [handler EXCEPT ![s] = "serving"]
        /\ UNCHANGED <<conn, cut, opened, acked, watermark, logged, minted, up, batch, store, streamOpen,
                       current, enrolled, ops, overtaken>>
    BY <1>2 DEF Ack, agent, broker
  <2>2. PICK m : m = [kind |-> "ack", max |-> MaxTs, token |-> ~minted]
    OBVIOUS
  <2>3. DownMessage(m)
    <3>1. MaxTs \in 0 .. logged /\ (~minted) \in BOOLEAN
      BY MaxTsLogged DEF RowsInv
    <3> QED BY <2>2, <3>1 DEF DownMessage
  <2>4. DownMessages'
    <3>1. CASE down' = [down EXCEPT ![s] = Append(@, m)]
      BY <2>1, <2>3, <3>1, DownSent DEF RowsInv
    <3>2. CASE down' = down
      BY <2>1, <3>2, DownKept DEF RowsInv, LinkTypes
    <3> QED BY <1>2, <2>2, <3>1, <3>2 DEF Ack
  <2>5. ServerRows'
    BY <2>1, HandlerGoes DEF RowsInv, Phases
  <2>6. ToCome'
    <3>1. ~(s > opened)
      BY <2>1 DEF RowsInv, ToCome
    <3> QED BY <2>1, <3>1, ToComeKept DEF RowsInv, ServerRows
  <2>7. LinkTypes' /\ UpMessages'
    BY <2>1 DEF RowsInv, LinkTypes, UpMessages, UpMessage
  <2> QED BY <2>1, <2>4, <2>5, <2>6, <2>7, RowsHeld DEF RowsInv
<1>3. CASE Snapshot(s) \/ Result(s)
  <2>1. /\ up[s] # <<>> /\ up' = [up EXCEPT ![s] = Tail(@)] /\ streamOpen' \in BOOLEAN
        /\ UNCHANGED <<conn, cut, opened, acked, watermark, logged, minted, down, handler, batch, store,
                       current, enrolled, ops, overtaken>>
    <3>1. streamOpen \in BOOLEAN
      BY DEF RowsInv, LinkTypes
    <3> QED BY <1>3, <3>1 DEF Snapshot, Update, Result, Received, agent, server, broker
  <2>2. ~(s > opened)
    BY <2>1 DEF RowsInv, ToCome
  <2>3. LinkTypes' /\ DownMessages' /\ ServerRows'
    BY <2>1, DownKept, ServerRowsSame DEF RowsInv, LinkTypes
  <2>4. /\ UpMessages' /\ \A t \in Streams : Carried(up'[t]) \subseteq Carried(up[t])
        /\ \A t \in Streams : t # s => up'[t] = up[t]
    BY <2>1, UpRead DEF RowsInv
  <2>5. ToCome'
    BY <2>1, <2>2, <2>4, ToComeKept DEF RowsInv
  <2> QED BY <2>1, <2>3, <2>4, <2>5, RowsHeld DEF RowsInv
<1>4. CASE Metrics(s)
  BY <1>4, MetricsRows
<1>5. CASE AppendGroup(s)
  BY <1>5, AppendRows
<1>6. CASE RecvError(s) \/ NeverServed(s)
  <2>1. /\ handler[s] # "storing" /\ up' = [up EXCEPT ![s] = <<>>] /\ streamOpen' \in BOOLEAN
        /\ UNCHANGED <<conn, cut, opened, acked, watermark, logged, minted, down, batch, store,
                       current, enrolled, ops, overtaken>>
    <3>1. streamOpen \in BOOLEAN
      BY DEF RowsInv, LinkTypes
    <3> QED BY <1>6, <3>1 DEF RecvError, NeverServed, agent, broker
  <2>2. PICK pc \in {"closing", "closed"} : handler' = [handler EXCEPT ![s] = pc]
    BY <1>6 DEF RecvError, NeverServed
  <2>3. ~(s > opened)
    BY <1>6 DEF RecvError, NeverServed, RowsInv, ToCome, LinkTypes, Streams
  <2>4. LinkTypes' /\ DownMessages'
    BY <2>1, DownKept DEF RowsInv, LinkTypes
  <2>5. /\ UpMessages' /\ \A t \in Streams : Carried(up'[t]) \subseteq Carried(up[t])
        /\ \A t \in Streams : t # s => up'[t] = up[t]
    BY <2>1, UpCleared DEF RowsInv
  <2>6. ServerRows'
    BY <2>1, <2>2, HandlerGoes DEF RowsInv, Phases
  <2>7. ToCome'
    BY <2>1, <2>2, <2>3, <2>5, ToComeKept DEF RowsInv, ServerRows
  <2> QED BY <2>1, <2>4, <2>5, <2>6, <2>7, RowsHeld DEF RowsInv
<1>7. CASE Teardown(s)
  <2>1. /\ handler[s] = "closing" /\ handler' = [handler EXCEPT ![s] = "closed"]
        /\ current' = (IF current = s THEN 0 ELSE current)
        /\ UNCHANGED <<conn, cut, opened, acked, watermark, logged, minted, up, down, batch, store, streamOpen,
                       enrolled, ops, overtaken>>
    BY <1>7 DEF Teardown, agent, wire
  <2>2. LinkTypes'
    <3>1. 0 \in 0 .. opened
      BY DEF RowsInv, LinkTypes
    <3> QED BY <2>1, <3>1 DEF RowsInv, LinkTypes
  <2>3. DownMessages' /\ UpMessages'
    BY <2>1, DownKept DEF RowsInv, LinkTypes, UpMessages, UpMessage
  <2>4. ServerRows'
    BY <2>1, HandlerGoes DEF RowsInv, Phases
  <2>5. ToCome'
    <3>1. ~(s > opened)
      BY <2>1 DEF RowsInv, ToCome
    <3> QED BY <2>1, <3>1, ToComeKept DEF RowsInv, ServerRows
  <2> QED BY <2>1, <2>2, <2>3, <2>4, <2>5, RowsHeld DEF RowsInv
<1> QED BY <1>1, <1>2, <1>3, <1>4, <1>5, <1>6, <1>7 DEF Handler

\* The callers, and a step that changes nothing.
LEMMA CallersRows ==
  ASSUME Wire, RowsInv,
         (\E c \in Callers : Control(c) \/ Enter(c) \/ Send(c) \/ Return(c) \/ Timeout(c)) \/ UNCHANGED vars
  PROVE  RowsInv'
<1>1. UNCHANGED <<conn, cut, opened, acked, watermark, logged, minted, up, handler, batch, store,
                  streamOpen, current, enrolled, overtaken>>
  BY DEF Control, Enter, Send, Return, Timeout, vars, agent, wire, server
<1>2. ops' = ops \/ (ops' = ops + 1 /\ logged + ops < MaxWork)
  BY DEF Control, Enter, Send, Return, Timeout, vars, broker
<1>3. LinkTypes'
  BY <1>1, <1>2, LinkAssumption DEF RowsInv, LinkTypes
<1>4. DownMessages'
  <2>1. CASE down' = down
    BY <1>1, <2>1, DownKept DEF RowsInv, LinkTypes
  <2>2. ASSUME NEW c \in Callers, Send(c), down' # down PROVE DownMessages'
    <3>1. PICK s, m : s = calls[c].stream
                      /\ m = [kind |-> "command", id |-> calls[c].id, op |-> calls[c].op]
      OBVIOUS
    <3>2. down' = [down EXCEPT ![s] = Append(@, m)] /\ DownMessage(m)
      BY <2>2, <3>1 DEF Send, DownMessage
    <3>3. s \in Streams
      BY <2>2, <3>2 DEF Wire
    <3> QED BY <1>1, <3>2, <3>3, DownSent DEF RowsInv
  <2> QED BY <2>1, <2>2 DEF Control, Enter, Return, Timeout, vars, wire
<1>5. UpMessages' /\ ServerRows' /\ ToCome'
  BY <1>1, ServerRowsSame DEF RowsInv, LinkTypes, UpMessages, UpMessage, ToCome
<1> QED BY <1>1, <1>3, <1>4, <1>5, RowsHeld DEF RowsInv

LEMMA InitRows == Init => RowsInv
<1> SUFFICES ASSUME Init PROVE RowsInv
  OBVIOUS
<1>1. LinkTypes
  <2>1. 0 \in 0 .. MaxStreams /\ 0 \in 0 .. 0 /\ 0 \in Nat /\ 0 + 0 <= MaxWork
    BY LinkAssumption
  <2>2. opened = 0 /\ conn = 0 /\ current = 0 /\ logged = 0 /\ watermark = 0 /\ ops = 0
    BY DEF Init
  <2>3. /\ cut \in BOOLEAN /\ acked \in BOOLEAN /\ minted \in BOOLEAN
        /\ enrolled \in BOOLEAN /\ streamOpen \in BOOLEAN /\ overtaken \subseteq Streams
    BY DEF Init
  <2> QED BY <2>1, <2>2, <2>3 DEF LinkTypes
<1>2. UpMessages /\ DownMessages /\ ToCome /\ SentOnce
  BY CarriedShort, LinkAssumption DEF Init, UpMessages, DownMessages, ToCome, SentOnce, Streams
<1>3. ServerRows
  BY DEF Init, ServerRows, Phases
<1>4. Copies
  <2>1. Cardinality(Streams) = MaxStreams /\ IsFiniteSet(Streams)
    BY LinkAssumption, FS_Interval DEF Streams
  <2> SUFFICES ASSUME NEW r \in Rows PROVE store[r] + Cardinality({s \in Streams : Owes(s, r)}) <= MaxStreams
    BY DEF Copies
  <2> DEFINE A == {s \in Streams : Owes(s, r)}
  <2>2. A \in SUBSET Streams
    OBVIOUS
  <2> HIDE DEF A
  <2>3. Cardinality(A) <= MaxStreams /\ Cardinality(A) \in Nat
    BY <2>1, <2>2, FS_Subset, FS_CardinalityType
  <2>4. store[r] = 0
    BY DEF Init
  <2>5. store[r] + Cardinality(A) <= MaxStreams
    BY <2>3, <2>4, LinkAssumption
  <2> QED BY <2>5 DEF A
<1> QED BY <1>1, <1>2, <1>3, <1>4 DEF RowsInv

LEMMA StepRows == Wire /\ RowsInv /\ [Next]_vars => RowsInv'
BY AgentRows, ExecutedRows, HandlerRows, CallersRows DEF Next

-----------------------------------------------------------------------------
(* Ids and commands. *)

\* A call that goes on or ends takes no id, and leaves its command's number.
LEMMA CallsHeld ==
  ASSUME TypesInv, NoNewTags, UNCHANGED <<nextID, ops>>,
         pending' = [s \in Streams |-> pending'[s]], \A s \in Streams : pending'[s] \subseteq pending[s],
         \A c \in Callers :
           /\ calls'[c].pc = "got" => calls[c].pc = "got"
           /\ calls'[c].pc # "idle" => calls[c].pc # "idle" /\ calls'[c].op = calls[c].op
  PROVE  IdsFew' /\ OpsCalled'
<1>1. OpsCalled'
  BY DEF TypesInv, OpsCalled, NoNewTags
<1>2. Got' \in SUBSET Got
  BY DEF Got
<1>3. IsFiniteSet(Got') /\ Cardinality(Got') <= Cardinality(Got)
  BY <1>2, FS_Subset DEF TypesInv, IdsFew
<1>4. Cardinality(Got') \in Nat /\ Cardinality(Got) \in Nat
  BY <1>3, FS_CardinalityType DEF TypesInv, IdsFew
<1>5. \A s \in Streams : nextID[s] + Cardinality(Got') <= ops
  <2> SUFFICES ASSUME NEW s \in Streams PROVE nextID[s] + Cardinality(Got') <= ops
    OBVIOUS
  <2>1. nextID[s] \in Nat /\ ops \in Nat /\ nextID[s] + Cardinality(Got) <= ops
    BY DEF TypesInv, IInv, Desks, IdsFew
  <2> QED BY <1>3, <1>4, <2>1
<1> QED BY <1>1, <1>3, <1>5 DEF TypesInv, IdsFew

\* A call has the number of the commands called.
LEMMA ControlCalls ==
  ASSUME TypesInv, NEW c \in Callers, Control(c)
  PROVE  IdsFew' /\ OpsCalled'
<1>1. /\ calls[c].pc = "idle" /\ ops' = ops + 1
      /\ calls' = [calls EXCEPT ![c] = [Idle EXCEPT !.pc = "got", !.stream = current, !.op = ops + 1]]
      /\ UNCHANGED <<up, down, running, pending, nextID>>
  BY DEF Control, agent, wire
<1>2. /\ \A d \in Callers : d # c => calls'[d] = calls[d]
      /\ calls'[c].pc = "got" /\ calls'[c].op = ops + 1
  BY <1>1 DEF TypesInv, IInv, Desks, Idle
<1>3. ops \in Nat /\ \A s \in Streams : nextID[s] \in Nat
  BY DEF TypesInv, IInv, Desks
<1>4. OpsCalled'
  <2>1. \A s \in Streams : Tags(s)' = Tags(s)
    BY <1>1 DEF Tags
  <2>2. \A n \in 1 .. ops : n \in 1 .. ops + 1
    BY <1>3
  <2> QED BY <1>1, <1>2, <1>3, <2>1, <2>2 DEF TypesInv, OpsCalled
<1>5. Got' = Got \cup {c} /\ c \notin Got
  BY <1>1, <1>2 DEF Got
<1>6. IsFiniteSet(Got') /\ Cardinality(Got') = Cardinality(Got) + 1 /\ Cardinality(Got) \in Nat
  BY <1>5, FS_AddElement, FS_CardinalityType DEF TypesInv, IdsFew
<1>7. \A s \in Streams : nextID[s] + Cardinality(Got') <= ops + 1
  BY <1>3, <1>6 DEF TypesInv, IdsFew
<1> QED BY <1>1, <1>4, <1>6, <1>7 DEF TypesInv, IdsFew

\* An id is taken by a caller that had none.
LEMMA EnterCalls ==
  ASSUME TypesInv, NEW c \in Callers, Enter(c)
  PROVE  IdsFew' /\ OpsCalled'
<1>1. PICK s \in Streams : s = calls[c].stream
  BY DEF Enter, TypesInv, IInv, Desks
<1>2. /\ calls[c].pc = "got" /\ nextID' = [nextID EXCEPT ![s] = @ + 1]
      /\ pending' = [pending EXCEPT ![s] = @ \cup {nextID'[s]}]
      /\ calls' = [calls EXCEPT ![c].pc = "send", ![c].id = nextID'[s]]
      /\ UNCHANGED <<up, down, running, ops>>
  BY <1>1 DEF Enter, agent, wire
<1>3. /\ \A d \in Callers : d # c => calls'[d] = calls[d]
      /\ calls'[c].pc = "send" /\ calls'[c].op = calls[c].op
  BY <1>2 DEF TypesInv, IInv, Desks
<1>4. /\ ops \in Nat /\ \A t \in Streams : nextID[t] \in Nat
      /\ \A t \in Streams : nextID'[t] = IF t = s THEN nextID[t] + 1 ELSE nextID[t]
  BY <1>2 DEF TypesInv, IInv, Desks
<1>5. /\ pending' = [t \in Streams |-> pending'[t]]
      /\ \A t \in Streams : pending'[t] = IF t = s THEN pending[t] \cup {nextID[s] + 1} ELSE pending[t]
  BY <1>2, <1>4 DEF TypesInv, IdsFew
<1>6. OpsCalled'
  <2>1. \A t \in Streams : Tags(t)' = Tags(t)
    BY <1>2 DEF Tags
  <2> QED BY <1>2, <1>3, <2>1 DEF TypesInv, OpsCalled
<1>7. Got' = Got \ {c} /\ c \in Got
  BY <1>2, <1>3 DEF Got
<1>8. IsFiniteSet(Got') /\ Cardinality(Got') = Cardinality(Got) - 1 /\ Cardinality(Got) \in Nat
  BY <1>7, FS_RemoveElement, FS_CardinalityType DEF TypesInv, IdsFew
<1>9. \A t \in Streams : nextID'[t] + Cardinality(Got') <= ops
  <2> SUFFICES ASSUME NEW t \in Streams PROVE nextID'[t] + Cardinality(Got') <= ops
    OBVIOUS
  <2>1. nextID[t] + Cardinality(Got) <= ops
    BY DEF TypesInv, IdsFew
  <2> QED BY <1>4, <1>8, <2>1
<1>10. \A t \in Streams : pending'[t] \subseteq 1 .. nextID'[t]
  <2> SUFFICES ASSUME NEW t \in Streams PROVE pending'[t] \subseteq 1 .. nextID'[t]
    OBVIOUS
  <2>1. pending[t] \subseteq 1 .. nextID[t]
    BY DEF TypesInv, IdsFew
  <2>2. 1 .. nextID[t] \subseteq 1 .. nextID[t] + 1 /\ nextID[t] + 1 \in 1 .. nextID[t] + 1
    BY <1>4
  <2> QED BY <1>4, <1>5, <2>1, <2>2
<1> QED BY <1>2, <1>5, <1>6, <1>8, <1>9, <1>10 DEF IdsFew

\* The command on its way down has the caller's number.
LEMMA SendCalls ==
  ASSUME TypesInv, NEW c \in Callers, Send(c)
  PROVE  IdsFew' /\ OpsCalled'
<1>1. PICK s \in Streams : s = calls[c].stream
  BY DEF Send, TypesInv, IInv, Desks
<1>2. PICK m : m = [kind |-> "command", id |-> calls[c].id, op |-> calls[c].op]
  OBVIOUS
<1>3. /\ calls[c].pc = "send" /\ calls \in [Callers -> [pc : Places, stream : 0 .. MaxStreams, id : Nat, op : Nat, result : Nat]]
      /\ UNCHANGED <<up, running, nextID, ops>>
  BY DEF Send, agent, TypesInv, IInv, Desks
<1>4. CASE Abandon(c) /\ UNCHANGED down
  <2>1. NoNewTags
    BY <1>3, <1>4, TagsKept
  <2>2. \A d \in Callers : calls'[d] = IF d = c THEN Idle ELSE calls[d]
    BY <1>3, <1>4 DEF Abandon
  <2>3. pending' = [t \in Streams |-> pending'[t]] /\ \A t \in Streams : pending'[t] \subseteq pending[t]
    BY <1>4 DEF Abandon, TypesInv, IdsFew
  <2> QED BY <1>3, <2>1, <2>2, <2>3, CallsHeld DEF Idle
<1>5. CASE /\ calls' = [calls EXCEPT ![c].pc = "waiting"]
           /\ down' = [down EXCEPT ![s] = Append(@, m)] \/ down' = down
           /\ UNCHANGED pending
  <2>1. \A d \in Callers : /\ calls'[d].op = calls[d].op
                           /\ calls'[d].pc = IF d = c THEN "waiting" ELSE calls[d].pc
    BY <1>3, <1>5
  <2>2. Got' = Got
    BY <1>3, <2>1 DEF Got
  <2>3. IdsFew'
    BY <1>3, <1>5, <2>2 DEF TypesInv, IdsFew
  <2>4. \A t \in Streams : Tags(t)' \subseteq Tags(t) \cup {<<m.id, m.op>>}
    <3>1. IsSeq(down[s])
      BY DEF TypesInv, IInv, Wire
    <3>2. m.kind = "command"
      BY <1>2
    <3>3. Tagged(Append(down[s], m), "command") \subseteq Tagged(down[s], "command") \cup {<<m.id, m.op>>}
      BY <3>1, <3>2, TaggedAppend
    <3>4. \A t \in Streams : down'[t] = down[t] \/ (t = s /\ down'[t] = Append(down[s], m))
      BY <1>5 DEF TypesInv, IInv, Wire
    <3> QED BY <1>3, <3>3, <3>4 DEF Tags
  <2>5. m.op \in 1 .. ops
    BY <1>2, <1>3 DEF TypesInv, OpsCalled
  <2>6. OpsCalled'
    BY <1>3, <2>1, <2>4, <2>5 DEF TypesInv, OpsCalled
  <2> QED BY <2>3, <2>6
<1> QED BY <1>1, <1>2, <1>4, <1>5 DEF Send

LEMMA StepCalls ==
  ASSUME TypesInv, [Next]_vars
  PROVE  IdsFew' /\ OpsCalled'
<1>1. pending = [t \in Streams |-> pending[t]]
  BY DEF TypesInv, IdsFew
<1>2. ASSUME NoNewTags, UNCHANGED <<nextID, calls, ops, pending>> PROVE IdsFew' /\ OpsCalled'
  BY <1>1, <1>2, CallsHeld
<1>3. CASE Connect \/ Cut \/ StreamError \/ Sample \/ RecvAck \/ Push \/ RecvCommand
  <2>1. UNCHANGED pending
    BY <1>3 DEF Connect, Cut, StreamError, Sample, RecvAck, Push, RecvCommand, broker
  <2>2. NoNewTags /\ UNCHANGED <<nextID, calls, ops>>
    BY <1>3, AgentTags DEF TypesInv, IInv
  <2> QED BY <1>2, <2>1, <2>2
<1>4. ASSUME NEW s \in Streams, Executed(s) PROVE IdsFew' /\ OpsCalled'
  <2>1. UNCHANGED pending
    BY <1>4 DEF Executed, broker
  <2>2. NoNewTags /\ UNCHANGED <<nextID, calls, ops>>
    BY <1>4, ExecutedTags DEF TypesInv, IInv
  <2> QED BY <1>2, <2>1, <2>2
<1>5. ASSUME NEW s \in Streams, Handler(s) PROVE IdsFew' /\ OpsCalled'
  <2>1. NoNewTags /\ UNCHANGED <<nextID, ops>>
    BY <1>5, HandlerTags DEF TypesInv, IInv
  <2>2. \A c \in Callers : calls'[c].pc = calls[c].pc /\ calls'[c].op = calls[c].op
    <3>1. CASE Result(s)
      BY <3>1 DEF Result, TypesInv, IInv, Desks
    <3>2. CASE ~Result(s)
      BY <1>5, <3>2 DEF Handler, Hello, Ack, Snapshot, Metrics, AppendGroup, RecvError, NeverServed,
                        Teardown, broker
    <3> QED BY <3>1, <3>2
  <2>3. pending' = [t \in Streams |-> pending'[t]] /\ \A t \in Streams : pending'[t] \subseteq pending[t]
    <3>1. CASE UNCHANGED pending
      BY <1>1, <3>1
    <3>2. ASSUME NEW R, R \subseteq pending[s], pending' = [pending EXCEPT ![s] = R]
          PROVE  pending' = [t \in Streams |-> pending'[t]] /\ \A t \in Streams : pending'[t] \subseteq pending[t]
      BY <1>1, <3>2
    <3>3. CASE Result(s)
      <4>1. UNCHANGED pending \/ pending' = [pending EXCEPT ![s] = pending[s] \ {Head(up[s]).id}]
        BY <1>1, <3>3 DEF Result, SessionOf
      <4> QED BY <3>1, <3>2, <4>1
    <3>4. CASE Teardown(s)
      <4>1. pending' = [pending EXCEPT ![s] = {}]
        BY <3>4 DEF Teardown, FailAll
      <4> QED BY <3>2, <4>1
    <3>5. CASE ~Result(s) /\ ~Teardown(s)
      <4>1. UNCHANGED pending
        BY <1>5, <3>5 DEF Handler, Hello, Ack, Snapshot, Metrics, AppendGroup, RecvError, NeverServed, broker
      <4> QED BY <3>1, <4>1
    <3> QED BY <3>3, <3>4, <3>5
  <2> QED BY <2>1, <2>2, <2>3, CallsHeld
<1>6. ASSUME NEW c \in Callers, Control(c) \/ Enter(c) \/ Send(c) PROVE IdsFew' /\ OpsCalled'
  BY <1>6, ControlCalls, EnterCalls, SendCalls
<1>7. ASSUME NEW c \in Callers, Return(c) \/ Timeout(c) PROVE IdsFew' /\ OpsCalled'
  <2>1. /\ calls' = [calls EXCEPT ![c] = Idle]
        /\ UNCHANGED <<up, down, running, nextID, ops>>
    BY <1>7 DEF Return, Timeout, Abandon, agent, wire
  <2>2. pending' = [t \in Streams |-> pending'[t]] /\ \A t \in Streams : pending'[t] \subseteq pending[t]
    BY <1>1, <1>7 DEF Return, Timeout, Abandon
  <2>3. \A d \in Callers : calls'[d] = IF d = c THEN Idle ELSE calls[d]
    BY <2>1 DEF TypesInv, IInv, Desks
  <2> QED BY <2>1, <2>2, <2>3, TagsKept, CallsHeld DEF Idle
<1>8. CASE UNCHANGED vars
  <2>1. UNCHANGED <<up, down, running, nextID, calls, ops, pending>>
    BY <1>8 DEF vars, agent, wire, broker
  <2> QED BY <1>2, <2>1, TagsKept
<1> QED BY <1>3, <1>4, <1>5, <1>6, <1>7, <1>8 DEF Next

LEMMA InitTypes == Init => TypesInv
<1> SUFFICES ASSUME Init PROVE IdsFew /\ OpsCalled
  BY InitIInv, InitRows DEF TypesInv
<1>1. Got = {} /\ ops = 0 /\ nextID = [s \in Streams |-> 0] /\ pending = [s \in Streams |-> {}]
  BY DEF Init, Got, Idle
<1>2. IdsFew
  BY <1>1, FS_EmptySet DEF IdsFew
<1>3. OpsCalled
  <2>1. \A s \in Streams : Tags(s) = {}
    BY TaggedShort DEF Init, Tags
  <2>2. \A c \in Callers : calls[c].pc = "idle"
    BY DEF Init, Idle
  <2> QED BY <2>1, <2>2 DEF OpsCalled
<1> QED BY <1>2, <1>3

-----------------------------------------------------------------------------
\* Of every variable the type, for any number of callers, streams, rows and
\* commands; in it, that the store never has more copies of a row than there are
\* streams (server.go: storeBatch; client.go: the watermark of a stream), and that
\* the ids of a session never outnumber the commands called (broker.go: dispatch).
THEOREM FleetTypes == Spec => []TypeOK
<1>1. TypesInv => TypeOK
  <2> SUFFICES ASSUME TypesInv PROVE TypeOK
    OBVIOUS
  <2>1. ops \in 0 .. MaxWork /\ logged \in 0 .. MaxWork
    BY LinkAssumption DEF TypesInv, RowsInv, LinkTypes
  <2>2. \A s \in Streams : nextID[s] \in 0 .. ops
    <3> SUFFICES ASSUME NEW s \in Streams PROVE nextID[s] \in 0 .. ops
      OBVIOUS
    <3>1. nextID[s] \in Nat /\ nextID[s] + Cardinality(Got) <= ops /\ IsFiniteSet(Got)
      BY DEF TypesInv, IInv, Desks, IdsFew
    <3>2. Cardinality(Got) \in Nat
      BY <3>1, FS_CardinalityType
    <3> QED BY <2>1, <3>1, <3>2
  <2>3. \A s \in Streams : nextID[s] \in 0 .. MaxWork /\ 1 .. nextID[s] \subseteq 1 .. MaxWork
    BY <2>1, <2>2, LinkAssumption
  <2>4. nextID \in [Streams -> 0 .. MaxWork] /\ pending \in [Streams -> SUBSET (1 .. MaxWork)]
    <3>1. nextID = [s \in Streams |-> nextID[s]] /\ pending = [s \in Streams |-> pending[s]]
      BY DEF TypesInv, IInv, Desks, IdsFew
    <3>2. \A s \in Streams : pending[s] \subseteq 1 .. MaxWork
      BY <2>3 DEF TypesInv, IdsFew
    <3> QED BY <2>3, <3>1, <3>2
  <2>5. running \in [Streams -> SUBSET ((1 .. MaxWork) \X (1 .. MaxWork))]
    <3>1. ASSUME NEW s \in Streams, NEW t \in running[s]
          PROVE  t \in (1 .. MaxWork) \X (1 .. MaxWork)
      <4>1. t \in Tags(s)
        BY <3>1 DEF Tags
      <4>2. t \in (1 .. nextID[s]) \X Nat /\ t[2] \in 1 .. ops
        BY <4>1 DEF TypesInv, IInv, TagsIssued, OpsCalled
      <4>3. t[2] \in 1 .. MaxWork
        BY <2>1, <4>2, LinkAssumption
      <4> QED BY <2>3, <4>2, <4>3
    <3>2. running = [s \in Streams |-> running[s]]
      BY DEF TypesInv, IInv, Wire
    <3> QED BY <3>1, <3>2
  <2>6. handler \in [Streams -> Phases] /\ batch \in [Streams -> SUBSET Rows]
    <3>1. 1 .. logged \subseteq Rows
      BY <2>1, LinkAssumption DEF Rows
    <3> QED BY <3>1 DEF TypesInv, RowsInv, ServerRows
  <2>7. \A r \in Rows : store[r] <= MaxStreams
    <3> SUFFICES ASSUME NEW r \in Rows PROVE store[r] <= MaxStreams
      OBVIOUS
    <3> DEFINE A == {s \in Streams : Owes(s, r)}
    <3>1. IsFiniteSet(Streams) /\ A \in SUBSET Streams
      BY LinkAssumption, FS_Interval DEF Streams
    <3>2. store[r] + Cardinality(A) <= MaxStreams /\ store[r] \in Nat
      BY DEF TypesInv, RowsInv, Copies, ServerRows
    <3> HIDE DEF A
    <3>3. Cardinality(A) \in Nat
      BY <3>1, FS_Subset, FS_CardinalityType
    <3> QED BY <3>2, <3>3, LinkAssumption
  <2>8. /\ \A s \in Streams : \A i \in DOMAIN up[s] : up[s][i].kind \in {"hello", "snapshot", "metrics", "result"}
        /\ \A s \in Streams : \A i \in DOMAIN down[s] : down[s][i].kind \in {"ack", "command"}
    BY DEF TypesInv, RowsInv, UpMessages, UpMessage, DownMessages, DownMessage
  <2>9. \A c \in Callers : calls[c].pc \in {"idle", "got", "send", "waiting"}
    BY DEF TypesInv, IInv, Desks, Places
  <2> QED BY <2>1, <2>4, <2>5, <2>6, <2>7, <2>8, <2>9 DEF TypeOK, TypesInv, RowsInv, LinkTypes
<1>2. TypesInv /\ [Next]_vars => TypesInv'
  <2> SUFFICES ASSUME TypesInv, [Next]_vars PROVE TypesInv'
    OBVIOUS
  <2>1. IInv'
    BY StepIInv DEF TypesInv
  <2>2. RowsInv'
    BY StepRows DEF TypesInv, IInv
  <2>3. IdsFew' /\ OpsCalled'
    BY StepCalls
  <2> QED BY <2>1, <2>2, <2>3 DEF TypesInv
<1> QED BY <1>1, <1>2, InitTypes, PTL DEF Spec
=============================================================================
