------------------------------- MODULE Errors -------------------------------
(***************************************************************************)
(* The Errors page (web/src/Errors.tsx), the badge of the navigation rail   *)
(* (web/src/AppShell.tsx) and what they show: the error signatures of a     *)
(* time range and the acknowledgements, kept by the server.  The page loads *)
(* on a change of the range and after its own acknowledgements only; the    *)
(* badge polls.  An acknowledgement holds until the error occurs again.     *)
(* Definitions headed "Slip" are plausible mistakes; nothing uses them.     *)
(***************************************************************************)
EXTENDS Integers, FiniteSets, Sequences

CONSTANTS
  Sigs,      \* error signatures
  Old,       \* those that occurred in the last 7 days, but not today
  MaxSeen,   \* bound: occurrences of a signature
  MaxAcks,   \* bound: acknowledgements under way
  MaxPolls,  \* bound: polls of the badge under way
  Waiting, Lost, NoData

VARIABLES
  mounted,   \* the page is on screen; the badge always is
  range, data, acking,   \* the page's state
  load,      \* the request of the effect that runs
  loaded,    \* history: that request was answered
  acks,      \* acknowledgements under way
  badge, polls,
  seen,      \* signature -> how often it occurred
  ackedAt,   \* signature -> the occurrences when it was acknowledged, or -1
  aside      \* history: since the page asked, the server's state changed by
             \* something the page does not follow

page == <<mounted, range, data, acking, load, loaded>>
vars == <<page, acks, badge, polls, seen, ackedAt, aside>>

\* "all" is a wider window like 7d.
Ranges == {"24h", "7d"}

\* Every variable has its type.
TypeOK ==
  /\ mounted \in {"here", "away"} /\ range \in Ranges
  /\ acking \in BOOLEAN /\ loaded \in BOOLEAN /\ aside \in BOOLEAN
  /\ data # NoData => data.range \in Ranges /\ data.acked \subseteq data.sigs
  /\ \A a \in acks : a.sig \in Sigs /\ a.to \in BOOLEAN /\ a.kind \in {"one", "all", "ignored"}
  /\ badge \in 0 .. Cardinality(Sigs)
  /\ seen \in [Sigs -> 0 .. MaxSeen] /\ ackedAt \in [Sigs -> -1 .. MaxSeen]

-----------------------------------------------------------------------------
(* The server: /api/errors and /api/errors/ack. *)

InRange(r) == {s \in IF r = "24h" THEN Sigs \ Old ELSE Sigs : seen[s] > 0}

Acked(s) == ackedAt[s] >= seen[s]

View(r) == [range |-> r, sigs |-> InRange(r), acked |-> {s \in InRange(r) : Acked(s)}]
Unacked(view) == view.sigs \ view.acked

\* A process writes the error to stderr once more.  In the second in which it was
\* acknowledged that does not count: acknowledged compares whole seconds.
Occur ==
  /\ \E s \in Sigs \ Old :
       /\ seen[s] < MaxSeen
       /\ seen' = [seen EXCEPT ![s] = @ + 1]
       /\ ackedAt' \in {ackedAt} \cup IF Acked(s) THEN {[ackedAt EXCEPT ![s] = seen'[s]]} ELSE {}
  /\ aside' = TRUE
  /\ UNCHANGED <<page, acks, badge, polls>>

-----------------------------------------------------------------------------
(* The page. *)

Ask(r) == [range |-> r, live |-> TRUE, reply |-> Waiting]

Init ==
  /\ mounted = "here" /\ range = "24h" /\ data = NoData /\ acking = FALSE
  /\ load = {Ask("24h")} /\ loaded = FALSE
  /\ acks = {} /\ badge = 0 /\ polls = <<>>
  /\ seen = [s \in Sigs |-> IF s \in Old THEN 1 ELSE 0]
  /\ ackedAt = [s \in Sigs |-> -1]
  /\ aside = FALSE

\* Slip: the effect's cleanup does not set live to false.
LiveForgotten == load

\* The requests still answered once the effect has run again.
Superseded == {}

\* The effect of [range, tick].
Reload(r) == load' = Superseded \cup {Ask(r)} /\ loaded' = FALSE /\ aside' = FALSE

SetRange ==
  /\ mounted = "here"
  /\ range' \in Ranges \ {range}
  /\ Reload(range')
  /\ UNCHANGED <<mounted, data, acking, acks, badge, polls, seen, ackedAt>>

ServeLoad ==
  /\ \E l \in load, lost \in BOOLEAN :
       /\ l.reply = Waiting
       /\ load' = (load \ {l}) \cup {[l EXCEPT !.reply = IF lost THEN Lost ELSE View(l.range)]}
  /\ UNCHANGED <<mounted, range, data, acking, loaded, acks, badge, polls, seen, ackedAt, aside>>

Loaded ==
  /\ \E l \in load :
       /\ l.reply # Waiting
       /\ load' = load \ {l}
       /\ data' = IF l.reply = Lost THEN data ELSE l.reply
       /\ loaded' = (l.reply # Lost)
  /\ UNCHANGED <<mounted, range, acking, acks, badge, polls, seen, ackedAt, aside>>

\* Acknowledgements whose answers nobody awaits are served and gone.
Ignored(as) == {[a EXCEPT !.kind = "ignored"] : a \in {a \in as : a.reply = Waiting}}

Leave ==
  /\ mounted = "here" /\ mounted' = "away"
  /\ range' = "24h" /\ data' = NoData /\ acking' = FALSE
  /\ load' = {} /\ loaded' = FALSE /\ aside' = FALSE
  /\ acks' = Ignored(acks)
  /\ UNCHANGED <<badge, polls, seen, ackedAt>>

Return ==
  /\ mounted = "away" /\ mounted' = "here"
  /\ Reload(range)
  /\ UNCHANGED <<range, data, acking, acks, badge, polls, seen, ackedAt>>

-----------------------------------------------------------------------------
(* onAck and onAckAll. *)

Ack(s, to, kind) == [sig |-> s, to |-> to, kind |-> kind, reply |-> Waiting]
Shown == mounted = "here" /\ data # NoData

\* onAck: the opposite of what is shown, as often as it is clicked.
OnAck ==
  /\ Shown /\ Cardinality(acks) < MaxAcks
  /\ \E s \in data.sigs : acks' = acks \cup {Ack(s, s \notin data.acked, "one")}
  /\ UNCHANGED <<page, badge, polls, seen, ackedAt, aside>>

OnAckAll ==
  /\ Shown /\ ~acking /\ Unacked(data) # {}
  /\ Cardinality(acks) + Cardinality(Unacked(data)) <= MaxAcks
  /\ acking' = TRUE
  /\ acks' = acks \cup {Ack(s, TRUE, "all") : s \in Unacked(data)}
  /\ UNCHANGED <<mounted, range, data, load, loaded, badge, polls, seen, ackedAt, aside>>

\* The server stores it; the answer may be lost, or the request.
ServeAck ==
  \E a \in acks, reply \in {"ok", Lost} :
    /\ a.reply = Waiting
    /\ ackedAt' \in {[ackedAt EXCEPT ![a.sig] = IF a.to THEN seen[a.sig] ELSE -1]}
                    \cup IF reply = Lost THEN {ackedAt} ELSE {}
    /\ acks' = (acks \ {a}) \cup IF a.kind = "ignored" THEN {} ELSE {[a EXCEPT !.reply = reply]}
    /\ aside' = (aside \/ (ackedAt' # ackedAt /\ (a.kind = "ignored" \/ (a.kind = "one" /\ reply = Lost))))
    /\ UNCHANGED <<page, badge, polls, seen>>

ReloadAfterAck == Reload(range)

AckDone ==
  \E a \in acks :
    /\ a.kind = "one" /\ a.reply # Waiting
    /\ acks' = acks \ {a}
    /\ IF a.reply = "ok" THEN ReloadAfterAck ELSE UNCHANGED <<load, loaded, aside>>
    /\ UNCHANGED <<mounted, range, data, acking, badge, polls, seen, ackedAt>>

\* Promise.all: settled by the last success or by the first failure, whose
\* siblings go on unawaited.  Either way the page loads again.
AckAllDone ==
  LET group == {a \in acks : a.kind = "all"} IN
  /\ acking
  /\ \/ \A a \in group : a.reply = "ok"
     \/ \E a \in group : a.reply = Lost
  /\ acks' = (acks \ group) \cup Ignored(group)
  /\ acking' = FALSE
  /\ Reload(range)
  /\ UNCHANGED <<mounted, range, data, badge, polls, seen, ackedAt>>

-----------------------------------------------------------------------------
(* The badge: every 15 s, whether or not the last poll was answered. *)

RemoveAt(s, i) == SubSeq(s, 1, i - 1) \o SubSeq(s, i + 1, Len(s))

\* What /api/errors counts as unacknowledged today.
Unacknowledged == Cardinality(Unacked(View("24h")))

Poll ==
  /\ Len(polls) < MaxPolls
  /\ polls' = Append(polls, Waiting)
  /\ UNCHANGED <<page, acks, badge, seen, ackedAt, aside>>

ServePoll ==
  /\ \E i \in DOMAIN polls :
       polls[i] = Waiting /\ polls' = [polls EXCEPT ![i] = Unacknowledged]
  /\ UNCHANGED <<page, acks, badge, seen, ackedAt, aside>>

LosePoll ==
  /\ \E i \in DOMAIN polls : polls' = RemoveAt(polls, i)
  /\ UNCHANGED <<page, acks, badge, seen, ackedAt, aside>>

\* Slip: the badge only ever grows.
BadgeGrows(n) == IF n > badge THEN n ELSE badge

Badge(n) == n

Polled ==
  /\ \E i \in DOMAIN polls :
       polls[i] # Waiting /\ badge' = Badge(polls[i]) /\ polls' = RemoveAt(polls, i)
  /\ UNCHANGED <<page, acks, seen, ackedAt, aside>>

Next ==
  \/ Occur
  \/ SetRange \/ ServeLoad \/ Loaded \/ Leave \/ Return
  \/ OnAck \/ OnAckAll \/ ServeAck \/ AckDone \/ AckAllDone
  \/ Poll \/ ServePoll \/ LosePoll \/ Polled

\* The interval fires; of the polls sent again and again one is served, and of
\* the answers one arrives.
Fairness == WF_vars(Poll) /\ SF_vars(ServePoll) /\ SF_vars(Polled)

Spec == Init /\ [][Next]_vars /\ Fairness

-----------------------------------------------------------------------------
\* A page that is loaded shows the selected range as it is on the server, its
\* own acknowledgements included, unless an error has occurred again or an
\* acknowledgement has been left unawaited since it asked.
ErrorsCurrent == Shown /\ loaded /\ acks = {} /\ ~aside => data = View(range)

\* The badge gets to the number of unacknowledged errors of today, however the
\* acknowledgements and polls before were lost or overtaken.
BadgeConverges ==
  \A n \in 0 .. Cardinality(Sigs) :
    Unacknowledged = n ~> badge = n \/ Unacknowledged # n
=============================================================================
