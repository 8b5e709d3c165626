---------------------------- MODULE Credentials ----------------------------
(***************************************************************************)
(* The Credentials page (web/src/Credentials.tsx) with the status message   *)
(* of its form (web/src/components/StatusMessage.tsx).  Adding a credential *)
(* locks the form until the answer; the list is then fetched again, and     *)
(* only after that a success is shown, for 4 s.  Meanwhile the form may be  *)
(* used again, so that messages of two attempts meet.                       *)
(* Definitions headed "Slip" are plausible mistakes; nothing uses them.     *)
(***************************************************************************)
EXTENDS Integers, FiniteSets

CONSTANTS
  Names,      \* names a user gives
  MaxLists,   \* bound: listings under way
  MaxTimers,  \* bound: messages shown while an older timer runs
  NoName, Waiting, Lost

VARIABLES
  mounted,
  creds,    \* the list on display
  busy,     \* the form is locked
  target,   \* the credential whose deletion is to be confirmed
  status,   \* the form's message
  timers,   \* timeouts that will clear it
  creates, deletes, lists,   \* calls under way
  stored    \* the server's credentials

page == <<mounted, creds, busy, target, status, timers>>
calls == <<creates, deletes, lists>>
vars == <<page, calls, stored>>

\* Every variable has its type.
TypeOK ==
  /\ mounted \in {"here", "away"} /\ creds \subseteq Names /\ stored \subseteq Names
  /\ busy \in BOOLEAN /\ target \in Names \cup {NoName}
  /\ status \in {"none", "success", "error"} /\ timers \in 0 .. MaxTimers
  /\ \A c \in creates \cup deletes : c.name \in Names /\ c.reply \in {Waiting, Lost, "ok", "error"}
  /\ \A l \in lists : l.announce \in BOOLEAN

-----------------------------------------------------------------------------
(* useStatus. *)

\* Slip: show does not stop the timer of the message before.
TimerForgotten == timers

\* The timers left when a message is shown.
TimersStopped == 0

Show(kind) ==
  /\ status' = kind
  /\ timers' = TimersStopped + (IF kind = "success" THEN 1 ELSE 0)
  /\ timers' <= MaxTimers

\* setTimeout fires.
Expire ==
  /\ timers > 0 /\ timers' = timers - 1
  /\ status' = "none"
  /\ UNCHANGED <<mounted, creds, busy, target, calls, stored>>

-----------------------------------------------------------------------------
(* The page. *)

\* refresh; of two that are alike the first is served before the second is made.
List(announce) ==
  /\ Cardinality(lists) < MaxLists
  /\ [announce |-> announce, reply |-> Waiting] \notin lists
  /\ lists' = lists \cup {[announce |-> announce, reply |-> Waiting]}

Init ==
  /\ mounted = "here" /\ creds = {} /\ busy = FALSE /\ target = NoName
  /\ status = "none" /\ timers = 0
  /\ creates = {} /\ deletes = {}
  /\ lists = {[announce |-> FALSE, reply |-> Waiting]}
  /\ stored \in SUBSET Names

\* Calls that reached the server are carried out all the same, and those that did
\* not are dropped.
Leave ==
  /\ mounted = "here" /\ mounted' = "away"
  /\ creds' = {} /\ busy' = FALSE /\ target' = NoName /\ status' = "none" /\ timers' = 0
  /\ creates' = {} /\ deletes' = {} /\ lists' = {}
  /\ \E done \in SUBSET {c \in creates : c.reply = Waiting},
        gone \in SUBSET {d \in deletes : d.reply = Waiting} :
       stored' = (stored \cup {c.name : c \in done}) \ {d.name : d \in gone}

Return ==
  /\ mounted = "away" /\ mounted' = "here" /\ List(FALSE)
  /\ UNCHANGED <<creds, busy, target, status, timers, creates, deletes, stored>>

\* handleCreate, of a token or a key.
Create ==
  /\ mounted = "here" /\ ~busy
  /\ busy' = TRUE
  /\ \E n \in Names : creates' = creates \cup {[name |-> n, reply |-> Waiting]}
  /\ UNCHANGED <<mounted, creds, target, status, timers, deletes, lists, stored>>

ServeCreate ==
  \E c \in creates, reply \in {"ok", "error", Lost} :
    /\ c.reply = Waiting
    /\ creates' = (creates \ {c}) \cup {[c EXCEPT !.reply = reply]}
    /\ stored' \in CASE reply = "ok" -> {stored \cup {c.name}}
                     [] reply = "error" -> {stored}
                     [] OTHER -> {stored, stored \cup {c.name}}
    /\ UNCHANGED <<page, deletes, lists>>

\* A request that is lost rejects, and the form stays locked.
CreateDone ==
  \E c \in creates :
    /\ c.reply \in {"ok", "error"}
    /\ creates' = creates \ {c}
    /\ busy' = FALSE
    /\ IF c.reply = "ok" THEN List(TRUE) /\ UNCHANGED <<status, timers>>
                         ELSE Show("error") /\ UNCHANGED lists
    /\ UNCHANGED <<mounted, creds, target, deletes, stored>>

\* Delete, then confirm or cancel.
Target ==
  /\ mounted = "here"
  /\ target' \in creds \cup {NoName}
  /\ UNCHANGED <<mounted, creds, busy, status, timers, calls, stored>>

\* handleDelete takes no lock; two deletes of one name that wait are as one.
Confirm ==
  /\ mounted = "here" /\ target \in creds
  /\ target' = NoName
  /\ deletes' = deletes \cup {[name |-> target, reply |-> Waiting]}
  /\ UNCHANGED <<mounted, creds, busy, status, timers, creates, lists, stored>>

ServeDelete ==
  \E d \in deletes, reply \in {"ok", "error", Lost} :
    /\ d.reply = Waiting
    /\ reply = "ok" => d.name \in stored
    /\ deletes' = (deletes \ {d}) \cup {[d EXCEPT !.reply = reply]}
    /\ stored' \in CASE reply = "ok" -> {stored \ {d.name}}
                     [] reply = "error" -> {stored}
                     [] OTHER -> {stored, stored \ {d.name}}
    /\ UNCHANGED <<page, creates, lists>>

DeleteDone ==
  \E d \in deletes :
    /\ d.reply # Waiting
    /\ deletes' = deletes \ {d}
    /\ IF d.reply = "ok" THEN List(FALSE) ELSE UNCHANGED lists
    /\ UNCHANGED <<page, creates, stored>>

\* A server that answers with anything but 200 is shown as an empty list.
ServeList ==
  \E l \in lists, reply \in {stored, {}, Lost} :
    /\ l.reply = Waiting
    /\ lists' = (lists \ {l}) \cup {[l EXCEPT !.reply = reply]}
    /\ UNCHANGED <<page, creates, deletes, stored>>

Listed ==
  \E l \in lists :
    /\ l.reply # Waiting
    /\ lists' = lists \ {l}
    /\ creds' = IF l.reply = Lost THEN creds ELSE l.reply
    /\ IF l.announce /\ l.reply # Lost THEN Show("success") ELSE UNCHANGED <<status, timers>>
    /\ UNCHANGED <<mounted, busy, target, creates, deletes, stored>>

Next ==
  \/ Leave \/ Return \/ Expire
  \/ Create \/ ServeCreate \/ CreateDone
  \/ Target \/ Confirm \/ ServeDelete \/ DeleteDone
  \/ ServeList \/ Listed

Spec == Init /\ [][Next]_vars

-----------------------------------------------------------------------------
\* The message that adding failed stays until another message takes its place:
\* the timer of an earlier success does not take it away.
ErrorStays ==
  [][status = "error" /\ status' = "none" => mounted' = "away"]_vars
=============================================================================
