------------------------------ MODULE Session ------------------------------
(***************************************************************************)
(* Who is signed in, as the web client sees it (web/src/App.tsx, Login.tsx, *)
(* the sign out button of AppShell, and the fleet polls of Overview and     *)
(* ProcessDetail, which end the login when they fail).  Only these two      *)
(* pages poll so; the others go on with a session that has expired.         *)
(* Definitions headed "Slip" are plausible mistakes; nothing uses them.     *)
(***************************************************************************)
EXTENDS Integers, FiniteSets

CONSTANT
  MaxPolls   \* bound: fleet polls under way

VARIABLES
  authed,   \* App's state: "unknown" until getSession has answered
  route,    \* the route's page
  session,  \* the server accepts the cookie
  asking,   \* getSession or login under way: "none", "waiting", or the answer
  fleet,    \* fleet polls under way
  trouble   \* history: since the login a poll failed, the session ended, or the
            \* user signed out

vars == <<authed, route, session, asking, fleet, trouble>>

Routes == {"overview", "detail", "other"}

\* Every variable has its type.
TypeOK ==
  /\ authed \in {"unknown", "yes", "no"} /\ route \in Routes
  /\ session \in BOOLEAN /\ trouble \in BOOLEAN
  /\ asking \in {"none", "waiting", "yes", "no", "failed"}
  /\ fleet \subseteq [number : 1 .. MaxPolls, reply : {"waiting", "ok", "failed"}]

-----------------------------------------------------------------------------
(* The polls of the page on screen. *)

\* Slip: the effect's cleanup leaves the polls alone.
StopForgotten == fleet

\* Polls that are still answered once their page is gone.
Stopped == {}

Unmount == fleet' = Stopped

Numbers == 1 .. MaxPolls \ {p.number : p \in fleet}

\* The interval of Overview or ProcessDetail fires.
Tick ==
  /\ authed = "yes" /\ route # "other"
  /\ \E n \in Numbers : fleet' = fleet \cup {[number |-> n, reply |-> "waiting"]}
  /\ UNCHANGED <<authed, route, session, asking, trouble>>

\* Without a session 401; an answer that is lost or is no JSON throws as well.
ServePoll ==
  /\ \E p \in fleet, reply \in {"ok", "failed"} :
       /\ p.reply = "waiting"
       /\ reply = "ok" => session
       /\ fleet' = (fleet \ {p}) \cup {[p EXCEPT !.reply = reply]}
       /\ trouble' = (trouble \/ (authed = "yes" /\ reply = "failed"))
  /\ UNCHANGED <<authed, route, session, asking>>

LogoutPage == authed' = "no" /\ Unmount

Polled ==
  /\ \E p \in fleet :
       /\ p.reply # "waiting"
       /\ IF p.reply = "failed" THEN LogoutPage ELSE fleet' = fleet \ {p} /\ UNCHANGED authed
  /\ UNCHANGED <<route, session, asking, trouble>>

-----------------------------------------------------------------------------
Init ==
  /\ authed = "unknown" /\ route \in Routes /\ session \in BOOLEAN
  /\ asking = "waiting" /\ fleet = {} /\ trouble = FALSE

\* The hash changes: another page, or the same one of another process.
Navigate ==
  /\ route' \in Routes
  /\ Unmount
  /\ UNCHANGED <<authed, session, asking, trouble>>

\* Login: the button is disabled while it is under way.
Submit ==
  /\ authed = "no" /\ asking = "none"
  /\ asking' = "waiting"
  /\ UNCHANGED <<authed, route, session, fleet, trouble>>

\* getSession, or login with the right or a wrong password.
ServeAsking ==
  /\ asking = "waiting"
  /\ \/ authed = "unknown" /\ asking' \in {IF session THEN "yes" ELSE "no", "failed"}
        /\ UNCHANGED session
     \/ authed = "no" /\ asking' = "yes" /\ session' = TRUE
     \/ authed = "no" /\ asking' = "no" /\ UNCHANGED session
     \/ authed = "no" /\ asking' = "failed" /\ session' \in {session, TRUE}
  /\ UNCHANGED <<authed, route, fleet, trouble>>

\* A call that fails rejects: the page keeps on loading, or signing in.
Asked ==
  /\ asking \in {"yes", "no"}
  /\ authed' = asking /\ asking' = "none"
  /\ trouble' = (asking = "yes" /\ ~session)
  /\ UNCHANGED <<route, session, fleet>>

\* The button of the shell tells the server nothing.
SignOut ==
  /\ authed = "yes" /\ LogoutPage
  /\ trouble' = TRUE
  /\ UNCHANGED <<route, session, asking>>

\* The session times out, or the server restarts.
Expire ==
  /\ session /\ session' = FALSE
  /\ trouble' = TRUE
  /\ UNCHANGED <<authed, route, asking, fleet>>

\* The browser loads the page again.
LoadPage ==
  /\ authed' = "unknown" /\ asking' = "waiting" /\ fleet' = {} /\ trouble' = FALSE
  /\ UNCHANGED <<route, session>>

Next ==
  \/ Tick \/ ServePoll \/ Polled
  \/ Navigate \/ Submit \/ ServeAsking \/ Asked \/ SignOut \/ Expire \/ LoadPage

Spec == Init /\ [][Next]_vars

-----------------------------------------------------------------------------
\* A login ends for a reason of its own: not by a poll of the login before, whose
\* failure comes in after the user has signed in again.
LoginHolds ==
  [][authed = "yes" /\ authed' = "no" => trouble']_vars
=============================================================================
