------------------------------ MODULE Dashboard ------------------------------
(***************************************************************************)
(* The web client's pages, each with its part of the server.  The router    *)
(* (web/src/App.tsx) shows one page at a time and pages share no state, so   *)
(* that each is explored by itself: the variables of the others stay as they *)
(* are at first.                                                             *)
(***************************************************************************)
EXTENDS Integers, Sequences, FiniteSets

CONSTANTS
  Checkouts,   \* name -> what FileBrowser's constants are in a checkout of that name
  ErrorLists,  \* name -> what Errors' constants are in an Errors page of that name
  Forms,       \* name -> what Notifications' constants are in a page of that name
  Tags, Selections, FirstSelection, Shows, Limit, LogCap, MaxRows, MaxTicks,  \* the log
  CredNames, MaxLists, MaxTimers,  \* the Credentials page
  MaxFleetPolls,                   \* the session
  Unserved, Unanswered, Waiting, Failed, Lost, Nothing, NoData, NoCfg, NoSecret, NoName

ASSUME CheckoutsAssumption ==
  \A k \in DOMAIN Checkouts :
    /\ Checkouts[k].Paths \cup Checkouts[k].EmptyFolders \subseteq Seq(STRING)
    /\ Checkouts[k].FirstFiles \subseteq Checkouts[k].Paths
    /\ Checkouts[k].Prompted \subseteq STRING

ASSUME LogAssumption ==
  /\ FirstSelection \in Selections /\ Shows \in [Selections -> SUBSET Tags]
  /\ Limit \in Nat /\ LogCap \in Nat \ {0}

ASSUME ErrorListsAssumption ==
  \A k \in DOMAIN ErrorLists :
    IsFiniteSet(ErrorLists[k].Sigs) /\ ErrorLists[k].MaxSeen \in Nat \ {0}

ASSUME FormsAssumption ==
  \A k \in DOMAIN Forms :
    /\ Forms[k].Secrets \subseteq BOOLEAN
    /\ Forms[k].Cooldowns \subseteq Int /\ Forms[k].DefaultCooldown \in Nat \ {0}
    /\ NoCfg \notin Forms[k].Cooldowns \cup {Forms[k].DefaultCooldown}

ASSUME MaxTimersAssumption == MaxTimers \in Nat

ASSUME MarkersAssumption ==
  /\ "ok" \notin {Waiting, Failed} /\ Waiting # Lost
  /\ Unserved # "pushed"

VARIABLES
  onScreen,  \* the page on screen
  mounted, busy, untold,   \* common to several
  path, entries, open, draft, msg, dialog, listings, reads, commits, listed, tree,
  selection, paused, lines, cursor, first, ticks, logged, disturbed,
  range, data, acking, load, loaded, acks, badge, polls, seen, ackedAt, aside,
  cfg, err, chans, cooldown, testing, reloads, writes, late, config,
  creds, target, status, timers, creates, deletes, lists, stored,
  authed, route, session, asking, fleet, trouble

common == <<mounted, busy, untold>>
filesVars == <<path, entries, open, draft, msg, dialog, listings, reads, commits, listed, tree>>
logVars == <<selection, paused, lines, cursor, first, ticks, logged, disturbed>>
errorVars == <<range, data, acking, load, loaded, acks, badge, polls, seen, ackedAt, aside>>
notifVars == <<cfg, err, chans, cooldown, testing, reloads, writes, late, config>>
credVars == <<creds, target, status, timers, creates, deletes, lists, stored>>
loginVars == <<authed, route, session, asking, fleet, trouble>>

vars == <<onScreen, common, filesVars, logVars, errorVars, notifVars, credVars, loginVars>>

-----------------------------------------------------------------------------
Browser(k) == INSTANCE FileBrowser WITH
  Paths <- Checkouts[k].Paths, FirstFiles <- Checkouts[k].FirstFiles,
  EmptyFolders <- Checkouts[k].EmptyFolders, Binary <- Checkouts[k].Binary,
  Prompted <- Checkouts[k].Prompted, MaxDepth <- Checkouts[k].MaxDepth,
  MaxReads <- Checkouts[k].MaxReads, MaxCommits <- Checkouts[k].MaxCommits,
  MaxAbandoned <- Checkouts[k].MaxAbandoned

Log == INSTANCE LogStream

ErrorList(k) == INSTANCE Errors WITH
  Sigs <- ErrorLists[k].Sigs, Old <- ErrorLists[k].Old, MaxSeen <- ErrorLists[k].MaxSeen,
  MaxAcks <- ErrorLists[k].MaxAcks, MaxPolls <- ErrorLists[k].MaxPolls

Notif(k) == INSTANCE Notifications WITH
  Channels <- Forms[k].Channels, Rules <- Forms[k].Rules, Types <- Forms[k].Types,
  Secrets <- Forms[k].Secrets, Cooldowns <- Forms[k].Cooldowns,
  DefaultCooldown <- Forms[k].DefaultCooldown,
  MaxReloads <- Forms[k].MaxReloads, MaxWrites <- Forms[k].MaxWrites

Creds == INSTANCE Credentials WITH Names <- CredNames

Login == INSTANCE Session WITH MaxPolls <- MaxFleetPolls

-----------------------------------------------------------------------------
OnFiles(k) == onScreen = <<"files", k>>
OnLog == onScreen = <<"log">>
OnErrors(k) == onScreen = <<"errors", k>>
OnNotifications(k) == onScreen = <<"notifications", k>>
OnCreds == onScreen = <<"credentials">>
OnLogin == onScreen = <<"login">>

Screens ==
  ({"files"} \X DOMAIN Checkouts) \cup ({"errors"} \X DOMAIN ErrorLists)
    \cup ({"notifications"} \X DOMAIN Forms)
    \cup {<<"log">>, <<"credentials">>, <<"login">>}

\* The name of what a page shows, of anything while it is not on screen.
Of(page, ks) == IF onScreen[1] = page THEN onScreen[2] ELSE CHOOSE k \in ks : TRUE

Init ==
  /\ onScreen \in Screens
  /\ \E k \in DOMAIN Checkouts : k = Of("files", DOMAIN Checkouts) /\ Browser(k)!Init
  /\ Log!Init
  /\ \E k \in DOMAIN ErrorLists : k = Of("errors", DOMAIN ErrorLists) /\ ErrorList(k)!Init
  /\ \E k \in DOMAIN Forms : k = Of("notifications", DOMAIN Forms) /\ Notif(k)!Init
  /\ Creds!Init /\ (OnCreds \/ stored = {})
  /\ Login!Init /\ (OnLogin \/ (route = "other" /\ session))

Files ==
  /\ \E k \in DOMAIN Checkouts : OnFiles(k) /\ Browser(k)!Next
  /\ UNCHANGED <<onScreen, logVars, errorVars, notifVars, credVars, loginVars>>

Logs ==
  /\ OnLog /\ Log!Next
  /\ UNCHANGED <<onScreen, busy, untold, filesVars, errorVars, notifVars, credVars, loginVars>>

ErrorSignatures ==
  /\ \E k \in DOMAIN ErrorLists : OnErrors(k) /\ ErrorList(k)!Next
  /\ UNCHANGED <<onScreen, busy, untold, filesVars, logVars, notifVars, credVars, loginVars>>

Notify ==
  /\ \E k \in DOMAIN Forms : OnNotifications(k) /\ Notif(k)!Next
  /\ UNCHANGED <<onScreen, busy, filesVars, logVars, errorVars, credVars, loginVars>>

CredentialList ==
  /\ OnCreds /\ Creds!Next
  /\ UNCHANGED <<onScreen, untold, filesVars, logVars, errorVars, notifVars, loginVars>>

SignIn ==
  /\ OnLogin /\ Login!Next
  /\ UNCHANGED <<onScreen, common, filesVars, logVars, errorVars, notifVars, credVars>>

Next == Files \/ Logs \/ ErrorSignatures \/ Notify \/ CredentialList \/ SignIn

\* The fairness of LogStream and of Errors, on their pages.
Fairness ==
  /\ WF_logVars(OnLog /\ Log!Tick)
  /\ SF_logVars(OnLog /\ Log!Serve)
  /\ SF_logVars(OnLog /\ Log!Answer)
  /\ WF_errorVars(\E k \in DOMAIN ErrorLists : OnErrors(k) /\ ErrorList(k)!Poll)
  /\ SF_errorVars(\E k \in DOMAIN ErrorLists : OnErrors(k) /\ ErrorList(k)!ServePoll)
  /\ SF_errorVars(\E k \in DOMAIN ErrorLists : OnErrors(k) /\ ErrorList(k)!Polled)

Spec == Init /\ [][Next]_vars /\ Fairness

-----------------------------------------------------------------------------
\* Every variable of the page on screen has its type.
TypeOK ==
  /\ onScreen \in Screens
  /\ \A k \in DOMAIN Checkouts : OnFiles(k) => Browser(k)!TypeOK
  /\ OnLog => Log!TypeOK
  /\ \A k \in DOMAIN ErrorLists : OnErrors(k) => ErrorList(k)!TypeOK
  /\ \A k \in DOMAIN Forms : OnNotifications(k) => Notif(k)!TypeOK
  /\ OnCreds => Creds!TypeOK
  /\ OnLogin => Login!TypeOK

\* FileBrowser.tsx: one commit at a time, and busy tells of it; neither the answer
\* for a directory just left nor one served before a commit stays on display.
Listed == \A k \in DOMAIN Checkouts : OnFiles(k) => Browser(k)!BusyIsLock /\ Browser(k)!Listed

\* useLogStream.ts: the lines are of the selection, each once and in order.
LogShown == OnLog => Log!LinesOfSelection /\ Log!EachRowOnce

Polling == {k \in DOMAIN ErrorLists : ErrorLists[k].MaxPolls > 0}

\* useLogStream.ts: a watched log gets to its last row; AppShell.tsx: the badge
\* gets to the number of unacknowledged errors.
CatchesUp ==
  /\ OnLog => Log!CatchesUp
  /\ \A k \in Polling : OnErrors(k) => ErrorList(k)!BadgeConverges

\* Errors.tsx: a loaded page shows the selected range as the server has it.
ErrorsCurrent == \A k \in DOMAIN ErrorLists : OnErrors(k) => ErrorList(k)!ErrorsCurrent

\* Notifications.tsx: a page at rest shows the store.
CfgCurrent == \A k \in DOMAIN Forms : OnNotifications(k) => Notif(k)!CfgCurrent

\* StatusMessage.tsx: no timer takes an error away.
ErrorStays == Creds!ErrorStays

\* App.tsx: a login ends for a reason of its own.
LoginHolds == Login!LoginHolds
=============================================================================
