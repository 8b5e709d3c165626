---------------------------- MODULE PagesProofs ----------------------------
(***************************************************************************)
(* Theorems about Dashboard for any instances of its pages: who is signed   *)
(* in, the Credentials page, the Errors page with the badge, and the        *)
(* Notifications page.  A page moves only while it is on screen, so that    *)
(* its invariant is proved of its own steps.                                *)
(***************************************************************************)
EXTENDS Dashboard, FiniteSetTheorems, SequenceTheorems, TLAPS

-----------------------------------------------------------------------------
(* One page at a time. *)

\* A page stays on screen, and only the page on screen moves.
LEMMA OnePage ==
  ASSUME [Next]_vars
  PROVE  /\ onScreen' = onScreen
         /\ OnLog => [Log!Next]_(Log!vars)
         /\ OnCreds => [Creds!Next]_(Creds!vars)
         /\ [Login!Next]_(Login!vars)
<1> USE DEF OnFiles, OnLog, OnErrors, OnNotifications, OnCreds, OnLogin, common, filesVars, logVars,
            errorVars, notifVars, credVars, loginVars, Log!vars, Log!view, Creds!vars, Creds!page,
            Creds!calls, Login!vars
<1>1. CASE Files
  BY <1>1 DEF Files
<1>2. CASE Logs
  BY <1>2 DEF Logs
<1>3. CASE ErrorSignatures
  BY <1>3 DEF ErrorSignatures
<1>4. CASE Notify
  BY <1>4 DEF Notify
<1>5. CASE CredentialList
  BY <1>5 DEF CredentialList
<1>6. CASE SignIn
  BY <1>6 DEF SignIn
<1>7. CASE UNCHANGED vars
  BY <1>7 DEF vars
<1> QED BY <1>1, <1>2, <1>3, <1>4, <1>5, <1>6, <1>7 DEF Next

LEMMA OneErrorList ==
  ASSUME NEW k, OnErrors(k), [Next]_vars
  PROVE  [ErrorList(k)!Next]_(ErrorList(k)!vars)
<1> USE DEF OnFiles, OnLog, OnErrors, OnNotifications, OnCreds, OnLogin
<1>1. ~Files /\ ~Logs /\ ~Notify /\ ~CredentialList /\ ~SignIn
  BY DEF Files, Logs, Notify, CredentialList, SignIn
<1>2. CASE ErrorSignatures
  <2>1. PICK j \in DOMAIN ErrorLists : OnErrors(j) /\ ErrorList(j)!Next
    BY <1>2 DEF ErrorSignatures
  <2>2. j = k
    BY <2>1
  <2> QED BY <2>1, <2>2
<1>3. CASE UNCHANGED vars
  BY <1>3 DEF vars, errorVars, common, ErrorList!vars, ErrorList!page
<1> QED BY <1>1, <1>2, <1>3 DEF Next

LEMMA OneForm ==
  ASSUME NEW k, OnNotifications(k), [Next]_vars
  PROVE  [Notif(k)!Next]_(Notif(k)!vars)
<1> USE DEF OnFiles, OnLog, OnErrors, OnNotifications, OnCreds, OnLogin
<1>1. ~Files /\ ~Logs /\ ~ErrorSignatures /\ ~CredentialList /\ ~SignIn
  BY DEF Files, Logs, ErrorSignatures, CredentialList, SignIn
<1>2. CASE Notify
  <2>1. PICK j \in DOMAIN Forms : OnNotifications(j) /\ Notif(j)!Next
    BY <1>2 DEF Notify
  <2>2. j = k
    BY <2>1
  <2> QED BY <2>1, <2>2
<1>3. CASE UNCHANGED vars
  BY <1>3 DEF vars, notifVars, common, Notif!vars, Notif!page, Notif!calls
<1> QED BY <1>1, <1>2, <1>3 DEF Next

LEMMA OneBrowser ==
  ASSUME NEW k, OnFiles(k), [Next]_vars
  PROVE  [Browser(k)!Next]_(Browser(k)!vars)
<1> USE DEF OnFiles, OnLog, OnErrors, OnNotifications, OnCreds, OnLogin
<1>1. ~Logs /\ ~ErrorSignatures /\ ~Notify /\ ~CredentialList /\ ~SignIn
  BY DEF Logs, ErrorSignatures, Notify, CredentialList, SignIn
<1>2. CASE Files
  <2>1. PICK j \in DOMAIN Checkouts : OnFiles(j) /\ Browser(j)!Next
    BY <1>2 DEF Files
  <2>2. j = k
    BY <2>1
  <2> QED BY <2>1, <2>2
<1>3. CASE UNCHANGED vars
  BY <1>3 DEF vars, filesVars, common, Browser!vars, Browser!editor, Browser!calls
<1> QED BY <1>1, <1>2, <1>3 DEF Next

\* The page on screen starts as its module says.
LEMMA InitPages ==
  ASSUME Init
  PROVE  /\ Log!Init /\ Creds!Init /\ Login!Init
         /\ \A k : OnFiles(k) => Browser(k)!Init
         /\ \A k : OnErrors(k) => ErrorList(k)!Init
         /\ \A k : OnNotifications(k) => Notif(k)!Init
BY DEF Init, Of, OnFiles, OnErrors, OnNotifications

-----------------------------------------------------------------------------
(* Who is signed in (Session).  The inductive invariant: polls are made while *)
(* somebody is signed in and thrown away with the login, so that a failed one *)
(* is of this login.                                                          *)

PollsOfLogin == authed # "yes" => fleet = {}

AskedBefore == asking # "none" => authed # "yes"

FailureKnown == \A p \in fleet : p.reply = "failed" => trouble

LoginInv == Login!TypeOK /\ PollsOfLogin /\ AskedBefore /\ FailureKnown

LEMMA InitLogin == Login!Init => LoginInv
BY DEF Login!Init, LoginInv, Login!TypeOK, PollsOfLogin, AskedBefore, FailureKnown, Login!Routes

\* What happens to the polls: one more, one answered, one gone.
LEMMA PollStepLogin == LoginInv /\ (Login!Tick \/ Login!ServePoll \/ Login!Polled) => LoginInv'
<1>1. ASSUME LoginInv, Login!Tick PROVE LoginInv'
  <2>1. authed = "yes" /\ UNCHANGED <<authed, route, session, asking, trouble>>
    BY <1>1 DEF Login!Tick
  <2>2. PICK n \in Login!Numbers : fleet' = fleet \cup {[number |-> n, reply |-> "waiting"]}
    BY <1>1 DEF Login!Tick
  <2>3. Login!TypeOK'
    BY <1>1, <2>1, <2>2 DEF LoginInv, Login!TypeOK, Login!Numbers
  <2>4. FailureKnown'
    BY <1>1, <2>1, <2>2 DEF LoginInv, FailureKnown
  <2> QED BY <1>1, <2>1, <2>3, <2>4 DEF LoginInv, PollsOfLogin, AskedBefore
<1>2. ASSUME LoginInv, Login!ServePoll PROVE LoginInv'
  <2>1. PICK p \in fleet, reply \in {"ok", "failed"} :
          /\ fleet' = (fleet \ {p}) \cup {[p EXCEPT !.reply = reply]}
          /\ trouble' = (trouble \/ (authed = "yes" /\ reply = "failed"))
    BY <1>2 DEF Login!ServePoll
  <2>2. UNCHANGED <<authed, route, session, asking>>
    BY <1>2 DEF Login!ServePoll
  <2>3. p \in [number : 1 .. MaxFleetPolls, reply : {"waiting", "ok", "failed"}]
    BY <1>2 DEF LoginInv, Login!TypeOK
  <2>4. authed = "yes"
    BY <1>2, <2>1 DEF LoginInv, PollsOfLogin
  <2>5. /\ [p EXCEPT !.reply = reply] \in [number : 1 .. MaxFleetPolls, reply : {"waiting", "ok", "failed"}]
        /\ [p EXCEPT !.reply = reply].reply = reply
    BY <2>3
  <2>6. Login!TypeOK'
    BY <1>2, <2>1, <2>2, <2>5 DEF LoginInv, Login!TypeOK
  <2>7. FailureKnown'
    BY <1>2, <2>1, <2>4, <2>5 DEF LoginInv, FailureKnown
  <2> QED BY <1>2, <2>2, <2>4, <2>6, <2>7 DEF LoginInv, PollsOfLogin, AskedBefore
<1>3. ASSUME LoginInv, Login!Polled PROVE LoginInv'
  BY <1>3 DEF LoginInv, Login!Polled, Login!LogoutPage, Login!Unmount, Login!Stopped, Login!TypeOK,
              PollsOfLogin, AskedBefore, FailureKnown
<1> QED BY <1>1, <1>2, <1>3

LEMMA LoginStep == LoginInv /\ [Login!Next]_(Login!vars) => LoginInv'
<1> SUFFICES ASSUME LoginInv, [Login!Next]_(Login!vars) PROVE LoginInv'
  OBVIOUS
<1> USE DEF LoginInv, Login!TypeOK, PollsOfLogin, AskedBefore, FailureKnown
<1>1. CASE Login!Tick \/ Login!ServePoll \/ Login!Polled
  BY <1>1, PollStepLogin
<1>2. CASE Login!Navigate
  BY <1>2 DEF Login!Navigate, Login!Unmount, Login!Stopped
<1>3. CASE Login!Submit
  BY <1>3 DEF Login!Submit
<1>4. CASE Login!ServeAsking
  BY <1>4 DEF Login!ServeAsking
<1>5. CASE Login!Asked
  BY <1>5 DEF Login!Asked
<1>6. CASE Login!SignOut
  BY <1>6 DEF Login!SignOut, Login!LogoutPage, Login!Unmount, Login!Stopped
<1>7. CASE Login!Expire
  BY <1>7 DEF Login!Expire
<1>8. CASE Login!LoadPage
  BY <1>8 DEF Login!LoadPage
<1>9. CASE UNCHANGED Login!vars
  BY <1>9 DEF Login!vars
<1> QED BY <1>1, <1>2, <1>3, <1>4, <1>5, <1>6, <1>7, <1>8, <1>9 DEF Login!Next

LEMMA AlwaysLogin == Spec => []LoginInv
<1>1. Init => LoginInv
  BY InitPages, InitLogin
<1>2. LoginInv /\ [Next]_vars => LoginInv'
  BY OnePage, LoginStep
<1> QED BY <1>1, <1>2, PTL DEF Spec

\* A login is ended by the user, by a poll of its own that failed, or because its
\* session has ended: never by an answer that belongs to the login before
\* (the stop flag of the polls in Overview.tsx and ProcessDetail.tsx).
THEOREM DashboardLoginHolds == Spec => LoginHolds
<1>1. LoginInv /\ [Next]_vars => [authed = "yes" /\ authed' = "no" => trouble']_(Login!vars)
  <2> SUFFICES ASSUME LoginInv, Login!Next, authed = "yes", authed' = "no" PROVE trouble'
    BY OnePage DEF Login!vars
  <2> USE DEF LoginInv, AskedBefore, FailureKnown
  <2>1. CASE Login!Polled
    BY <2>1 DEF Login!Polled
  <2>2. CASE Login!SignOut
    BY <2>2 DEF Login!SignOut
  <2>3. CASE Login!Tick \/ Login!ServePoll \/ Login!Navigate \/ Login!Submit \/ Login!ServeAsking
             \/ Login!Expire \/ Login!LoadPage
    BY <2>3 DEF Login!Tick, Login!ServePoll, Login!Navigate, Login!Submit, Login!ServeAsking,
                Login!Expire, Login!LoadPage
  <2>4. CASE Login!Asked
    BY <2>4 DEF Login!Asked
  <2> QED BY <2>1, <2>2, <2>3, <2>4 DEF Login!Next
<1> QED BY <1>1, AlwaysLogin, PTL DEF Spec, LoginHolds, Login!LoginHolds

-----------------------------------------------------------------------------
(* The Credentials page: its types, and no timer runs while an error is shown. *)

NoTimerOnError == timers \in 0 .. MaxTimers /\ (status = "error" => timers = 0)

\* A message is shown without the timer of the one before.
LEMMA ShowIsFresh ==
  ASSUME NEW kind \in {"success", "error"}, Creds!Show(kind)
  PROVE  NoTimerOnError' /\ status' = kind
BY DEF Creds!Show, Creds!TimersStopped, NoTimerOnError

\* The steps that leave the message and its timer alone.
LEMMA Aside ==
  Creds!Return \/ Creds!Create \/ Creds!ServeCreate \/ Creds!Target \/ Creds!Confirm
    \/ Creds!ServeDelete \/ Creds!DeleteDone \/ Creds!ServeList
    => UNCHANGED <<status, timers>>
BY DEF Creds!Return, Creds!Create, Creds!ServeCreate, Creds!Target, Creds!Confirm,
       Creds!ServeDelete, Creds!DeleteDone, Creds!ServeList, Creds!page

LEMMA InitNoTimer == Creds!Init => NoTimerOnError
BY MaxTimersAssumption DEF Creds!Init, NoTimerOnError

\* What each step does to both: the invariant, and the property.
LEMMA StepKeepsError ==
  ASSUME NoTimerOnError, [Creds!Next]_(Creds!vars)
  PROVE  /\ NoTimerOnError'
         /\ status = "error" /\ status' = "none" => mounted' = "away"
<1> USE MaxTimersAssumption
<1>1. CASE Creds!Return \/ Creds!Create \/ Creds!ServeCreate \/ Creds!Target \/ Creds!Confirm
           \/ Creds!ServeDelete \/ Creds!DeleteDone \/ Creds!ServeList
  BY <1>1, Aside DEF NoTimerOnError
<1>2. CASE Creds!Leave
  BY <1>2 DEF Creds!Leave, NoTimerOnError
<1>3. CASE Creds!Expire
  BY <1>3 DEF Creds!Expire, NoTimerOnError
<1>4. CASE Creds!CreateDone
  <2>1. Creds!Show("error") \/ UNCHANGED <<status, timers>>
    BY <1>4 DEF Creds!CreateDone
  <2> QED BY <2>1, ShowIsFresh DEF NoTimerOnError
<1>5. CASE Creds!Listed
  <2>1. Creds!Show("success") \/ UNCHANGED <<status, timers>>
    BY <1>5 DEF Creds!Listed
  <2> QED BY <2>1, ShowIsFresh DEF NoTimerOnError
<1>6. CASE UNCHANGED Creds!vars
  BY <1>6 DEF Creds!vars, Creds!page, NoTimerOnError
<1> QED BY <1>1, <1>2, <1>3, <1>4, <1>5, <1>6 DEF Creds!Next

\* Away from its page the message stays as it is.
LEMMA MessageStep ==
  ASSUME NoTimerOnError, [Next]_vars
  PROVE  /\ NoTimerOnError'
         /\ [status = "error" /\ status' = "none" => mounted' = "away"]_(Creds!vars)
<1>1. CASE CredentialList
  BY <1>1, OnePage, StepKeepsError DEF CredentialList
<1>2. CASE ~CredentialList
  <2>1. UNCHANGED credVars
    BY <1>2 DEF Next, Files, Logs, ErrorSignatures, Notify, SignIn, vars
  <2> QED BY <2>1 DEF credVars, NoTimerOnError
<1> QED BY <1>1, <1>2

LEMMA AlwaysNoTimer == Spec => []NoTimerOnError
<1>1. Init => NoTimerOnError
  BY InitPages, InitNoTimer
<1>2. NoTimerOnError /\ [Next]_vars => NoTimerOnError'
  BY MessageStep
<1> QED BY <1>1, <1>2, PTL DEF Spec

\* The message that adding failed stays until another one takes its place or the
\* page is left, however many attempts and lists are under way: show stops the
\* timer of an earlier success (StatusMessage.tsx).
THEOREM DashboardErrorStays == Spec => ErrorStays
<1>1. NoTimerOnError /\ [Next]_vars
        => [status = "error" /\ status' = "none" => mounted' = "away"]_(Creds!vars)
  BY MessageStep
<1> QED BY <1>1, AlwaysNoTimer, PTL DEF Spec, ErrorStays, Creds!ErrorStays

-----------------------------------------------------------------------------
(* Calls in the order they were made. *)

\* Two sequences, one after the other.
LEMMA Joined ==
  ASSUME NEW S, NEW a \in Seq(S), NEW b \in Seq(S)
  PROVE  /\ a \o b \in Seq(S) /\ Len(a \o b) = Len(a) + Len(b)
         /\ \A i \in 1 .. Len(a) : (a \o b)[i] = a[i]
         /\ \A i \in 1 .. Len(b) : (a \o b)[Len(a) + i] = b[i]
OBVIOUS

\* What is left when one is answered or lost.
LEMMA Removed ==
  ASSUME NEW S, NEW s \in Seq(S), NEW i \in 1 .. Len(s)
  PROVE  LET r == SubSeq(s, 1, i - 1) \o SubSeq(s, i + 1, Len(s)) IN
         /\ r \in Seq(S) /\ Len(r) = Len(s) - 1
         /\ \A j \in 1 .. Len(s) - 1 : r[j] = IF j < i THEN s[j] ELSE s[j + 1]
<1> DEFINE a == SubSeq(s, 1, i - 1)
           b == SubSeq(s, i + 1, Len(s))
           r == a \o b
<1>1. Len(s) \in Nat /\ i \in Int /\ 1 <= i /\ i <= Len(s)
  OBVIOUS
<1>2. a \in Seq(S) /\ Len(a) = i - 1 /\ \A j \in 1 .. i - 1 : a[j] = s[j]
  OBVIOUS
<1>3. b \in Seq(S) /\ Len(b) = Len(s) - i /\ \A j \in 1 .. Len(s) - i : b[j] = s[i + j]
  OBVIOUS
<1> HIDE DEF a, b
<1>4. r \in Seq(S) /\ Len(r) = Len(a) + Len(b)
  BY <1>2, <1>3, Joined
<1>5. \A j \in 1 .. Len(a) : r[j] = a[j]
  BY <1>2, <1>3, Joined
<1>6. \A j \in 1 .. Len(b) : r[Len(a) + j] = b[j]
  BY <1>2, <1>3, Joined
<1> HIDE DEF r
<1>7. r \in Seq(S) /\ Len(r) = Len(s) - 1
  BY <1>1, <1>2, <1>3, <1>4
<1>8. ASSUME NEW j \in 1 .. Len(s) - 1 PROVE r[j] = IF j < i THEN s[j] ELSE s[j + 1]
  <2>1. CASE j < i
    BY <1>1, <1>2, <1>5, <2>1
  <2>2. CASE j >= i
    <3>1. j - (i - 1) \in 1 .. Len(b) /\ Len(a) + (j - (i - 1)) = j
      BY <1>1, <1>2, <1>3, <2>2
    <3>2. r[j] = b[j - (i - 1)]
      BY <1>6, <3>1
    <3>3. i + (j - (i - 1)) = j + 1 /\ Len(b) = Len(s) - i
      BY <1>1, <1>3
    <3>4. b[j - (i - 1)] = s[j + 1]
      BY <1>3, <3>1, <3>3
    <3> QED BY <2>2, <3>2, <3>4
  <2> QED BY <1>1, <2>1, <2>2
<1> QED BY <1>7, <1>8 DEF r, a, b

-----------------------------------------------------------------------------
(* The Errors page.  Of a server whose change the page does not follow it     *)
(* says nothing; otherwise an acknowledgement that was served and is followed *)
(* by a reload is still to be answered, or the page and what it loads are as  *)
(* the server has it.                                                         *)

Views(k) ==
  {v \in [range : {"24h", "7d"}, sigs : SUBSET ErrorLists[k].Sigs, acked : SUBSET ErrorLists[k].Sigs] :
    v.acked \subseteq v.sigs}

AckCalls(k) ==
  [sig : ErrorLists[k].Sigs, to : BOOLEAN, kind : {"one", "all", "ignored"}, reply : {Waiting, Lost, "ok"}]

Calls(k) ==
  /\ data \in {NoData} \cup Views(k)
  /\ load \subseteq [range : {"24h", "7d"}, live : {TRUE}, reply : {Waiting, Lost} \cup Views(k)]
  /\ acks \subseteq AckCalls(k)
  /\ polls \in Seq({Waiting} \cup 0 .. Cardinality(ErrorLists[k].Sigs))

\* An acknowledgement after whose answer the page loads again.
Reloads(a) == a.reply # Waiting /\ (a.kind = "all" \/ a.reply = "ok")

Quiet == ~aside /\ \A a \in acks : ~Reloads(a)

LoadsSelected == \A l \in load : l.range = range

Current(k) ==
  Quiet =>
    /\ \A l \in load : l.reply \in {Waiting, Lost, ErrorList(k)!View(range)}
    /\ loaded => data = ErrorList(k)!View(range)

ErrorsInv(k) == ErrorList(k)!TypeOK /\ Calls(k) /\ LoadsSelected /\ Current(k)

LEMMA SameCardinality ==
  ASSUME NEW k, NEW S
  PROVE  ErrorList(k)!Cardinality(S) = Cardinality(S)
BY DEF ErrorList!Cardinality, Cardinality

LEMMA ViewsOfServer ==
  ASSUME NEW k \in DOMAIN ErrorLists, NEW r \in {"24h", "7d"}
  PROVE  /\ ErrorList(k)!View(r) \in Views(k)
         /\ ErrorList(k)!Unacknowledged \in 0 .. Cardinality(ErrorLists[k].Sigs)
<1>1. ErrorList(k)!View(r) \in Views(k)
  BY DEF ErrorList!View, ErrorList!InRange, Views
<1>2. ErrorList(k)!Unacked(ErrorList(k)!View("24h")) \subseteq ErrorLists[k].Sigs
  BY DEF ErrorList!Unacked, ErrorList!View, ErrorList!InRange
<1>3. IsFiniteSet(ErrorLists[k].Sigs)
  BY ErrorListsAssumption
<1> DEFINE U == ErrorList(k)!Unacked(ErrorList(k)!View("24h"))
           S == ErrorLists[k].Sigs
<1>4. ErrorList(k)!Unacknowledged = Cardinality(U)
  BY SameCardinality DEF ErrorList!Unacknowledged
<1>5. U \subseteq S /\ IsFiniteSet(S)
  BY <1>2, <1>3
<1> HIDE DEF U, S
<1>6. Cardinality(U) \in Nat /\ Cardinality(S) \in Nat /\ Cardinality(U) <= Cardinality(S)
  BY <1>5, FS_Subset, FS_CardinalityType
<1>7. Cardinality(U) \in 0 .. Cardinality(S)
  BY <1>6
<1> QED BY <1>1, <1>4, <1>7 DEF S

LEMMA InitErrors ==
  ASSUME NEW k \in DOMAIN ErrorLists, ErrorList(k)!Init
  PROVE  ErrorsInv(k)
<1> USE DEF ErrorList!Init, ErrorList!Ask
<1>1. Cardinality(ErrorLists[k].Sigs) \in Nat /\ ErrorLists[k].MaxSeen \in Nat \ {0}
  BY ErrorListsAssumption, FS_CardinalityType
<1>2. ErrorList(k)!TypeOK
  <2>1. badge \in 0 .. Cardinality(ErrorLists[k].Sigs)
    BY <1>1
  <2>2. /\ seen \in [ErrorLists[k].Sigs -> 0 .. ErrorLists[k].MaxSeen]
        /\ ackedAt \in [ErrorLists[k].Sigs -> -1 .. ErrorLists[k].MaxSeen]
    BY <1>1
  <2> QED BY <2>1, <2>2, SameCardinality DEF ErrorList!TypeOK, ErrorList!Ranges
<1>3. Calls(k)
  BY <1>1 DEF Calls
<1>4. LoadsSelected /\ Current(k)
  BY DEF LoadsSelected, Current
<1> QED BY <1>2, <1>3, <1>4 DEF ErrorsInv

\* The effect runs again: what it asks for is answered with a view to come.
LEMMA ReloadErrors ==
  ASSUME NEW k \in DOMAIN ErrorLists, range' \in {"24h", "7d"}, ErrorList(k)!Reload(range')
  PROVE  /\ load' \subseteq [range : {"24h", "7d"}, live : {TRUE}, reply : {Waiting, Lost} \cup Views(k)]
         /\ loaded' \in BOOLEAN /\ aside' \in BOOLEAN
         /\ LoadsSelected' /\ Current(k)'
<1>1. load' = {[range |-> range', live |-> TRUE, reply |-> Waiting]} /\ loaded' = FALSE /\ aside' = FALSE
  BY DEF ErrorList!Reload, ErrorList!Superseded, ErrorList!Ask
<1>2. \A l \in load' : l.range = range' /\ l.reply = Waiting
  BY <1>1
<1>3. LoadsSelected' /\ Current(k)'
  BY <1>1, <1>2 DEF LoadsSelected, Current
<1>4. [range |-> range', live |-> TRUE, reply |-> Waiting]
        \in [range : {"24h", "7d"}, live : {TRUE}, reply : {Waiting, Lost} \cup Views(k)]
  OBVIOUS
<1> QED BY <1>1, <1>3, <1>4

\* Nothing but the acknowledgements changes, and none of them is answered.
LEMMA AcksKeepCurrent ==
  ASSUME NEW k \in DOMAIN ErrorLists, LoadsSelected, Current(k),
         UNCHANGED <<range, data, load, loaded, seen, ackedAt, aside>>,
         \A a \in acks : Reloads(a) => a \in acks'
  PROVE  LoadsSelected' /\ Current(k)'
<1>1. ErrorList(k)!View(range)' = ErrorList(k)!View(range)
  BY DEF ErrorList!View, ErrorList!InRange, ErrorList!Acked
<1>2. Quiet' => Quiet
  BY DEF Quiet, Reloads
<1> QED BY <1>1, <1>2 DEF LoadsSelected, Current

\* Acknowledgements as they are made, and those that nobody awaits any more.
LEMMA AcksTyped ==
  ASSUME NEW k \in DOMAIN ErrorLists
  PROVE  /\ \A a \in AckCalls(k) :
              a.sig \in ErrorLists[k].Sigs /\ a.to \in BOOLEAN /\ a.kind \in {"one", "all", "ignored"}
         /\ \A s \in ErrorLists[k].Sigs, to \in BOOLEAN, kind \in {"one", "all"} :
              ErrorList(k)!Ack(s, to, kind) \in AckCalls(k)
         /\ \A as \in SUBSET AckCalls(k) : ErrorList(k)!Ignored(as) \subseteq AckCalls(k)
<1>1. ASSUME NEW as \in SUBSET AckCalls(k), NEW b \in ErrorList(k)!Ignored(as)
      PROVE  b \in AckCalls(k)
  <2>1. PICK a \in as : b = [a EXCEPT !.kind = "ignored"]
    BY <1>1 DEF ErrorList!Ignored
  <2>2. a \in AckCalls(k)
    OBVIOUS
  <2> QED BY <2>1, <2>2 DEF AckCalls
<1> QED BY <1>1 DEF AckCalls, ErrorList!Ack

\* The types of what each step changes: the page with its loads, ...
LEMMA PageTypesStep ==
  ASSUME NEW k \in DOMAIN ErrorLists, ErrorsInv(k),
         \/ ErrorList(k)!SetRange \/ ErrorList(k)!ServeLoad \/ ErrorList(k)!Loaded
         \/ ErrorList(k)!Leave \/ ErrorList(k)!Return
  PROVE  ErrorList(k)!TypeOK' /\ Calls(k)'
<1> USE DEF ErrorsInv, ErrorList!TypeOK, Calls
<1>1. CASE ErrorList(k)!SetRange
  <2>1. range' \in {"24h", "7d"} /\ ErrorList(k)!Reload(range')
    BY <1>1 DEF ErrorList!SetRange, ErrorList!Ranges
  <2>2. UNCHANGED <<mounted, data, acking, acks, badge, polls, seen, ackedAt>>
    BY <1>1 DEF ErrorList!SetRange
  <2> QED BY <2>1, <2>2, ReloadErrors DEF ErrorList!Ranges
<1>2. CASE ErrorList(k)!ServeLoad
  <2>1. PICK l \in load, lost \in BOOLEAN :
          load' = (load \ {l}) \cup
                    {[l EXCEPT !.reply = IF lost THEN Lost ELSE ErrorList(k)!View(l.range)]}
    BY <1>2 DEF ErrorList!ServeLoad
  <2>2. l \in [range : {"24h", "7d"}, live : {TRUE}, reply : {Waiting, Lost} \cup Views(k)]
    OBVIOUS
  <2>3. ErrorList(k)!View(l.range) \in Views(k)
    BY <2>2, ViewsOfServer
  <2>4. [l EXCEPT !.reply = IF lost THEN Lost ELSE ErrorList(k)!View(l.range)]
          \in [range : {"24h", "7d"}, live : {TRUE}, reply : {Waiting, Lost} \cup Views(k)]
    BY <2>2, <2>3
  <2>5. load' \subseteq [range : {"24h", "7d"}, live : {TRUE}, reply : {Waiting, Lost} \cup Views(k)]
    BY <2>1, <2>4
  <2> QED BY <1>2, <2>5 DEF ErrorList!ServeLoad
<1>3. CASE ErrorList(k)!Loaded
  <2>1. PICK l \in load :
          /\ l.reply # Waiting /\ load' = load \ {l}
          /\ data' = IF l.reply = Lost THEN data ELSE l.reply
          /\ loaded' = (l.reply # Lost)
    BY <1>3 DEF ErrorList!Loaded
  <2>2. data' \in {NoData} \cup Views(k) /\ loaded' \in BOOLEAN
    BY <2>1
  <2>3. data' # NoData => data'.range \in ErrorList(k)!Ranges /\ data'.acked \subseteq data'.sigs
    BY <2>2 DEF Views, ErrorList!Ranges
  <2> QED BY <1>3, <2>1, <2>2, <2>3 DEF ErrorList!Loaded
<1>4. CASE ErrorList(k)!Leave
  <2>1. acks' \subseteq AckCalls(k)
    BY <1>4, AcksTyped DEF ErrorList!Leave
  <2> QED BY <1>4, <2>1, AcksTyped DEF ErrorList!Leave, ErrorList!Ranges
<1>5. CASE ErrorList(k)!Return
  <2>1. range' \in {"24h", "7d"} /\ ErrorList(k)!Reload(range')
    BY <1>5 DEF ErrorList!Return, ErrorList!Ranges
  <2> QED BY <1>5, <2>1, ReloadErrors DEF ErrorList!Return
<1> QED BY <1>1, <1>2, <1>3, <1>4, <1>5

\* ... the acknowledgements, ...
LEMMA AckTypesStep ==
  ASSUME NEW k \in DOMAIN ErrorLists, ErrorsInv(k),
         \/ ErrorList(k)!Occur \/ ErrorList(k)!OnAck \/ ErrorList(k)!OnAckAll
         \/ ErrorList(k)!ServeAck \/ ErrorList(k)!AckDone \/ ErrorList(k)!AckAllDone
  PROVE  ErrorList(k)!TypeOK' /\ Calls(k)'
<1> USE DEF ErrorsInv, ErrorList!TypeOK, Calls
<1>1. CASE ErrorList(k)!Occur
  <2>1. PICK s \in ErrorLists[k].Sigs :
          /\ seen[s] < ErrorLists[k].MaxSeen /\ seen' = [seen EXCEPT ![s] = @ + 1]
          /\ ackedAt' = ackedAt \/ ackedAt' = [ackedAt EXCEPT ![s] = seen'[s]]
    BY <1>1 DEF ErrorList!Occur
  <2>2. seen[s] \in 0 .. ErrorLists[k].MaxSeen /\ ErrorLists[k].MaxSeen \in Nat
    BY ErrorListsAssumption
  <2>3. seen[s] + 1 \in 0 .. ErrorLists[k].MaxSeen
    BY <2>1, <2>2
  <2>4. seen' \in [ErrorLists[k].Sigs -> 0 .. ErrorLists[k].MaxSeen]
    BY <2>1, <2>3
  <2>5. seen'[s] \in -1 .. ErrorLists[k].MaxSeen
    BY <2>2, <2>4
  <2>6. ackedAt' \in [ErrorLists[k].Sigs -> -1 .. ErrorLists[k].MaxSeen]
    BY <2>1, <2>5
  <2> QED BY <1>1, <2>4, <2>6 DEF ErrorList!Occur, ErrorList!page
<1>2. CASE ErrorList(k)!OnAck
  <2>1. data \in Views(k)
    BY <1>2 DEF ErrorList!OnAck, ErrorList!Shown
  <2>2. PICK s \in data.sigs : acks' = acks \cup {ErrorList(k)!Ack(s, s \notin data.acked, "one")}
    BY <1>2 DEF ErrorList!OnAck
  <2>3. acks' \subseteq AckCalls(k)
    BY <2>1, <2>2, AcksTyped DEF Views
  <2> QED BY <1>2, <2>3, AcksTyped DEF ErrorList!OnAck, ErrorList!page
<1>3. CASE ErrorList(k)!OnAckAll
  <2>1. data \in Views(k)
    BY <1>3 DEF ErrorList!OnAckAll, ErrorList!Shown
  <2>2. acks' = acks \cup {ErrorList(k)!Ack(s, TRUE, "all") : s \in ErrorList(k)!Unacked(data)}
    BY <1>3 DEF ErrorList!OnAckAll
  <2>3. ErrorList(k)!Unacked(data) \subseteq ErrorLists[k].Sigs
    BY <2>1 DEF ErrorList!Unacked, Views
  <2>4. acks' \subseteq AckCalls(k)
    BY <2>2, <2>3, AcksTyped
  <2> QED BY <1>3, <2>4, AcksTyped DEF ErrorList!OnAckAll
<1>4. CASE ErrorList(k)!ServeAck
  <2>1. PICK a \in acks, reply \in {"ok", Lost} :
          /\ ackedAt' \in {[ackedAt EXCEPT ![a.sig] = IF a.to THEN seen[a.sig] ELSE -1]}
                            \cup IF reply = Lost THEN {ackedAt} ELSE {}
          /\ acks' = (acks \ {a}) \cup IF a.kind = "ignored" THEN {} ELSE {[a EXCEPT !.reply = reply]}
    BY <1>4 DEF ErrorList!ServeAck
  <2>2. aside' \in BOOLEAN
    BY <1>4 DEF ErrorList!ServeAck
  <2>3. a \in AckCalls(k)
    OBVIOUS
  <2>8. a.sig \in ErrorLists[k].Sigs /\ [a EXCEPT !.reply = reply] \in AckCalls(k)
    BY <2>3 DEF AckCalls
  <2>4. acks' \subseteq AckCalls(k)
    BY <2>1, <2>8
  <2>5. seen[a.sig] \in 0 .. ErrorLists[k].MaxSeen /\ ErrorLists[k].MaxSeen \in Nat
    BY <2>8, ErrorListsAssumption
  <2>6. (IF a.to THEN seen[a.sig] ELSE -1) \in -1 .. ErrorLists[k].MaxSeen
    BY <2>5
  <2>7. ackedAt' \in [ErrorLists[k].Sigs -> -1 .. ErrorLists[k].MaxSeen]
    BY <2>1, <2>6
  <2> QED BY AcksTyped, <1>4, <2>2, <2>4, <2>7 DEF ErrorList!ServeAck, ErrorList!page
<1>5. CASE ErrorList(k)!AckDone
  <2>1. acks' \subseteq acks /\ UNCHANGED <<mounted, range, data, acking, badge, polls, seen, ackedAt>>
    BY <1>5 DEF ErrorList!AckDone
  <2>2. ErrorList(k)!Reload(range') \/ UNCHANGED <<load, loaded, aside>>
    BY <1>5, <2>1 DEF ErrorList!AckDone, ErrorList!ReloadAfterAck
  <2> QED BY <2>1, <2>2, ReloadErrors DEF ErrorList!Ranges
<1>6. CASE ErrorList(k)!AckAllDone
  <2>1. ErrorList(k)!Reload(range') /\ acking' = FALSE
        /\ UNCHANGED <<mounted, range, data, badge, polls, seen, ackedAt>>
    BY <1>6 DEF ErrorList!AckAllDone
  <2>2. acks' \subseteq AckCalls(k)
    BY <1>6, AcksTyped DEF ErrorList!AckAllDone
  <2> QED BY AcksTyped, <2>1, <2>2, ReloadErrors DEF ErrorList!Ranges
<1> QED BY <1>1, <1>2, <1>3, <1>4, <1>5, <1>6

\* ... and the badge, of whose polls one is gone or answered.
LEMMA Shorter ==
  ASSUME NEW k, NEW S, NEW s \in Seq(S), NEW i \in DOMAIN s
  PROVE  ErrorList(k)!RemoveAt(s, i) \in Seq(S)
BY Removed DEF ErrorList!RemoveAt

LEMMA BadgeTypesStep ==
  ASSUME NEW k \in DOMAIN ErrorLists, ErrorsInv(k),
         ErrorList(k)!Poll \/ ErrorList(k)!ServePoll \/ ErrorList(k)!LosePoll \/ ErrorList(k)!Polled
  PROVE  /\ ErrorList(k)!TypeOK' /\ Calls(k)'
         /\ UNCHANGED <<mounted, range, data, acking, load, loaded, acks, seen, ackedAt, aside>>
<1> DEFINE Answers == {Waiting} \cup 0 .. Cardinality(ErrorLists[k].Sigs)
<1> USE DEF ErrorsInv, Calls
<1>1. UNCHANGED <<mounted, range, data, acking, load, loaded, acks, seen, ackedAt, aside>>
  BY DEF ErrorList!Poll, ErrorList!ServePoll, ErrorList!LosePoll, ErrorList!Polled, ErrorList!page
<1>2. polls' \in Seq(Answers) /\ badge' \in 0 .. Cardinality(ErrorLists[k].Sigs)
  <2>0. badge \in 0 .. Cardinality(ErrorLists[k].Sigs)
    BY SameCardinality DEF ErrorList!TypeOK
  <2>1. CASE ErrorList(k)!Poll
    BY <2>0, <2>1 DEF ErrorList!Poll
  <2>2. CASE ErrorList(k)!ServePoll
    BY <2>0, <2>2, ViewsOfServer DEF ErrorList!ServePoll
  <2>3. CASE ErrorList(k)!LosePoll
    BY <2>0, <2>3, Shorter DEF ErrorList!LosePoll
  <2>4. CASE ErrorList(k)!Polled
    BY <2>0, <2>4, Shorter DEF ErrorList!Polled, ErrorList!Badge
  <2> QED BY <2>1, <2>2, <2>3, <2>4
<1> QED BY <1>1, <1>2, SameCardinality DEF ErrorList!TypeOK

\* An acknowledgement is served: the page will load again, or need not follow.
LEMMA ServeAckKeepsCurrent ==
  ASSUME NEW k \in DOMAIN ErrorLists, ErrorsInv(k), ErrorList(k)!ServeAck
  PROVE  LoadsSelected' /\ Current(k)'
<1>1. PICK a \in acks, reply \in {"ok", Lost} :
        /\ a.reply = Waiting
        /\ acks' = (acks \ {a}) \cup IF a.kind = "ignored" THEN {} ELSE {[a EXCEPT !.reply = reply]}
        /\ aside' = (aside \/ (ackedAt' # ackedAt /\ (a.kind = "ignored" \/ (a.kind = "one" /\ reply = Lost))))
  BY DEF ErrorList!ServeAck
<1>2. UNCHANGED <<range, data, load, loaded, seen>>
  BY DEF ErrorList!ServeAck, ErrorList!page
<1>3. a \in AckCalls(k)
  BY DEF ErrorsInv, Calls
<1>4. aside \in BOOLEAN
  BY DEF ErrorsInv, ErrorList!TypeOK
<1>5. CASE ackedAt' = ackedAt
  <2>1. aside' = aside
    BY <1>1, <1>4, <1>5
  <2>2. \A b \in acks : Reloads(b) => b \in acks'
    BY <1>1 DEF Reloads
  <2> QED BY <1>2, <1>5, <2>1, <2>2, AcksKeepCurrent DEF ErrorsInv
<1>6. CASE ackedAt' # ackedAt
  <2>1. ASSUME ~aside' PROVE ~Quiet'
    <3>1. a.kind \in {"one", "all"} /\ (a.kind = "one" => reply = "ok")
      BY <1>1, <1>3, <1>6, <2>1 DEF AckCalls
    <3> DEFINE b == [a EXCEPT !.reply = reply]
    <3>2. b.reply = reply /\ b.kind = a.kind /\ b \in acks'
      BY <1>1, <1>3, <3>1 DEF AckCalls
    <3>3. reply # Waiting
      BY MarkersAssumption
    <3>4. Reloads(b)
      BY <3>1, <3>2, <3>3 DEF Reloads
    <3> HIDE DEF b
    <3>5. \E c \in acks' : Reloads(c)
      BY <3>2, <3>4
    <3> QED BY <3>5 DEF Quiet, Reloads
  <2>2. ~Quiet'
    BY <2>1 DEF Quiet
  <2> QED BY <1>2, <2>2 DEF ErrorsInv, LoadsSelected, Current
<1> QED BY <1>5, <1>6

LEMMA CurrentStep ==
  ASSUME NEW k \in DOMAIN ErrorLists, ErrorsInv(k), ErrorList(k)!Next
  PROVE  LoadsSelected' /\ Current(k)'
<1> USE DEF ErrorsInv
<1>0. range \in {"24h", "7d"}
  BY DEF ErrorList!TypeOK, ErrorList!Ranges
<1>1. CASE ErrorList(k)!Occur
  BY <1>1 DEF ErrorList!Occur, ErrorList!page, LoadsSelected, Current, Quiet
<1>2. CASE ErrorList(k)!SetRange
  BY <1>2, ReloadErrors DEF ErrorList!SetRange, ErrorList!Ranges
<1>3. CASE ErrorList(k)!ServeLoad
  <2>1. PICK l \in load, lost \in BOOLEAN :
          load' = (load \ {l}) \cup
                    {[l EXCEPT !.reply = IF lost THEN Lost ELSE ErrorList(k)!View(l.range)]}
    BY <1>3 DEF ErrorList!ServeLoad
  <2>2. UNCHANGED <<range, data, loaded, acks, seen, ackedAt, aside>>
    BY <1>3 DEF ErrorList!ServeLoad
  <2>3. ErrorList(k)!View(range)' = ErrorList(k)!View(range) /\ Quiet' = Quiet
    BY <2>2 DEF ErrorList!View, ErrorList!InRange, ErrorList!Acked, Quiet, Reloads
  <2>4. l.range = range /\ l \in [range : {"24h", "7d"}, live : {TRUE}, reply : {Waiting, Lost} \cup Views(k)]
    BY DEF LoadsSelected, Calls
  <2> DEFINE m == [l EXCEPT !.reply = IF lost THEN Lost ELSE ErrorList(k)!View(l.range)]
  <2>5. m.range = range /\ m.reply \in {Lost, ErrorList(k)!View(range)}
    BY <2>4
  <2>6. load' = (load \ {l}) \cup {m}
    BY <2>1
  <2> HIDE DEF m
  <2> QED BY <2>2, <2>3, <2>5, <2>6 DEF LoadsSelected, Current
<1>4. CASE ErrorList(k)!Loaded
  <2>1. PICK l \in load :
          /\ l.reply # Waiting /\ load' = load \ {l}
          /\ data' = IF l.reply = Lost THEN data ELSE l.reply
          /\ loaded' = (l.reply # Lost)
    BY <1>4 DEF ErrorList!Loaded
  <2>2. UNCHANGED <<range, acks, seen, ackedAt, aside>>
    BY <1>4 DEF ErrorList!Loaded
  <2>3. ErrorList(k)!View(range)' = ErrorList(k)!View(range) /\ Quiet' = Quiet
    BY <2>2 DEF ErrorList!View, ErrorList!InRange, ErrorList!Acked, Quiet, Reloads
  <2> QED BY <2>1, <2>2, <2>3 DEF LoadsSelected, Current
<1>5. CASE ErrorList(k)!Leave
  BY <1>5 DEF ErrorList!Leave, LoadsSelected, Current
<1>6. CASE ErrorList(k)!Return
  BY <1>0, <1>6, ReloadErrors DEF ErrorList!Return
<1>7. CASE ErrorList(k)!OnAck
  BY <1>7, AcksKeepCurrent DEF ErrorList!OnAck, ErrorList!page
<1>8. CASE ErrorList(k)!OnAckAll
  BY <1>8, AcksKeepCurrent DEF ErrorList!OnAckAll
<1>9. CASE ErrorList(k)!ServeAck
  BY <1>9, ServeAckKeepsCurrent
<1>10. CASE ErrorList(k)!AckDone
  <2>1. PICK a \in acks :
          /\ a.kind = "one" /\ acks' = acks \ {a}
          /\ IF a.reply = "ok" THEN ErrorList(k)!ReloadAfterAck ELSE UNCHANGED <<load, loaded, aside>>
    BY <1>10 DEF ErrorList!AckDone
  <2>2. UNCHANGED <<range, data, seen, ackedAt>>
    BY <1>10 DEF ErrorList!AckDone
  <2>3. CASE a.reply = "ok"
    BY <1>0, <2>1, <2>2, <2>3, ReloadErrors DEF ErrorList!ReloadAfterAck
  <2>4. CASE a.reply # "ok"
    BY <2>1, <2>2, <2>4, AcksKeepCurrent DEF Reloads
  <2> QED BY <2>3, <2>4
<1>11. CASE ErrorList(k)!AckAllDone
  BY <1>0, <1>11, ReloadErrors DEF ErrorList!AckAllDone
<1>12. CASE ErrorList(k)!Poll \/ ErrorList(k)!ServePoll \/ ErrorList(k)!LosePoll \/ ErrorList(k)!Polled
  BY <1>12, BadgeTypesStep, AcksKeepCurrent
<1> QED BY <1>1, <1>2, <1>3, <1>4, <1>5, <1>6, <1>7, <1>8, <1>9, <1>10, <1>11, <1>12 DEF ErrorList!Next

LEMMA ErrorsStep ==
  ASSUME NEW k \in DOMAIN ErrorLists, ErrorsInv(k), [ErrorList(k)!Next]_(ErrorList(k)!vars)
  PROVE  ErrorsInv(k)'
<1>1. CASE ErrorList(k)!Next
  <2>1. ErrorList(k)!TypeOK' /\ Calls(k)'
    BY <1>1, PageTypesStep, AckTypesStep, BadgeTypesStep DEF ErrorList!Next
  <2> QED BY <1>1, <2>1, CurrentStep DEF ErrorsInv
<1>2. CASE UNCHANGED ErrorList(k)!vars
  <2>1. UNCHANGED <<mounted, range, data, acking, load, loaded, acks, badge, polls, seen, ackedAt, aside>>
    BY <1>2 DEF ErrorList!vars, ErrorList!page
  <2>2. ErrorList(k)!TypeOK' /\ Calls(k)'
    BY <2>1 DEF ErrorsInv, ErrorList!TypeOK, Calls
  <2> QED BY <2>1, <2>2, AcksKeepCurrent DEF ErrorsInv
<1> QED BY <1>1, <1>2

AllErrors == \A k \in DOMAIN ErrorLists : OnErrors(k) => ErrorsInv(k)

LEMMA AlwaysErrors == Spec => []AllErrors
<1>1. Init => AllErrors
  BY InitPages, InitErrors DEF AllErrors
<1>2. AllErrors /\ [Next]_vars => AllErrors'
  <2> SUFFICES ASSUME AllErrors, [Next]_vars, NEW k \in DOMAIN ErrorLists, OnErrors(k)'
               PROVE  ErrorsInv(k)'
    BY DEF AllErrors
  <2>1. OnErrors(k)
    BY OnePage DEF OnErrors
  <2> QED BY <2>1, OneErrorList, ErrorsStep DEF AllErrors
<1> QED BY <1>1, <1>2, PTL DEF Spec

\* A loaded Errors page shows the selected range as it is on the server, whatever
\* answers were superseded, lost or late and in whatever order acknowledgements
\* were served: an answer of the effect before is ignored (the live flag of the
\* effect in Errors.tsx), and every acknowledgement of its own makes it load again.
THEOREM DashboardErrorsCurrent == Spec => []ErrorsCurrent
<1>1. AllErrors => ErrorsCurrent
  <2> SUFFICES ASSUME AllErrors, NEW k \in DOMAIN ErrorLists, OnErrors(k), loaded, acks = {}, ~aside
               PROVE  data = ErrorList(k)!View(range)
    BY DEF ErrorsCurrent, ErrorList!ErrorsCurrent
  <2> QED BY DEF AllErrors, ErrorsInv, Current, Quiet
<1> QED BY <1>1, AlwaysErrors, PTL

-----------------------------------------------------------------------------
(* The Notifications page.  Unless the store changed by a write after which   *)
(* the page does not reload, or one that is about to make it reload, the last *)
(* reload will show the store as it is, or what is on display does.           *)

Maps(S, V) == UNION {[D -> V] : D \in SUBSET S}

CooldownsOf(k) == Forms[k].Cooldowns \cup {Forms[k].DefaultCooldown}

ChannelsOf(k) == [type : Forms[k].Types, secret : Forms[k].Types \cup {NoSecret}]

Configs(k) ==
  [channels : Maps(Forms[k].Channels, ChannelsOf(k)),
   rules : Maps(Forms[k].Rules, SUBSET Forms[k].Channels),
   cooldown : {c \in CooldownsOf(k) : c > 0}]

WriteForms(k) ==
  [op : {"channel"}, name : Forms[k].Channels, type : Forms[k].Types, secret : Forms[k].Secrets]
    \cup [op : {"delete channel"}, name : Forms[k].Channels]
    \cup [op : {"rule"}, name : Forms[k].Rules, chans : SUBSET Forms[k].Channels]
    \cup [op : {"delete rule"}, name : Forms[k].Rules]
    \cup [op : {"settings"}, cooldown : CooldownsOf(k)]

ReloadCalls(k) == [reply : {Waiting, Failed} \cup Configs(k), late : BOOLEAN]
WriteCalls(k) == [form : WriteForms(k), reply : {Waiting, Failed, "ok", "error"}, live : BOOLEAN]

FormTypes(k) ==
  /\ mounted \in {"here", "away"} /\ config \in Configs(k) /\ cfg \in {NoCfg} \cup Configs(k)
  /\ err \in BOOLEAN /\ testing \in BOOLEAN /\ late \in BOOLEAN /\ untold \in BOOLEAN
  /\ chans \subseteq Forms[k].Channels
  /\ cooldown \in {NoCfg} \cup CooldownsOf(k) /\ (cfg # NoCfg => cooldown # NoCfg)
  /\ reloads \in Seq(ReloadCalls(k)) /\ writes \subseteq WriteCalls(k)

\* Of a write that is under way the store is as the page knows it, or will.
Fresh == ~untold /\ \A w \in writes : w.live => w.reply # "ok"

\* What is overtaken by a reload are all before it.
LateFirst == \A i, j \in DOMAIN reloads : i <= j /\ reloads[j].late => reloads[i].late

\* The last reload is to be shown, and not to be overtaken.
Newest == reloads # <<>> /\ ~reloads[Len(reloads)].late

StoreShown ==
  Fresh =>
    IF Newest THEN reloads[Len(reloads)].reply \in {Waiting, Failed, config}
    ELSE cfg # NoCfg /\ ~err /\ ~late => cfg = config

FormInv(k) == FormTypes(k) /\ LateFirst /\ StoreShown

\* What the page and the store make of their maps.
LEMMA MapsTyped ==
  ASSUME NEW S, NEW V
  PROVE  /\ <<>> \in Maps(S, V)
         /\ \A f \in Maps(S, V) : DOMAIN f \subseteq S /\ \A x \in DOMAIN f : f[x] \in V
         /\ \A f \in Maps(S, V), n \in S, v \in V :
              [x \in DOMAIN f \cup {n} |-> IF x = n THEN v ELSE f[x]] \in Maps(S, V)
         /\ \A f \in Maps(S, V) : \A n : [x \in DOMAIN f \ {n} |-> f[x]] \in Maps(S, V)
<1>1. <<>> \in Maps(S, V)
  <2>1. <<>> = [x \in {} |-> x] /\ [x \in {} |-> x] \in [{} -> V]
    OBVIOUS
  <2> QED BY <2>1 DEF Maps
<1>2. \A f \in Maps(S, V) : DOMAIN f \subseteq S /\ \A x \in DOMAIN f : f[x] \in V
  BY DEF Maps
<1>3. ASSUME NEW f \in Maps(S, V), NEW n \in S, NEW v \in V
      PROVE  [x \in DOMAIN f \cup {n} |-> IF x = n THEN v ELSE f[x]] \in Maps(S, V)
  <2>1. /\ DOMAIN f \cup {n} \in SUBSET S
        /\ [x \in DOMAIN f \cup {n} |-> IF x = n THEN v ELSE f[x]] \in [DOMAIN f \cup {n} -> V]
    BY <1>2
  <2> QED BY <2>1 DEF Maps
<1>4. ASSUME NEW f \in Maps(S, V), NEW n
      PROVE  [x \in DOMAIN f \ {n} |-> f[x]] \in Maps(S, V)
  <2>1. DOMAIN f \ {n} \in SUBSET S /\ [x \in DOMAIN f \ {n} |-> f[x]] \in [DOMAIN f \ {n} -> V]
    BY <1>2
  <2> QED BY <2>1 DEF Maps
<1> QED BY <1>1, <1>2, <1>3, <1>4

LEMMA StoredTyped ==
  ASSUME NEW k \in DOMAIN Forms, config \in Configs(k), NEW f \in WriteForms(k)
  PROVE  Notif(k)!Stored(f) \in Configs(k)
<1>0. /\ config.channels \in Maps(Forms[k].Channels, ChannelsOf(k))
      /\ config.rules \in Maps(Forms[k].Rules, SUBSET Forms[k].Channels)
  BY DEF Configs
<1>1. CASE f.op = "channel"
  <2>1. f.name \in Forms[k].Channels /\ f.type \in Forms[k].Types /\ f.secret \in BOOLEAN
    BY <1>1, FormsAssumption DEF WriteForms
  <2> DEFINE v == [type |-> f.type, secret |-> Notif(k)!SecretOf(f)]
  <2>2. \A n \in DOMAIN config.channels : config.channels[n] \in ChannelsOf(k)
    BY <1>0, MapsTyped
  <2>3. Notif(k)!SecretOf(f) \in Forms[k].Types \cup {NoSecret}
    BY <2>1, <2>2 DEF Notif!SecretOf, ChannelsOf
  <2>4. v \in ChannelsOf(k)
    BY <2>1, <2>3 DEF ChannelsOf
  <2>5. Notif(k)!Stored(f) = [config EXCEPT !.channels = Notif(k)!With(config.channels, f.name, v)]
    BY <1>1 DEF Notif!Stored, Configs
  <2> HIDE DEF v
  <2>6. Notif(k)!With(config.channels, f.name, v) \in Maps(Forms[k].Channels, ChannelsOf(k))
    BY <1>0, <2>1, <2>4, MapsTyped DEF Notif!With
  <2> QED BY <2>5, <2>6 DEF Configs
<1>2. CASE f.op = "rule"
  <2>1. f.name \in Forms[k].Rules /\ f.chans \in SUBSET Forms[k].Channels
    BY <1>2 DEF WriteForms
  <2>2. Notif(k)!With(config.rules, f.name, f.chans) \in Maps(Forms[k].Rules, SUBSET Forms[k].Channels)
    BY <1>0, <2>1, MapsTyped DEF Notif!With
  <2> QED BY <1>2, <2>2 DEF Notif!Stored, Configs
<1>3. CASE f.op = "settings"
  <2>1. f.cooldown \in CooldownsOf(k)
    BY <1>3 DEF WriteForms
  <2>2. (IF f.cooldown > 0 THEN f.cooldown ELSE Forms[k].DefaultCooldown)
          \in {c \in CooldownsOf(k) : c > 0}
    BY <2>1, FormsAssumption DEF CooldownsOf
  <2> QED BY <1>3, <2>2 DEF Notif!Stored, Configs
<1>4. CASE f.op = "delete channel"
  <2>1. Notif(k)!Without(config.channels, f.name) \in Maps(Forms[k].Channels, ChannelsOf(k))
    BY <1>0, MapsTyped DEF Notif!Without, Notif!Restrict
  <2> QED BY <1>4, <2>1 DEF Notif!Stored, Configs
<1>5. CASE f.op = "delete rule"
  <2>1. Notif(k)!Without(config.rules, f.name) \in Maps(Forms[k].Rules, SUBSET Forms[k].Channels)
    BY <1>0, MapsTyped DEF Notif!Without, Notif!Restrict
  <2> QED BY <1>5, <2>1 DEF Notif!Stored, Configs
<1> QED BY <1>1, <1>2, <1>3, <1>4, <1>5 DEF WriteForms

LEMMA InitForm ==
  ASSUME NEW k \in DOMAIN Forms, Notif(k)!Init
  PROVE  FormInv(k)
<1> USE DEF Notif!Init
<1>1. config \in Configs(k)
  BY MapsTyped, FormsAssumption DEF Configs, CooldownsOf
<1>2. reloads \in Seq(ReloadCalls(k))
  <2>1. [reply |-> Waiting, late |-> FALSE] \in ReloadCalls(k)
    BY DEF ReloadCalls
  <2> QED BY <2>1
<1>4. FormTypes(k)
  BY <1>1, <1>2 DEF FormTypes
<1>3. LateFirst /\ StoreShown
  BY DEF LateFirst, StoreShown, Newest
<1> QED BY <1>3, <1>4 DEF FormInv

LEMMA FormTypeOK ==
  ASSUME NEW k \in DOMAIN Forms, FormTypes(k)
  PROVE  Notif(k)!TypeOK
<1>1. ASSUME NEW c \in Configs(k) PROVE Notif(k)!IsConfig(c)
  <2>1. /\ c.channels \in Maps(Forms[k].Channels, ChannelsOf(k))
        /\ c.rules \in Maps(Forms[k].Rules, SUBSET Forms[k].Channels)
        /\ c.cooldown > 0
    BY DEF Configs
  <2>2. /\ DOMAIN c.channels \subseteq Forms[k].Channels
        /\ \A n \in DOMAIN c.channels : c.channels[n] \in ChannelsOf(k)
        /\ DOMAIN c.rules \subseteq Forms[k].Rules
        /\ \A n \in DOMAIN c.rules : c.rules[n] \in SUBSET Forms[k].Channels
    BY <2>1, MapsTyped
  <2> QED BY <2>1, <2>2 DEF Notif!IsConfig, ChannelsOf
<1>2. \A w \in writes : w.form.op \in Notif(k)!Puts \cup Notif(k)!Deletes /\ w.live \in BOOLEAN
  BY DEF FormTypes, WriteCalls, WriteForms, Notif!Puts, Notif!Deletes
<1> QED BY <1>1, <1>2 DEF FormTypes, Notif!TypeOK, CooldownsOf

\* The page asks again: what comes is newest.
LEMMA ReloadForm ==
  ASSUME NEW k \in DOMAIN Forms, FormInv(k), Notif(k)!Reload
  PROVE  /\ reloads' \in Seq(ReloadCalls(k)) /\ untold' = FALSE
         /\ LateFirst' /\ StoreShown'
<1> DEFINE r == [reply |-> Waiting, late |-> FALSE]
<1>1. reloads' = Append(reloads, r) /\ untold' = FALSE
  BY DEF Notif!Reload
<1>2. r \in ReloadCalls(k) /\ r.reply = Waiting /\ r.late = FALSE
  BY DEF ReloadCalls
<1>3. reloads \in Seq(ReloadCalls(k))
  BY DEF FormInv, FormTypes
<1> HIDE DEF r
<1>4. /\ reloads' \in Seq(ReloadCalls(k)) /\ Len(reloads') = Len(reloads) + 1
      /\ reloads'[Len(reloads')] = r /\ \A i \in 1 .. Len(reloads) : reloads'[i] = reloads[i]
      /\ DOMAIN reloads' = 1 .. Len(reloads) + 1 /\ DOMAIN reloads = 1 .. Len(reloads)
      /\ Len(reloads) \in Nat
  BY <1>1, <1>2, <1>3
<1>5. StoreShown'
  BY <1>2, <1>4 DEF StoreShown, Newest
<1>6. LateFirst'
  BY <1>2, <1>4 DEF LateFirst, FormInv
<1> QED BY <1>1, <1>4, <1>5, <1>6

\* Nothing that StoreShown is about changes, but that a write may end.
LEMMA StoreKept ==
  ASSUME NEW k \in DOMAIN Forms, FormInv(k),
         UNCHANGED <<cfg, err, late, reloads, config>>, Fresh' => Fresh
  PROVE  LateFirst' /\ StoreShown'
<1>1. LateFirst'
  BY DEF FormInv, LateFirst
<1>2. Newest' = Newest
  BY DEF Newest
<1> QED BY <1>1, <1>2 DEF FormInv, StoreShown

\* What the user does.
LEMMA UserStep ==
  ASSUME NEW k \in DOMAIN Forms, FormInv(k),
         \/ Notif(k)!Leave \/ Notif(k)!Return \/ Notif(k)!ToggleChannel
         \/ Notif(k)!TypeCooldown \/ Notif(k)!SendTest \/ Notif(k)!TestDone
  PROVE  FormInv(k)'
<1>1. CASE Notif(k)!Leave
  <2>1. writes' \subseteq WriteCalls(k)
    <3> SUFFICES ASSUME NEW v \in writes' PROVE v \in WriteCalls(k)
      OBVIOUS
    <3>1. PICK w \in writes : v = [w EXCEPT !.live = FALSE]
      BY <1>1 DEF Notif!Leave
    <3>2. w \in WriteCalls(k)
      BY DEF FormInv, FormTypes
    <3> QED BY <3>1, <3>2 DEF WriteCalls
  <2>2. /\ mounted' = "away" /\ cfg' = NoCfg /\ err' = FALSE /\ chans' = {} /\ cooldown' = NoCfg
        /\ testing' = FALSE /\ reloads' = <<>> /\ late' = FALSE /\ untold' = FALSE
        /\ config' = config
    BY <1>1 DEF Notif!Leave
  <2>4. FormTypes(k)'
    <3>1. reloads' \in Seq(ReloadCalls(k)) /\ chans' \subseteq Forms[k].Channels
      BY <2>2
    <3>2. config' \in Configs(k)
      BY <2>2 DEF FormInv, FormTypes
    <3>3. cfg' = NoCfg /\ cooldown' = NoCfg
      BY <2>2
    <3> QED BY ONLY <2>1, <2>2, <3>1, <3>2, <3>3 DEF FormTypes
  <2>3. LateFirst' /\ StoreShown'
    BY <2>2 DEF LateFirst, StoreShown, Newest
  <2> QED BY <2>3, <2>4 DEF FormInv
<1>2. CASE Notif(k)!Return
  <2>1. /\ mounted' = "here" /\ Notif(k)!Reload
        /\ UNCHANGED <<cfg, err, chans, cooldown, testing, writes, late, config>>
    BY <1>2 DEF Notif!Return
  <2>2. FormTypes(k)'
    BY <2>1, ReloadForm DEF FormInv, FormTypes
  <2> QED BY <2>1, <2>2, ReloadForm DEF FormInv
<1>3. CASE Notif(k)!ToggleChannel
  <2>1. UNCHANGED <<mounted, cfg, err, cooldown, testing, reloads, writes, late, untold, config>>
    BY <1>3 DEF Notif!ToggleChannel, Notif!calls
  <2>2. chans' \subseteq Forms[k].Channels
    <3>1. PICK n \in DOMAIN cfg.channels : chans' = Notif(k)!SymDiff(chans, {n})
      BY <1>3 DEF Notif!ToggleChannel
    <3>2. cfg.channels \in Maps(Forms[k].Channels, ChannelsOf(k))
      BY <1>3 DEF Notif!ToggleChannel, Notif!Shown, FormInv, FormTypes, Configs
    <3>3. n \in Forms[k].Channels
      BY <3>2, MapsTyped
    <3> QED BY <3>1, <3>3 DEF Notif!SymDiff, FormInv, FormTypes
  <2>3. FormTypes(k)'
    BY <2>1, <2>2 DEF FormInv, FormTypes
  <2> QED BY <2>1, <2>3, StoreKept DEF FormInv, Fresh
<1>4. CASE Notif(k)!TypeCooldown
  <2>1. /\ UNCHANGED <<mounted, cfg, err, chans, testing, reloads, writes, late, untold, config>>
        /\ cooldown' \in Forms[k].Cooldowns
    BY <1>4 DEF Notif!TypeCooldown, Notif!calls
  <2>2. FormTypes(k)'
    BY <2>1, FormsAssumption DEF FormInv, FormTypes, CooldownsOf
  <2> QED BY <2>1, <2>2, StoreKept DEF FormInv, Fresh
<1>5. CASE Notif(k)!SendTest \/ Notif(k)!TestDone
  <2>1. /\ UNCHANGED <<mounted, cfg, err, chans, cooldown, reloads, writes, late, untold, config>>
        /\ testing' \in BOOLEAN
    BY <1>5 DEF Notif!SendTest, Notif!TestDone, Notif!calls
  <2>2. FormTypes(k)'
    BY <2>1 DEF FormInv, FormTypes
  <2> QED BY <2>1, <2>2, StoreKept DEF FormInv, Fresh
<1> QED BY <1>1, <1>2, <1>3, <1>4, <1>5

\* What the forms of the page on display write.
LEMMA FormsTyped ==
  ASSUME NEW k \in DOMAIN Forms, FormTypes(k), cfg # NoCfg,
         NEW f \in Notif(k)!ChannelForm \cup Notif(k)!ChannelRows \cup Notif(k)!RuleForm
                     \cup Notif(k)!RuleRows \cup Notif(k)!SettingsForm
  PROVE  f \in WriteForms(k)
<1>1. /\ cfg.channels \in Maps(Forms[k].Channels, ChannelsOf(k))
      /\ cfg.rules \in Maps(Forms[k].Rules, SUBSET Forms[k].Channels)
  BY DEF FormTypes, Configs
<1>2. DOMAIN cfg.channels \subseteq Forms[k].Channels /\ DOMAIN cfg.rules \subseteq Forms[k].Rules
  BY <1>1, MapsTyped
<1>3. CASE f \in Notif(k)!ChannelForm
  <2>1. PICK n \in Forms[k].Channels, t \in Forms[k].Types, z \in Forms[k].Secrets :
          f = [op |-> "channel", name |-> n, type |-> t, secret |-> z]
    BY <1>3 DEF Notif!ChannelForm
  <2> QED BY ONLY <2>1 DEF WriteForms
<1>4. CASE f \in Notif(k)!ChannelRows
  <2>1. PICK n \in Forms[k].Channels : f = [op |-> "delete channel", name |-> n]
    BY <1>2, <1>4 DEF Notif!ChannelRows
  <2> QED BY ONLY <2>1 DEF WriteForms
<1>5. CASE f \in Notif(k)!RuleForm
  <2>1. PICK n \in Forms[k].Rules : f = [op |-> "rule", name |-> n, chans |-> chans]
    BY <1>5 DEF Notif!RuleForm
  <2>2. chans \in SUBSET Forms[k].Channels
    BY DEF FormTypes
  <2> QED BY ONLY <2>1, <2>2 DEF WriteForms
<1>6. CASE f \in Notif(k)!RuleRows
  <2>1. PICK n \in Forms[k].Rules : f = [op |-> "delete rule", name |-> n]
    BY <1>2, <1>6 DEF Notif!RuleRows
  <2> QED BY ONLY <2>1 DEF WriteForms
<1>7. CASE f \in Notif(k)!SettingsForm
  <2>1. f = [op |-> "settings", cooldown |-> cooldown] /\ cooldown \in CooldownsOf(k)
    BY <1>7 DEF Notif!SettingsForm, FormTypes
  <2> QED BY ONLY <2>1 DEF WriteForms
<1> QED BY <1>3, <1>4, <1>5, <1>6, <1>7

\* Writes are made, served and answered.
LEMMA WriteStep ==
  ASSUME NEW k \in DOMAIN Forms, FormInv(k),
         Notif(k)!Write \/ Notif(k)!ServeWrite \/ Notif(k)!WriteDone
  PROVE  FormInv(k)'
<1>0. FormTypes(k) /\ LateFirst /\ StoreShown
  BY DEF FormInv
<1>1. CASE Notif(k)!Write
  <2>1. cfg # NoCfg /\ UNCHANGED <<mounted, cfg, err, chans, cooldown, testing, reloads, late, untold, config>>
    BY <1>1 DEF Notif!Write, Notif!Shown, Notif!page
  <2>2. PICK f \in Notif(k)!ChannelForm \cup Notif(k)!ChannelRows \cup Notif(k)!RuleForm
                     \cup Notif(k)!RuleRows \cup Notif(k)!SettingsForm :
          writes' = writes \cup {[form |-> f, reply |-> Waiting, live |-> TRUE]}
    BY <1>1 DEF Notif!Write
  <2>3. f \in WriteForms(k)
    BY <1>0, <2>1, FormsTyped
  <2>4. [form |-> f, reply |-> Waiting, live |-> TRUE] \in WriteCalls(k)
    BY <2>3 DEF WriteCalls
  <2>5. writes' \subseteq WriteCalls(k) /\ writes \subseteq writes'
    BY <1>0, <2>2, <2>4 DEF FormTypes
  <2>6. FormTypes(k)'
    BY <1>0, <2>1, <2>5 DEF FormTypes
  <2> QED BY <2>1, <2>5, <2>6, StoreKept DEF FormInv, Fresh
<1>2. CASE Notif(k)!ServeWrite
  <2>1. PICK w \in writes, kept \in BOOLEAN, reply \in {"ok", "error", Failed} :
          /\ w.reply = Waiting
          /\ config' = IF kept THEN Notif(k)!Stored(w.form) ELSE config
          /\ writes' = (writes \ {w}) \cup IF w.live THEN {[w EXCEPT !.reply = reply]} ELSE {}
          /\ untold' = (untold \/ (config' # config /\ (reply # "ok" \/ ~w.live)))
    BY <1>2 DEF Notif!ServeWrite
  <2>2. UNCHANGED <<mounted, cfg, err, chans, cooldown, testing, reloads, late>>
    BY <1>2 DEF Notif!ServeWrite, Notif!page
  <2>3. w \in WriteCalls(k)
    BY <1>0 DEF FormTypes
  <2> DEFINE v == [w EXCEPT !.reply = reply]
  <2>4. v \in WriteCalls(k) /\ v.live = w.live /\ v.reply = reply /\ w.form \in WriteForms(k) /\ w.live \in BOOLEAN
    BY <2>3 DEF WriteCalls
  <2>5. writes' = (writes \ {w}) \cup IF w.live THEN {v} ELSE {}
    BY <2>1
  <2> HIDE DEF v
  <2>6. writes' \subseteq WriteCalls(k)
    BY <1>0, <2>4, <2>5 DEF FormTypes
  <2>7. config' \in Configs(k)
    BY <1>0, <2>1, <2>4, StoredTyped DEF FormTypes
  <2>8. untold' \in BOOLEAN
    BY <1>0, <2>1 DEF FormTypes
  <2>9. FormTypes(k)'
    BY <1>0, <2>2, <2>6, <2>7, <2>8 DEF FormTypes
  <2>10. CASE config' = config
    <3>1. untold' = untold
      BY <1>0, <2>1, <2>10 DEF FormTypes
    <3>2. w.reply # "ok"
      BY <2>1, MarkersAssumption
    <3>3. Fresh' => Fresh
      BY <2>5, <3>1, <3>2 DEF Fresh
    <3> QED BY <2>2, <2>9, <2>10, <3>3, StoreKept DEF FormInv
  <2>11. CASE config' # config
    <3>1. ASSUME ~untold' PROVE ~Fresh'
      <4>1. reply = "ok" /\ w.live
        BY <2>1, <2>4, <2>11, <3>1
      <4>2. v \in writes' /\ v.live /\ v.reply = "ok"
        BY <2>4, <2>5, <4>1
      <4> QED BY <4>2 DEF Fresh
    <3>2. ~Fresh'
      BY <3>1 DEF Fresh
    <3>3. LateFirst' /\ StoreShown'
      BY <1>0, <2>2, <3>2 DEF LateFirst, StoreShown
    <3> QED BY <2>9, <3>3 DEF FormInv
  <2> QED BY <2>10, <2>11
<1>3. CASE Notif(k)!WriteDone
  <2>1. PICK w \in writes :
          /\ w.reply # Waiting /\ writes' = writes \ {w}
          /\ chans' = IF w.form.op = "rule" /\ w.reply = "ok" THEN {} ELSE chans
          /\ IF Notif(k)!ReloadsAfter(w) THEN Notif(k)!Reload ELSE UNCHANGED <<reloads, untold>>
    BY <1>3 DEF Notif!WriteDone
  <2>2. UNCHANGED <<mounted, cfg, err, cooldown, testing, late, config>>
    BY <1>3 DEF Notif!WriteDone
  <2>3. chans' \subseteq Forms[k].Channels /\ writes' \subseteq WriteCalls(k)
    BY <1>0, <2>1 DEF FormTypes
  <2>4. CASE Notif(k)!ReloadsAfter(w)
    <3>1. /\ reloads' \in Seq(ReloadCalls(k)) /\ untold' = FALSE
          /\ LateFirst' /\ StoreShown'
      BY <2>1, <2>4, ReloadForm
    <3>2. FormTypes(k)'
      BY <1>0, <2>2, <2>3, <3>1 DEF FormTypes
    <3> QED BY <3>1, <3>2 DEF FormInv
  <2>5. CASE ~Notif(k)!ReloadsAfter(w)
    <3>1. w.reply # "ok"
      BY <2>5, MarkersAssumption DEF Notif!ReloadsAfter
    <3>2. UNCHANGED <<reloads, untold>>
      BY <2>1, <2>5
    <3>3. Fresh' => Fresh
      BY <2>1, <3>1, <3>2 DEF Fresh
    <3>4. FormTypes(k)'
      BY <1>0, <2>2, <2>3, <3>2 DEF FormTypes
    <3> QED BY <2>2, <3>2, <3>3, <3>4, StoreKept DEF FormInv
  <2> QED BY <2>4, <2>5
<1> QED BY <1>1, <1>2, <1>3

LEMMA ServeReloadStep ==
  ASSUME NEW k \in DOMAIN Forms, FormInv(k), Notif(k)!ServeReload
  PROVE  FormInv(k)'
<1>0. FormTypes(k) /\ LateFirst /\ StoreShown
  BY DEF FormInv
<1>1. PICK i \in DOMAIN reloads, reply \in {config, Failed} :
        reloads' = [reloads EXCEPT ![i].reply = reply]
  BY DEF Notif!ServeReload
<1>2. UNCHANGED <<mounted, cfg, err, chans, cooldown, testing, writes, late, untold, config>>
  BY DEF Notif!ServeReload, Notif!page
<1> DEFINE r == [reloads[i] EXCEPT !.reply = reply]
<1>3. reloads[i] \in ReloadCalls(k) /\ reloads \in Seq(ReloadCalls(k)) /\ config \in Configs(k)
  BY <1>0 DEF FormTypes
<1>4. r \in ReloadCalls(k) /\ r.late = reloads[i].late /\ r.reply = reply
  BY <1>3 DEF ReloadCalls
<1>5. reloads' = [reloads EXCEPT ![i] = r]
  BY <1>1
<1> HIDE DEF r
<1>6. /\ reloads' \in Seq(ReloadCalls(k)) /\ Len(reloads') = Len(reloads)
      /\ DOMAIN reloads' = DOMAIN reloads
      /\ \A j \in DOMAIN reloads : reloads'[j] = IF j = i THEN r ELSE reloads[j]
  BY <1>3, <1>4, <1>5
<1>7. FormTypes(k)'
  BY <1>0, <1>2, <1>6 DEF FormTypes
<1>8. LateFirst'
  BY <1>0, <1>4, <1>6 DEF LateFirst
<1>9. StoreShown'
  <2>1. Len(reloads) \in DOMAIN reloads /\ reloads # <<>> /\ reloads' # <<>>
    BY <1>3, <1>6
  <2>2. Newest' = Newest
    BY <1>4, <1>6, <2>1 DEF Newest
  <2>3. reloads'[Len(reloads')].reply \in {reloads[Len(reloads)].reply, config, Failed}
    BY <1>4, <1>6, <2>1
  <2>4. Fresh' = Fresh
    BY <1>2 DEF Fresh
  <2> QED BY <1>0, <1>2, <2>2, <2>3, <2>4 DEF StoreShown
<1> QED BY <1>7, <1>8, <1>9 DEF FormInv

\* The calls left when one is answered: those before it are overtaken.
LEMMA Overtaken ==
  ASSUME NEW k \in DOMAIN Forms, reloads \in Seq(ReloadCalls(k)), NEW i \in DOMAIN reloads,
         reloads' = Notif(k)!RemoveAt([j \in DOMAIN reloads |->
                      IF j < i THEN [reloads[j] EXCEPT !.late = TRUE] ELSE reloads[j]], i)
  PROVE  /\ reloads' \in Seq(ReloadCalls(k)) /\ Len(reloads') = Len(reloads) - 1
         /\ \A j \in 1 .. Len(reloads) - 1 :
              IF j < i THEN reloads'[j].late = TRUE ELSE reloads'[j] = reloads[j + 1]
<1> DEFINE M == [j \in DOMAIN reloads |->
                   IF j < i THEN [reloads[j] EXCEPT !.late = TRUE] ELSE reloads[j]]
<1>1. \A j \in DOMAIN reloads : reloads[j] \in ReloadCalls(k)
  OBVIOUS
<1>2. \A r \in ReloadCalls(k) :
        [r EXCEPT !.late = TRUE] \in ReloadCalls(k) /\ [r EXCEPT !.late = TRUE].late = TRUE
  BY DEF ReloadCalls
<1>3. Len(reloads) \in Nat /\ DOMAIN reloads = 1 .. Len(reloads)
  OBVIOUS
<1>4. M \in [1 .. Len(reloads) -> ReloadCalls(k)]
  BY <1>1, <1>2, <1>3
<1>5. \A j \in 1 .. Len(reloads) :
        (j < i => M[j].late = TRUE) /\ (~(j < i) => M[j] = reloads[j])
  BY <1>1, <1>2, <1>3
<1>6. reloads' = Notif(k)!RemoveAt(M, i)
  OBVIOUS
<1> HIDE DEF M
<1>7. M \in Seq(ReloadCalls(k)) /\ Len(M) = Len(reloads)
  BY <1>3, <1>4, IsASeq
<1> DEFINE r == SubSeq(M, 1, i - 1) \o SubSeq(M, i + 1, Len(M))
<1>8. /\ r \in Seq(ReloadCalls(k)) /\ Len(r) = Len(M) - 1
      /\ \A j \in 1 .. Len(M) - 1 : r[j] = IF j < i THEN M[j] ELSE M[j + 1]
  <2>1. i \in 1 .. Len(M)
    BY <1>3, <1>7
  <2> QED BY <1>7, <2>1, Removed
<1>9. reloads' = r
  BY <1>6 DEF Notif!RemoveAt
<1> HIDE DEF r
<1>10. ASSUME NEW j \in 1 .. Len(reloads) - 1
       PROVE  IF j < i THEN reloads'[j].late = TRUE ELSE reloads'[j] = reloads[j + 1]
  <2>1. j \in 1 .. Len(reloads) /\ j + 1 \in 1 .. Len(reloads) /\ i \in Nat
    BY <1>3
  <2>2. reloads'[j] = IF j < i THEN M[j] ELSE M[j + 1]
    BY <1>7, <1>8, <1>9
  <2>3. ~(j < i) => ~(j + 1 < i)
    BY <2>1
  <2> QED BY <1>5, <2>1, <2>2, <2>3
<1> QED BY <1>7, <1>8, <1>9, <1>10

LEMMA ReloadedStep ==
  ASSUME NEW k \in DOMAIN Forms, FormInv(k), Notif(k)!Reloaded
  PROVE  FormInv(k)'
<1>0. FormTypes(k) /\ LateFirst /\ StoreShown
  BY DEF FormInv
<1> DEFINE n == Len(reloads)
<1>1. PICK i \in DOMAIN reloads :
        /\ reloads[i].reply # Waiting
        /\ reloads' = Notif(k)!RemoveAt([j \in DOMAIN reloads |->
                        IF j < i THEN [reloads[j] EXCEPT !.late = TRUE] ELSE reloads[j]], i)
        /\ late' = reloads[i].late
        /\ err' = (reloads[i].reply = Failed)
        /\ cfg' = IF reloads[i].reply = Failed THEN cfg ELSE reloads[i].reply
        /\ cooldown' = IF cooldown = NoCfg /\ reloads[i].reply # Failed
                         THEN reloads[i].reply.cooldown ELSE cooldown
        /\ UNCHANGED <<mounted, chans, testing, writes, untold, config>>
  BY DEF Notif!Reloaded
<1>2. reloads \in Seq(ReloadCalls(k)) /\ n \in Nat /\ DOMAIN reloads = 1 .. n
  BY <1>0 DEF FormTypes
<1>3. reloads[i] \in ReloadCalls(k) /\ i \in 1 .. n
  BY <1>2
<1>4. /\ reloads' \in Seq(ReloadCalls(k)) /\ Len(reloads') = n - 1
      /\ \A j \in 1 .. n - 1 : IF j < i THEN reloads'[j].late = TRUE ELSE reloads'[j] = reloads[j + 1]
  <2>1. reloads' = Notif(k)!RemoveAt([j \in DOMAIN reloads |->
                     IF j < i THEN [reloads[j] EXCEPT !.late = TRUE] ELSE reloads[j]], i)
    BY <1>1
  <2> QED BY <1>2, <2>1, Overtaken
<1>5. DOMAIN reloads' = 1 .. n - 1
  BY <1>4
<1>6. FormTypes(k)'
  <2>1. reloads[i].late \in BOOLEAN /\ reloads[i].reply \in {Waiting, Failed} \cup Configs(k)
    BY <1>3 DEF ReloadCalls
  <2>2. ASSUME reloads[i].reply # Failed
        PROVE  reloads[i].reply \in Configs(k) /\ reloads[i].reply.cooldown \in CooldownsOf(k)
               /\ reloads[i].reply.cooldown # NoCfg
    <3>1. reloads[i].reply \in Configs(k)
      BY <1>1, <2>1, <2>2
    <3> QED BY <3>1, FormsAssumption DEF Configs, CooldownsOf
  <2>3. cfg' \in {NoCfg} \cup Configs(k)
    BY <1>0, <1>1, <2>2 DEF FormTypes
  <2>4. cooldown' \in {NoCfg} \cup CooldownsOf(k) /\ (cfg' # NoCfg => cooldown' # NoCfg)
    BY <1>0, <1>1, <2>2 DEF FormTypes
  <2>5. UNCHANGED <<mounted, chans, testing, writes, untold, config>> /\ late' \in BOOLEAN /\ err' \in BOOLEAN
    BY <1>1, <2>1
  <2> QED BY ONLY <1>0, <1>4, <2>3, <2>4, <2>5 DEF FormTypes
<1>7. LateFirst'
  <2> SUFFICES ASSUME NEW j1 \in 1 .. n - 1, NEW j2 \in 1 .. n - 1, j1 <= j2, reloads'[j2].late
               PROVE  reloads'[j1].late
    BY <1>5 DEF LateFirst
  <2>1. CASE j1 < i
    BY <1>4, <2>1
  <2>2. CASE ~(j1 < i)
    <3>1. ~(j2 < i) /\ j1 + 1 \in 1 .. n /\ j2 + 1 \in 1 .. n /\ j1 + 1 <= j2 + 1
      BY <1>2, <1>3, <2>2
    <3> QED BY <1>0, <1>2, <1>4, <2>2, <3>1 DEF LateFirst
  <2> QED BY <2>1, <2>2
<1>8. StoreShown'
  <2>1. Fresh' = Fresh /\ config' = config /\ reloads # <<>>
    BY <1>1, <1>2, <1>3 DEF Fresh
  <2>2. CASE i = n
    <3>1. ~Newest'
      BY <1>2, <1>3, <1>4, <2>2 DEF Newest
    <3>2. ASSUME Fresh, ~err', ~late' PROVE cfg' = config
      <4>1. reloads[i].reply \in {Waiting, Failed, config}
        BY <1>0, <1>1, <2>1, <2>2, <3>2 DEF StoreShown, Newest
      <4> QED BY <1>1, <3>2, <4>1
    <3> QED BY <2>1, <3>1, <3>2 DEF StoreShown
  <2>3. CASE i # n
    <3>1. n - 1 \in 1 .. n - 1 /\ ~(n - 1 < i) /\ n - 1 + 1 = n
      BY <1>2, <1>3, <2>3
    <3>2. reloads'[Len(reloads')] = reloads[n] /\ reloads' # <<>>
      BY <1>4, <3>1
    <3>3. Newest' = Newest
      BY <2>1, <3>2 DEF Newest
    <3>4. CASE Newest
      BY <1>0, <2>1, <3>2, <3>3, <3>4 DEF StoreShown
    <3>5. CASE ~Newest
      <4>1. reloads[n].late /\ i <= n /\ n \in DOMAIN reloads
        BY <1>2, <1>3, <2>1, <3>5 DEF Newest
      <4>2. late'
        BY <1>0, <1>1, <4>1 DEF LateFirst
      <4> QED BY <3>3, <3>5, <4>2 DEF StoreShown
    <3> QED BY <3>4, <3>5
  <2> QED BY <2>2, <2>3
<1> QED BY <1>6, <1>7, <1>8 DEF FormInv

LEMMA FormStep ==
  ASSUME NEW k \in DOMAIN Forms, FormInv(k), [Notif(k)!Next]_(Notif(k)!vars)
  PROVE  FormInv(k)'
<1>1. CASE Notif(k)!Next
  BY <1>1, UserStep, WriteStep, ServeReloadStep, ReloadedStep DEF Notif!Next
<1>2. CASE UNCHANGED Notif(k)!vars
  <2>1. UNCHANGED <<mounted, cfg, err, chans, cooldown, testing, reloads, writes, late, untold, config>>
    BY <1>2 DEF Notif!vars, Notif!page, Notif!calls
  <2>2. FormTypes(k)'
    BY <2>1 DEF FormInv, FormTypes
  <2> QED BY <2>1, <2>2, StoreKept DEF FormInv, Fresh
<1> QED BY <1>1, <1>2

AllForms == \A k \in DOMAIN Forms : OnNotifications(k) => FormInv(k)

LEMMA AlwaysForms == Spec => []AllForms
<1>1. Init => AllForms
  BY InitPages, InitForm DEF AllForms
<1>2. AllForms /\ [Next]_vars => AllForms'
  <2> SUFFICES ASSUME AllForms, [Next]_vars, NEW k \in DOMAIN Forms, OnNotifications(k)'
               PROVE  FormInv(k)'
    BY DEF AllForms
  <2>1. OnNotifications(k)
    BY OnePage DEF OnNotifications
  <2> QED BY <2>1, OneForm, FormStep DEF AllForms
<1> QED BY <1>1, <1>2, PTL DEF Spec

\* A Notifications page at rest shows the store, for any number of writes and
\* reloads under way that are lost, refused or answered in any order: every
\* section asks for a reload after its writes (onSaved and onDeleted in
\* Notifications.tsx), and the answer to it shows them.
THEOREM DashboardCfgCurrent == Spec => []CfgCurrent
<1>1. AllForms => CfgCurrent
  <2> SUFFICES ASSUME AllForms, NEW k \in DOMAIN Forms, OnNotifications(k), cfg # NoCfg, reloads = <<>>,
                      {w \in writes : w.live} = {}, ~err, ~late, ~untold
               PROVE  cfg = config
    BY DEF CfgCurrent, Notif!CfgCurrent, Notif!Shown
  <2>1. Fresh /\ ~Newest
    BY DEF Fresh, Newest
  <2> QED BY <2>1 DEF AllForms, FormInv, StoreShown
<1> QED BY <1>1, AlwaysForms, PTL

-----------------------------------------------------------------------------
(* The types of the Credentials page. *)

CredCalls == [name : CredNames, reply : {Waiting, Lost, "ok", "error"}]
ListCalls == [announce : BOOLEAN, reply : {Waiting, Lost} \cup SUBSET CredNames]

CredTypes ==
  /\ mounted \in {"here", "away"} /\ creds \subseteq CredNames /\ stored \subseteq CredNames
  /\ busy \in BOOLEAN /\ target \in CredNames \cup {NoName}
  /\ status \in {"none", "success", "error"}
  /\ creates \subseteq CredCalls /\ deletes \subseteq CredCalls /\ lists \subseteq ListCalls

LEMMA InitCreds == Creds!Init => CredTypes
<1>1. [announce |-> FALSE, reply |-> Waiting] \in ListCalls
  BY DEF ListCalls
<1> QED BY <1>1 DEF Creds!Init, CredTypes

\* A list is asked for.
LEMMA ListTyped ==
  ASSUME CredTypes, NEW announce \in BOOLEAN, Creds!List(announce)
  PROVE  lists' \subseteq ListCalls
<1>1. [announce |-> announce, reply |-> Waiting] \in ListCalls
  BY DEF ListCalls
<1> QED BY <1>1 DEF Creds!List, CredTypes

\* A call is answered.
LEMMA AnswerTyped ==
  ASSUME NEW c \in CredCalls, NEW reply \in {"ok", "error", Lost}
  PROVE  [c EXCEPT !.reply = reply] \in CredCalls /\ c.name \in CredNames
BY DEF CredCalls

LEMMA CredStep ==
  ASSUME CredTypes, [Creds!Next]_(Creds!vars)
  PROVE  CredTypes'
<1> USE DEF CredTypes
<1>1. CASE Creds!Leave
  <2>1. PICK done \in SUBSET {c \in creates : c.reply = Waiting},
             gone \in SUBSET {d \in deletes : d.reply = Waiting} :
          stored' = (stored \cup {c.name : c \in done}) \ {d.name : d \in gone}
    BY <1>1 DEF Creds!Leave
  <2>2. \A c \in done : c.name \in CredNames
    BY DEF CredCalls
  <2>3. stored' \subseteq CredNames
    BY <2>1, <2>2
  <2> QED BY <1>1, <2>3 DEF Creds!Leave
<1>2. CASE Creds!Return
  BY <1>2, ListTyped DEF Creds!Return
<1>3. CASE Creds!Expire
  BY <1>3 DEF Creds!Expire, Creds!calls
<1>4. CASE Creds!Create
  <2>1. PICK n \in CredNames : creates' = creates \cup {[name |-> n, reply |-> Waiting]}
    BY <1>4 DEF Creds!Create
  <2>2. [name |-> n, reply |-> Waiting] \in CredCalls
    BY DEF CredCalls
  <2> QED BY <1>4, <2>1, <2>2 DEF Creds!Create
<1>5. CASE Creds!ServeCreate
  <2>1. PICK c \in creates, reply \in {"ok", "error", Lost} :
          /\ creates' = (creates \ {c}) \cup {[c EXCEPT !.reply = reply]}
          /\ stored' \in CASE reply = "ok" -> {stored \cup {c.name}}
                           [] reply = "error" -> {stored}
                           [] OTHER -> {stored, stored \cup {c.name}}
          /\ UNCHANGED <<mounted, creds, busy, target, status, deletes, lists>>
    BY <1>5 DEF Creds!ServeCreate, Creds!page
  <2>2. [c EXCEPT !.reply = reply] \in CredCalls /\ c.name \in CredNames
    BY AnswerTyped
  <2>3. stored' \in {stored, stored \cup {c.name}}
    BY <2>1
  <2> QED BY <2>1, <2>2, <2>3
<1>6. CASE Creds!CreateDone
  <2>1. creates' \subseteq creates /\ busy' = FALSE
        /\ UNCHANGED <<mounted, creds, target, deletes, stored>>
    BY <1>6 DEF Creds!CreateDone
  <2>2. (Creds!List(TRUE) /\ UNCHANGED status) \/ (Creds!Show("error") /\ UNCHANGED lists)
    BY <1>6 DEF Creds!CreateDone
  <2>3. lists' \subseteq ListCalls /\ status' \in {"none", "success", "error"}
    BY <2>2, ListTyped DEF Creds!Show
  <2> QED BY <2>1, <2>3
<1>7. CASE Creds!Target
  BY <1>7 DEF Creds!Target, Creds!calls
<1>8. CASE Creds!Confirm
  <2>1. target \in CredNames
    BY <1>8 DEF Creds!Confirm
  <2>2. [name |-> target, reply |-> Waiting] \in CredCalls
    BY <2>1 DEF CredCalls
  <2> QED BY <1>8, <2>2 DEF Creds!Confirm
<1>9. CASE Creds!ServeDelete
  <2>1. PICK d \in deletes, reply \in {"ok", "error", Lost} :
          /\ deletes' = (deletes \ {d}) \cup {[d EXCEPT !.reply = reply]}
          /\ stored' \in CASE reply = "ok" -> {stored \ {d.name}}
                           [] reply = "error" -> {stored}
                           [] OTHER -> {stored, stored \ {d.name}}
          /\ UNCHANGED <<mounted, creds, busy, target, status, creates, lists>>
    BY <1>9 DEF Creds!ServeDelete, Creds!page
  <2>2. [d EXCEPT !.reply = reply] \in CredCalls
    BY AnswerTyped
  <2>3. stored' \in {stored, stored \ {d.name}}
    BY <2>1
  <2> QED BY <2>1, <2>2, <2>3
<1>10. CASE Creds!DeleteDone
  <2>1. deletes' \subseteq deletes /\ UNCHANGED <<mounted, creds, busy, target, status, creates, stored>>
    BY <1>10 DEF Creds!DeleteDone, Creds!page
  <2>2. Creds!List(FALSE) \/ UNCHANGED lists
    BY <1>10 DEF Creds!DeleteDone
  <2>3. lists' \subseteq ListCalls
    BY <2>2, ListTyped
  <2> QED BY <2>1, <2>3
<1>11. CASE Creds!ServeList
  <2>1. PICK l \in lists, reply \in {stored, {}, Lost} :
          /\ lists' = (lists \ {l}) \cup {[l EXCEPT !.reply = reply]}
          /\ UNCHANGED <<mounted, creds, busy, target, status, creates, deletes, stored>>
    BY <1>11 DEF Creds!ServeList, Creds!page
  <2>2. [l EXCEPT !.reply = reply] \in ListCalls
    BY DEF ListCalls
  <2> QED BY <2>1, <2>2
<1>12. CASE Creds!Listed
  <2>1. PICK l \in lists :
          /\ l.reply # Waiting /\ lists' = lists \ {l}
          /\ creds' = IF l.reply = Lost THEN creds ELSE l.reply
          /\ UNCHANGED <<mounted, busy, target, creates, deletes, stored>>
    BY <1>12 DEF Creds!Listed
  <2>2. Creds!Show("success") \/ UNCHANGED status
    BY <1>12 DEF Creds!Listed
  <2>3. creds' \subseteq CredNames
    BY <2>1 DEF ListCalls
  <2> QED BY <2>1, <2>2, <2>3 DEF Creds!Show
<1>13. CASE UNCHANGED Creds!vars
  BY <1>13 DEF Creds!vars, Creds!page, Creds!calls
<1> QED BY <1>1, <1>2, <1>3, <1>4, <1>5, <1>6, <1>7, <1>8, <1>9, <1>10, <1>11, <1>12, <1>13 DEF Creds!Next

LEMMA CredTypeOK == CredTypes /\ NoTimerOnError => Creds!TypeOK
<1> SUFFICES ASSUME CredTypes, NoTimerOnError PROVE Creds!TypeOK
  OBVIOUS
<1>1. \A c \in creates \cup deletes : c.name \in CredNames /\ c.reply \in {Waiting, Lost, "ok", "error"}
  BY DEF CredTypes, CredCalls
<1>2. \A l \in lists : l.announce \in BOOLEAN
  BY DEF CredTypes, ListCalls
<1> QED BY <1>1, <1>2 DEF CredTypes, NoTimerOnError, Creds!TypeOK

LEMMA AlwaysCreds == Spec => [](OnCreds => CredTypes)
<1>1. Init => (OnCreds => CredTypes)
  BY InitPages, InitCreds
<1>2. (OnCreds => CredTypes) /\ [Next]_vars => (OnCreds => CredTypes)'
  <2> SUFFICES ASSUME OnCreds => CredTypes, [Next]_vars, OnCreds'
               PROVE  CredTypes'
    OBVIOUS
  <2>1. OnCreds
    BY OnePage DEF OnCreds
  <2> QED BY <2>1, OnePage, CredStep
<1> QED BY <1>1, <1>2, PTL DEF Spec
=============================================================================
