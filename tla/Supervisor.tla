----------------------------- MODULE Supervisor -----------------------------
(***************************************************************************)
(* One supervised instance: the goroutine running Instance.Run (spawn,     *)
(* watch, account for an exit, back off, stop), the process group the OS   *)
(* keeps for it, and the callers that cancel its context or reset its      *)
(* counters while it runs.  internal/supervisor and internal/proc.         *)
(*                                                                         *)
(* A step is what the goroutine does between two points at which another   *)
(* goroutine or the kernel can intervene.  Definitions headed "Slip" are   *)
(* plausible mistakes; nothing here uses them (see the README).            *)
(***************************************************************************)
EXTENDS Integers

CONSTANTS
  Modes,        \* the restart modes the policy may have
  MaxRestarts,  \* policy.MaxRestarts
  RestartCap    \* bound: the lifetime restart counter saturates here

ASSUME ModesAssumption == Modes \subseteq {"always", "on-failure", "no"}
ASSUME MaxRestartsAssumption == MaxRestarts \in Nat
ASSUME RestartCapAssumption == RestartCap \in Nat /\ RestartCap > MaxRestarts

VARIABLES
  mode,       \* policy.Mode, fixed
  pc,         \* where Run is
  state,      \* Instance.state
  hasPid,     \* Instance.pid # 0
  lastExit,   \* what recordExit stored last
  restarts,   \* Instance.restarts
  unstable,   \* Instance.unstable
  judged,     \* handleExit's local copy of unstable
  quick,      \* the last accounted exit came before MinUptime
  owed,       \* onRestart calls not yet followed by a new spawn attempt
  cancelled,  \* ctx is done
  tree,       \* live processes of the current spawn
  verdict,    \* how the leader ended, once it has
  strays      \* live processes of earlier spawns

published == <<state, hasPid, lastExit>>
accounts == <<restarts, unstable, judged, quick, owed>>
processes == <<tree, verdict, strays>>
vars == <<mode, pc, published, accounts, cancelled, processes>>

-----------------------------------------------------------------------------
(* The process tree of one spawn: the leader, descendants in its group     *)
(* that still hold its stdout or stderr pipe ("sharing") or redirected     *)
(* their output ("detached"), and descendants that left the group with     *)
(* setsid and hold the pipe ("escaped").  Signals reach the group;         *)
(* cmd.Wait returns when the leader and every holder of a pipe are gone.   *)
Group == {"leader", "sharing", "detached"}
PipeHolders == {"leader", "sharing", "escaped"}

\* Slip: waiting for the leader only, as os.Process.Wait does.
LeaderGone == "leader" \notin tree

WaitReturns == tree \cap PipeHolders = {}

States == {"starting", "online", "stopping", "stopped", "restarting", "errored"}
Terminal == {"stopped", "errored"}

\* Run has a process to watch in the Watching places, to stop in the Stopping ones.
Stopping == {"terminating", "grace", "killed"}
Watching == {"spawned", "watch"} \cup Stopping
Places == {"start", "exited", "account", "judge", "backoff", "done"} \cup Watching

ScalarTypes ==
  /\ mode \in Modes
  /\ pc \in Places
  /\ state \in States
  /\ hasPid \in BOOLEAN
  /\ lastExit \in {"never", "ok", "fail"}
  /\ quick \in BOOLEAN
  /\ cancelled \in BOOLEAN

CounterTypes ==
  /\ restarts \in 0 .. RestartCap
  /\ unstable \in 0 .. MaxRestarts + 1
  /\ judged \in 0 .. MaxRestarts + 1
  /\ owed \in {0, 1}

TreeTypes ==
  /\ tree \in SUBSET (Group \cup PipeHolders)
  /\ verdict \in {"ok", "fail"}
  /\ strays \in SUBSET {"detached"}

\* Every variable has its type; the counters stay within the crash-loop limit.
TypeOK == ScalarTypes /\ CounterTypes /\ TreeTypes

\* Slip: a pid below zero handed to Instance.set keeps the old one.
SetKeepingPid(s, pid) == state' = s /\ hasPid' = (hasPid \/ pid)

\* Instance.set: a pid on the way online, zero otherwise.
Set(s, pid) == state' = s /\ hasPid' = pid

Init ==
  /\ mode \in Modes
  /\ pc = "start"
  /\ state = "starting" /\ hasPid = FALSE /\ lastExit = "never"
  /\ restarts = 0 /\ unstable = 0 /\ judged = 0 /\ quick = FALSE /\ owed = 0
  /\ cancelled = FALSE
  /\ tree = {} /\ verdict = "ok" /\ strays = {}

-----------------------------------------------------------------------------
(* The goroutine. *)

\* proc.Start succeeds: a new tree; what is left of the old one is on its own.
Spawn ==
  /\ pc = "start"
  /\ pc' = "spawned"
  /\ strays' = strays \cup tree
  /\ tree' = {"leader"}
  /\ UNCHANGED <<mode, published, accounts, cancelled, verdict>>

\* proc.Start fails: handled as an exit, with the error as its result.
SpawnFails ==
  /\ pc = "start"
  /\ pc' = "exited"
  /\ strays' = strays \cup tree
  /\ tree' = {}
  /\ verdict' = "fail"
  /\ UNCHANGED <<mode, published, accounts, cancelled>>

GoOnline ==
  /\ pc = "spawned"
  /\ pc' = "watch"
  /\ Set("online", TRUE)
  /\ UNCHANGED <<mode, lastExit, accounts, cancelled, processes>>

\* The two cases of Run's select; either may be taken when both are ready.
SeeExit ==
  /\ pc = "watch"
  /\ WaitReturns
  /\ pc' = "exited"
  /\ UNCHANGED <<mode, published, accounts, cancelled, processes>>

SeeCancel ==
  /\ pc = "watch"
  /\ cancelled
  /\ pc' = "terminating"
  /\ Set("stopping", FALSE)
  /\ UNCHANGED <<mode, lastExit, accounts, cancelled, processes>>

\* SIGTERM to the group: some members end at once, the others clean up first
\* or ignore it.  A leader that handles the signal may exit with any status.
Terminate ==
  /\ pc = "terminating"
  /\ pc' = "grace"
  /\ \E ended \in SUBSET (tree \cap Group) :
       /\ tree' = tree \ ended
       /\ verdict' \in IF "leader" \in ended THEN {"ok", "fail"} ELSE {verdict}
  /\ UNCHANGED <<mode, published, accounts, cancelled, strays>>

\* Slip: SIGKILL to the leader's pid instead of its group.
KillLeaderOnly ==
  /\ pc = "grace"
  /\ pc' = "killed"
  /\ tree' = tree \ {"leader"}
  /\ verdict' = IF "leader" \in tree THEN "fail" ELSE verdict
  /\ UNCHANGED <<mode, published, accounts, cancelled, strays>>

\* KillTimeout passed: SIGKILL to the group, which no member survives.
KillGroup ==
  /\ pc = "grace"
  /\ pc' = "killed"
  /\ tree' = tree \ Group
  /\ verdict' = IF "leader" \in tree THEN "fail" ELSE verdict
  /\ UNCHANGED <<mode, published, accounts, cancelled, strays>>

\* Slip: a stop that took SIGKILL is published as a crash.
ReapErrored ==
  /\ pc \in {"grace", "killed"}
  /\ WaitReturns
  /\ pc' = "done"
  /\ lastExit' = verdict
  /\ Set(IF pc = "killed" THEN "errored" ELSE "stopped", FALSE)
  /\ UNCHANGED <<mode, accounts, cancelled, processes>>

\* The process ended, within KillTimeout or after SIGKILL: record and return.
Reap ==
  /\ pc \in {"grace", "killed"}
  /\ WaitReturns
  /\ pc' = "done"
  /\ lastExit' = verdict
  /\ Set("stopped", FALSE)
  /\ UNCHANGED <<mode, accounts, cancelled, processes>>

\* Slip: on-failure restarts a clean exit too.
WantedUnlessNo == mode # "no"

\* The restart decision of the policy.
Wanted == mode = "always" \/ (mode = "on-failure" /\ verdict = "fail")

\* Slip: handleExit does not ask whether it was a stop.
HandleExitAnyway ==
  /\ pc = "exited"
  /\ lastExit' = verdict
  /\ \/ ~Wanted /\ pc' = "done" /\ Set(IF verdict = "fail" THEN "errored" ELSE "stopped", FALSE)
     \/ Wanted /\ pc' = "account" /\ UNCHANGED <<state, hasPid>>
  /\ UNCHANGED <<mode, accounts, cancelled, processes>>

\* handleExit up to the decision: a stop request wins over any restart.
HandleExit ==
  /\ pc = "exited"
  /\ lastExit' = verdict
  /\ \/ /\ cancelled
        /\ pc' = "done" /\ Set("stopped", FALSE)
     \/ /\ ~cancelled /\ ~Wanted
        /\ pc' = "done" /\ Set(IF verdict = "fail" THEN "errored" ELSE "stopped", FALSE)
     \/ /\ ~cancelled /\ Wanted
        /\ pc' = "account" /\ UNCHANGED <<state, hasPid>>
  /\ UNCHANGED <<mode, accounts, cancelled, processes>>

\* Slip: only failed short runs count, so clean short runs loop for ever.
CountFailuresOnly(short) == IF short /\ verdict = "fail" THEN unstable + 1 ELSE 0

\* The new value of unstable; short is uptime < MinUptime.
NextUnstable(short) == IF short THEN unstable + 1 ELSE 0

\* Stability accounting, in one critical section.
Account ==
  /\ pc = "account"
  /\ pc' = "judge"
  /\ \E short \in BOOLEAN :
       /\ quick' = short
       /\ unstable' = NextUnstable(short)
       /\ judged' = NextUnstable(short)
  /\ restarts' = IF restarts < RestartCap THEN restarts + 1 ELSE restarts
  /\ UNCHANGED <<mode, published, owed, cancelled, processes>>

\* Slip: one short run too many.
GivesUpLate == judged > MaxRestarts + 1

GivesUp == judged > MaxRestarts

\* Slip: the hook counts failures instead of restarts.
HookOnFailure == owed' = IF verdict = "fail" THEN owed + 1 ELSE owed

OnRestart == owed' = owed + 1

\* onRestart, and only then the crash-loop check.
Judge ==
  /\ pc = "judge"
  /\ OnRestart
  /\ \/ GivesUp /\ pc' = "done" /\ Set("errored", FALSE)
     \/ ~GivesUp /\ pc' = "backoff" /\ Set("restarting", FALSE)
  /\ UNCHANGED <<mode, lastExit, restarts, unstable, judged, quick, cancelled, processes>>

\* The two cases of the backoff select.
BackoffOver ==
  /\ pc = "backoff"
  /\ pc' = "start"
  /\ owed' = owed - 1
  /\ UNCHANGED <<mode, published, restarts, unstable, judged, quick, cancelled, processes>>

CancelBackoff ==
  /\ pc = "backoff"
  /\ cancelled
  /\ pc' = "done"
  /\ Set("stopped", FALSE)
  /\ UNCHANGED <<mode, lastExit, accounts, cancelled, processes>>

Run ==
  \/ Spawn \/ SpawnFails \/ GoOnline \/ SeeExit \/ SeeCancel
  \/ Terminate \/ KillGroup \/ Reap
  \/ HandleExit \/ Account \/ Judge \/ BackoffOver \/ CancelBackoff

-----------------------------------------------------------------------------
(* The other goroutines and the operating system. *)

\* The manager cancels the instance's context.
Cancel ==
  /\ ~cancelled
  /\ cancelled' = TRUE
  /\ UNCHANGED <<mode, pc, published, accounts, processes>>

ResetCounters ==
  /\ restarts' = 0 /\ unstable' = 0
  /\ UNCHANGED <<mode, pc, published, judged, quick, owed, cancelled, processes>>

\* A process exits on its own; the leader's status becomes Wait's result.
ProcessExits ==
  /\ \E m \in tree :
       /\ tree' = tree \ {m}
       /\ verdict' \in IF m = "leader" THEN {"ok", "fail"} ELSE {verdict}
  /\ UNCHANGED <<mode, pc, published, accounts, cancelled, strays>>

\* A process forks: the child is in its group until setsid and has its output
\* until it redirects it.
ProcessForks ==
  /\ \E m \in tree : \E child \in {"sharing", "detached", "escaped"} \ tree :
       /\ child \in Group => m \in Group
       /\ child \in PipeHolders => m \in PipeHolders
       /\ tree' = tree \cup {child}
  /\ UNCHANGED <<mode, pc, published, accounts, cancelled, verdict, strays>>

StraysExit ==
  /\ strays # {}
  /\ strays' = {}
  /\ UNCHANGED <<mode, pc, published, accounts, cancelled, tree, verdict>>

Environment == Cancel \/ ResetCounters \/ ProcessExits \/ ProcessForks \/ StraysExit

Next == Run \/ Environment

\* The Go scheduler runs a goroutine that can run, and timers fire.
Spec == Init /\ [][Next]_vars /\ WF_vars(Run)

-----------------------------------------------------------------------------
(* Safety. *)

\* A process holding the instance's output lives only while Run watches it:
\* when Run spawns again, and when it has returned (the manager's <-done), the
\* leader and everything sharing its pipes have ended, so two processes of one
\* instance never run side by side.
LeaderWatched == tree \cap PipeHolders # {} => pc \in Watching

\* Crash-loop guard: Run never reaches proc.Start once more than MaxRestarts
\* consecutive runs ended before MinUptime, whatever ResetCounters interleaves.
SpawnBudget == pc \in {"backoff", "start"} => unstable <= MaxRestarts

\* What Snapshot shows against what is true: a pid exactly while online, a
\* terminal state exactly when Run returns, with the process reaped, and
\* "stopping" only on request.
PublishedTruth ==
  /\ hasPid <=> state = "online"
  /\ state \in Terminal <=> pc = "done"
  /\ pc = "done" => tree \cap PipeHolders = {}
  /\ state = "stopping" => cancelled

\* How an instance ends without being asked to: the policy's answer to the
\* exit that Snapshot reports (handleExit's switch and the crash-loop check).
EndVerdict ==
  pc = "done" /\ ~cancelled =>
    \/ state = "stopped" /\ lastExit = "ok" /\ mode # "always"
    \/ state = "errored" /\ lastExit = "fail" /\ mode # "always"
    \/ state = "errored" /\ mode = "always" /\ judged > MaxRestarts

\* A stop request that finds a process, or its exit not yet looked at, ends as a
\* stop: whichever case Run's select takes, no restart is counted or prepared, and
\* no crash published.
StopWins ==
  [](cancelled /\ pc \in Watching \cup {"exited"} =>
       [](pc \in Watching \cup {"exited", "done"} /\ (pc = "done" => state = "stopped")))

\* The lifetime total never falls behind the crash-loop counter, although
\* ResetCounters zeroes both from another goroutine (one critical section each).
CountersAgree == restarts >= unstable

\* Every spawn attempt after the first has been announced by exactly one
\* onRestart call since the exit before it.
HookPerRestart ==
  /\ pc = "backoff" => owed = 1
  /\ pc \notin {"backoff", "done"} => owed = 0

\* README: on shutdown, survivors of SIGTERM are SIGKILLed, through the whole
\* process group, so that a stopped instance leaves no member of it behind.
NoLeftovers == pc = "done" /\ cancelled => tree = {}

-----------------------------------------------------------------------------
(* Liveness and refinement. *)

\* A stop request ends: SIGTERM, at worst SIGKILL after KillTimeout, and Run
\* returns, wherever the request found it, unless a descendant outside the group
\* keeps the output open.
CancelEnds == cancelled ~> (pc = "done" \/ "escaped" \in tree)

\* README: whatever survives kill_timeout is SIGKILLed, so that every stop ends.
KillEndsStop == cancelled ~> pc = "done"

\* If from some time on every run ends before MinUptime and nobody resets the
\* counters, restarting stops.
CrashLoopEnds ==
  (<>[]quick /\ <>[][restarts' >= restarts]_vars) => <>[](pc # "account")

\* Run implements the lifecycle the manager relies on.
Lifecycle == INSTANCE InstanceLifecycle WITH over <- (pc = "done")
LifecycleSpec == Lifecycle!Spec
=============================================================================
