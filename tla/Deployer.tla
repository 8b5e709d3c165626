------------------------------ MODULE Deployer ------------------------------
(***************************************************************************)
(* Git deploys of one app name (internal/deploy): a fleet command starts   *)
(* a deploy or redeploy that runs in a goroutine of its own, commits an    *)
(* edit to the app's checkout, or deletes the app.  d.states holds the     *)
(* name's phase, and being in it is what keeps the checkout exclusive.     *)
(* The receiver of a fleet connection executes commands one by one; the    *)
(* receiver of a lost connection may still be executing one.               *)
(*                                                                         *)
(* A step is one critical section of d.mu, one call of the manager, or one *)
(* run of git or of the build.  Definitions headed "Slip" are plausible    *)
(* mistakes; nothing here uses them.                                       *)
(***************************************************************************)
EXTENDS Integers

CONSTANTS
  Handlers,  \* goroutines executing fleet commands
  Jobs,      \* bound: deploy goroutines at the same time
  Calls,     \* the operations that are called
  NoJob      \* no goroutine

ASSUME CallsAssumption ==
  Calls \subseteq {"deploy", "redeploy", "commit", "delete", "cliStart", "cliDelete"}

VARIABLES
  managed,   \* the manager's app of this name: none, git-sourced, or another
  phase,     \* d.states[name].phase, "none" when absent
  tree,      \* the checkout in deployRoot/name
  jobs,      \* the runDeploy goroutines
  desk,      \* handler -> where it is in its command
  dropped,   \* history: what a delete has removed since a deploy was accepted:
             \* "all" when it named the app, "app" when by id or "all", or "no"
  torn       \* history: a Forget has met work in flight or an app just launched

vars == <<managed, phase, tree, jobs, desk, dropped, torn>>

-----------------------------------------------------------------------------
\* The checkout: missing, partly written, with an uncommitted edit, without a
\* file that its commit has, complete but not built, built.
Trees == {"none", "partial", "dirty", "lacking", "fetched", "built"}
InFlight == {"cloning", "building", "committing"}
Phases == {"none", "failed"} \cup InFlight

JobPlaces == {"begin", "wipe", "fetch", "build", "handover", "clear"}
DeskPlaces == {"idle", "checked", "edit", "dirty", "forget", "remove"}

Job == [pc : JobPlaces, redeploy : BOOLEAN]
ASSUME NoJobAssumption == NoJob \notin Job

Desk == [pc : DeskPlaces, op : Calls \cup {"none"}, before : Trees, ok : BOOLEAN]
AtRest == [pc |-> "idle", op |-> "none", before |-> "none", ok |-> FALSE]

\* Every variable has its type.
TypeOK ==
  /\ managed \in {"no", "git", "other"}
  /\ phase \in Phases
  /\ tree \in Trees
  /\ jobs \in [Jobs -> Job \cup {NoJob}]
  /\ desk \in [Handlers -> Desk]
  /\ dropped \in {"no", "app", "all"} /\ torn \in BOOLEAN

Running(j) == jobs[j] # NoJob
Committing(h) == desk[h].pc \in {"edit", "dirty"}
Working == (\E j \in Jobs : Running(j)) \/ (\E h \in Handlers : Committing(h))

Init ==
  /\ managed = "no" /\ phase = "none" /\ tree = "none"
  /\ jobs = [j \in Jobs |-> NoJob]
  /\ desk = [h \in Handlers |-> AtRest]
  /\ dropped = "no" /\ torn = FALSE

-----------------------------------------------------------------------------
(* Start, Redeploy and Commit: a check against the manager, and only then   *)
(* the check and the entry in d.states.                                     *)

Admissible(op) ==
  \/ op = "deploy" /\ managed = "no"
  \/ op = "redeploy" /\ managed = "git"
  \/ op = "commit" /\ managed = "git" /\ tree # "none"

\* The command is refused here when it is not admissible, which changes nothing.
Check(h) ==
  /\ desk[h].pc = "idle"
  /\ \E op \in Calls \cap {"deploy", "redeploy", "commit"} :
       /\ Admissible(op)
       /\ desk' = [desk EXCEPT ![h] = [AtRest EXCEPT !.pc = "checked", !.op = op]]
  /\ UNCHANGED <<managed, phase, tree, jobs, dropped, torn>>

\* Slip: a commit in progress does not count.
BusyDeploying == phase \in {"cloning", "building", "failed"}

Busy == phase # "none"

Refuse(h) ==
  /\ desk[h].pc = "checked"
  /\ Busy
  /\ desk' = [desk EXCEPT ![h] = AtRest]
  /\ UNCHANGED <<managed, phase, tree, jobs, dropped, torn>>

Accept(h) ==
  /\ desk[h].pc = "checked"
  /\ ~Busy
  /\ \/ /\ desk[h].op \in {"deploy", "redeploy"}
        /\ \E j \in Jobs : ~Running(j)
        /\ jobs' = [jobs EXCEPT ![CHOOSE j \in Jobs : ~Running(j)] =
             [pc |-> "begin", redeploy |-> desk[h].op = "redeploy"]]
        /\ phase' = IF desk[h].op = "redeploy" THEN "building" ELSE "cloning"
        /\ dropped' = IF desk[h].op = "redeploy" THEN dropped ELSE "no"
        /\ desk' = [desk EXCEPT ![h] = AtRest]
     \/ /\ desk[h].op = "commit"
        /\ phase' = "committing"
        /\ desk' = [desk EXCEPT ![h].pc = "edit"]
        /\ UNCHANGED <<jobs, dropped>>
  /\ UNCHANGED <<managed, tree, torn>>

-----------------------------------------------------------------------------
(* runDeploy. *)

JobAt(j, place) == Running(j) /\ jobs[j].pc = place
Goto(j, place) == jobs' = [jobs EXCEPT ![j].pc = place]
End(j) == jobs' = [jobs EXCEPT ![j] = NoJob]

\* Slip: phase and detail passed in the wrong order.
FailSwapped(j) == End(j) /\ phase' = "clone failed"

\* Any failure leaves the state failed.
Fail(j) == End(j) /\ phase' = "failed"

Begin(j) ==
  /\ JobAt(j, "begin")
  /\ Goto(j, "wipe")
  /\ phase' = "cloning"
  /\ UNCHANGED <<managed, tree, desk, dropped, torn>>

\* A fresh deploy removes the directory and clones into it; a redeploy fetches
\* and then resets the working tree, or fails before it.
Fetch(j) ==
  /\ JobAt(j, "wipe")
  /\ Goto(j, "fetch")
  /\ tree' \in IF jobs[j].redeploy /\ tree = "none" THEN {"none"}
               ELSE IF jobs[j].redeploy THEN {tree, "partial"}
               ELSE {"partial"}
  /\ UNCHANGED <<managed, phase, desk, dropped, torn>>

\* git succeeds only where its directory still is.
Fetched(j) ==
  /\ JobAt(j, "fetch")
  /\ \/ /\ tree # "none"
        /\ tree' = "fetched"
        /\ Goto(j, "build") /\ phase' = "building"
     \/ Fail(j) /\ UNCHANGED tree
  /\ UNCHANGED <<managed, desk, dropped, torn>>

\* Slip: the error of the build is logged and the deploy goes on.
BuildErrorIgnored(j) ==
  /\ JobAt(j, "build")
  /\ Goto(j, "handover")
  /\ tree' \in {tree, "built"}
  /\ UNCHANGED <<managed, phase, desk, dropped, torn>>

\* The build command, given or detected; none succeeds trivially.
Build(j) ==
  /\ JobAt(j, "build")
  /\ \/ /\ tree' = IF tree = "fetched" THEN "built" ELSE tree
        /\ Goto(j, "handover") /\ UNCHANGED phase
     \/ Fail(j) /\ UNCHANGED tree
  /\ UNCHANGED <<managed, desk, dropped, torn>>

\* host.Restart of what is managed under the name, or host.Launch of a new app.
Handover(j) ==
  /\ JobAt(j, "handover")
  /\ IF jobs[j].redeploy = (managed # "no")
       THEN /\ Goto(j, "clear") /\ UNCHANGED phase
            /\ managed' = IF jobs[j].redeploy THEN managed ELSE "git"
       ELSE Fail(j) /\ UNCHANGED managed
  /\ UNCHANGED <<tree, desk, dropped, torn>>

\* Slip: the entry of a deploy that succeeded stays.
ClearForgotten(j) ==
  /\ JobAt(j, "clear")
  /\ End(j)
  /\ UNCHANGED <<managed, phase, tree, desk, dropped, torn>>

Clear(j) ==
  /\ JobAt(j, "clear")
  /\ End(j) /\ phase' = "none"
  /\ UNCHANGED <<managed, tree, desk, dropped, torn>>

JobStep(j) == Begin(j) \/ Fetch(j) \/ Fetched(j) \/ Build(j) \/ Handover(j) \/ Clear(j)

-----------------------------------------------------------------------------
(* mutateAndPush; the deferred clearState runs when it returns. *)

Commits(h) == desk' = [desk EXCEPT ![h] = AtRest] /\ phase' = "none"

\* The branch gate and the path checks, and then the edit itself.
CommitEdit(h) ==
  /\ desk[h].pc = "edit"
  /\ \/ /\ tree # "none"
        /\ tree' = "dirty"
        /\ desk' = [desk EXCEPT ![h].pc = "dirty", ![h].before = tree]
        /\ UNCHANGED phase
     \/ Commits(h) /\ UNCHANGED tree
  /\ UNCHANGED <<managed, jobs, dropped, torn>>

\* Slip: a failed push is not rolled back.
NoRollback(h) == {tree}

\* rollback: reset --hard to the commit found before the edit, which brings a
\* missing file back, and then the removal of the path that a create or rename
\* was to make, also when the commit has a file there.
RolledBack(h) ==
  {IF tree # "dirty" THEN tree ELSE IF desk[h].before = "lacking" THEN "fetched" ELSE desk[h].before}
    \cup IF tree \in {"none", "partial"} THEN {} ELSE {"lacking"}

\* The commit and the push.  A success leaves a new commit that is not built, and
\* what was missing is so still, unless the edit was to make it.
CommitEnd(h) ==
  /\ desk[h].pc = "dirty"
  /\ Commits(h)
  /\ \/ tree = "dirty" /\ tree' \in {"fetched", desk[h].before} \cap {"fetched", "lacking"}
     \/ tree' \in RolledBack(h)
  /\ UNCHANGED <<managed, jobs, dropped, torn>>

-----------------------------------------------------------------------------
(* The fleet's delete: Manager.Delete, then Forget, whatever that returned.  *)
(* Both are given the selector; the name is taken not to be another app's id. *)

FreshDeploy == \E j \in Jobs : Running(j) /\ ~jobs[j].redeploy

\* By id or "all": no entry and no directory has that name, and Forget finds none.
DeleteBySelector(h) ==
  /\ "delete" \in Calls
  /\ desk[h].pc = "idle"
  /\ managed # "no" /\ managed' = "no"
  /\ dropped' = IF dropped = "all" \/ FreshDeploy THEN dropped ELSE "app"
  /\ UNCHANGED <<phase, tree, jobs, desk, torn>>

\* By name.
Delete(h) ==
  /\ "delete" \in Calls
  /\ desk[h].pc = "idle"
  /\ desk' = [desk EXCEPT ![h] =
       [AtRest EXCEPT !.pc = "forget", !.op = "delete", !.ok = (managed # "no")]]
  /\ managed' = "no"
  /\ UNCHANGED <<phase, tree, jobs, dropped, torn>>

Forget(h) ==
  /\ desk[h].pc = "forget"
  /\ phase' = "none"
  /\ desk' = [desk EXCEPT ![h].pc = "remove", ![h].ok = desk[h].ok \/ phase # "none"]
  /\ torn' = (torn \/ Working \/ managed = "git")
  /\ UNCHANGED <<managed, tree, jobs, dropped>>

\* Slip: the directory of a deleted app is left behind.
KeepTree == tree

WithoutTree == "none"

ForgetTree(h) ==
  /\ desk[h].pc = "remove"
  /\ tree' = WithoutTree
  /\ desk' = [desk EXCEPT ![h] = AtRest]
  /\ dropped' = IF desk[h].ok THEN "all" ELSE dropped
  /\ torn' = (torn \/ Working \/ managed = "git")
  /\ UNCHANGED <<managed, phase, jobs>>

HandlerStep(h) ==
  Refuse(h) \/ Accept(h) \/ CommitEdit(h) \/ CommitEnd(h) \/ Forget(h) \/ ForgetTree(h)

-----------------------------------------------------------------------------
(* The daemon's own RPCs know nothing of d.states. *)

CliStart ==
  /\ "cliStart" \in Calls
  /\ managed = "no" /\ managed' = "other"
  /\ UNCHANGED <<phase, tree, jobs, desk, dropped, torn>>

CliDelete ==
  /\ "cliDelete" \in Calls
  /\ managed # "no" /\ managed' = "no"
  /\ UNCHANGED <<phase, tree, jobs, desk, dropped, torn>>

Next ==
  \/ \E h \in Handlers : Check(h) \/ Delete(h) \/ DeleteBySelector(h) \/ HandlerStep(h)
  \/ \E j \in Jobs : JobStep(j)
  \/ CliStart \/ CliDelete

\* Goroutines that can run do, and git and the build end: nothing bounds them
\* (runDeploy uses context.Background), so this is assumed of the commands.
Fairness ==
  /\ \A j \in Jobs : WF_vars(JobStep(j))
  /\ \A h \in Handlers : WF_vars(HandlerStep(h))

Spec == Init /\ [][Next]_vars /\ Fairness

-----------------------------------------------------------------------------
(* Safety. *)

\* The entry in d.states is a lock on the checkout: as long as no Forget broke
\* into work in flight, at most one deploy or commit works, and exactly then the
\* entry says so.
Exclusive ==
  ~torn =>
    /\ \A j, k \in Jobs : Running(j) /\ Running(k) => j = k
    /\ \A h, i \in Handlers : Committing(h) /\ Committing(i) => h = i
    /\ \A j \in Jobs, h \in Handlers : ~(Running(j) /\ Committing(h))
    /\ Working <=> phase \in InFlight

\* The app is started and restarted only from a checkout that was fetched and
\* built completely ("swap only on success").
SwapOnSuccess ==
  [][\A j \in Jobs :
       ~torn /\ managed' = "git" /\ JobAt(j, "handover") /\ jobs[j] # jobs'[j] =>
         tree = "built"]_vars

\* With nobody at work, the checkout holds no uncommitted edit (what a failed
\* commit may have left is a file less), and a half written one belongs to a
\* deploy that shows as failed or is being removed.
TreeSettled ==
  ~torn /\ ~Working =>
    /\ tree # "dirty"
    /\ tree = "partial" => phase = "failed" \/ \E h \in Handlers : desk[h].pc = "remove"

\* A deleted app is gone, and with its checkout when the delete named it, also for
\* a redeploy or commit whose check against the manager came before the delete.
DeletedIsGone ==
  ~torn => /\ dropped # "no" => managed # "git"
           /\ dropped = "all" => tree = "none"

\* What handleFleetCommand says of a delete that Forget satisfied, "in-flight
\* deploy, now cleared": the app does not come back by itself.
DeletedStaysDeleted == dropped = "all" => managed # "git"

\* Start: a duplicate name is rejected, so that no fresh deploy ever rewrites
\* the checkout of a git app that is managed.
RunningTreeKept ==
  managed = "git" => \A j \in Jobs : JobAt(j, "fetch") => jobs[j].redeploy

-----------------------------------------------------------------------------
(* Liveness. *)

\* An entry in flight does not stay: it is cleared or becomes failed, whatever
\* deletes and further deploys do meanwhile.
PhaseEnds == phase \in InFlight ~> phase \in {"none", "failed"}
=============================================================================
