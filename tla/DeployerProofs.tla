--------------------------- MODULE DeployerProofs ---------------------------
(***************************************************************************)
(* Theorems about Deployer for any number of command handlers and deploy   *)
(* goroutines: its safety properties, from one inductive invariant.        *)
(***************************************************************************)
EXTENDS Deployer, TLAPS

-----------------------------------------------------------------------------
(* The inductive invariant.  What follows Exclusive holds only where no     *)
(* Forget broke into work in flight: each part says what the one goroutine  *)
(* at work knows of the checkout that nobody else may change.               *)

\* A tree that a deploy has written is as far as the deploy is.
JobKnowsTree ==
  ~torn => \A j \in Jobs :
    /\ JobAt(j, "build") => tree = "fetched"
    /\ JobAt(j, "handover") \/ JobAt(j, "clear") => tree = "built"

Removing == \E h \in Handlers : desk[h].pc = "remove"

\* A half written tree is explained: by a fetch, a failed deploy, or a delete.
PartialExplained ==
  ~torn /\ tree = "partial" =>
    (\E j \in Jobs : JobAt(j, "fetch")) \/ phase = "failed" \/ Removing

\* An uncommitted edit is that of the commit under way, which knows what to
\* return to.
EditOwned ==
  ~torn =>
    /\ tree = "dirty" => \E h \in Handlers : desk[h].pc = "dirty"
    /\ \A h \in Handlers : desk[h].pc = "dirty" =>
         tree = "dirty" /\ desk[h].before # "dirty" /\ (desk[h].before = "partial" => Removing)

\* After a delete only redeploys are at work, and in vain; where the delete named
\* the app they have no directory to work in either.
NothingComesBack ==
  ~torn =>
    /\ dropped # "no" => managed # "git" /\ \A j \in Jobs : Running(j) => jobs[j].redeploy
    /\ dropped = "all" => tree = "none"

IInv ==
  /\ TypeOK
  /\ Exclusive
  /\ JobKnowsTree
  /\ PartialExplained
  /\ EditOwned
  /\ NothingComesBack

-----------------------------------------------------------------------------
(* What the steps do to jobs and desk, one entry at a time. *)

LEMMA GotoMoves ==
  ASSUME TypeOK, NEW j \in Jobs, NEW place \in JobPlaces, Running(j), Goto(j, place)
  PROVE  /\ Running(j)' /\ jobs'[j] \in Job
         /\ jobs'[j].pc = place /\ jobs'[j].redeploy = jobs[j].redeploy
         /\ \A k \in Jobs : k # j => jobs'[k] = jobs[k]
         /\ jobs' \in [Jobs -> Job \cup {NoJob}]
<1>1. jobs[j] \in Job
  BY DEF TypeOK, Running
<1>2. /\ [jobs[j] EXCEPT !.pc = place] \in Job
      /\ [jobs[j] EXCEPT !.pc = place].pc = place
      /\ [jobs[j] EXCEPT !.pc = place].redeploy = jobs[j].redeploy
  BY <1>1 DEF Job
<1>3. jobs' = [jobs EXCEPT ![j] = [jobs[j] EXCEPT !.pc = place]]
  BY DEF Goto
<1> HIDE DEF Job
<1>4. QED
  BY <1>2, <1>3, NoJobAssumption DEF TypeOK, Running

LEMMA EndStops ==
  ASSUME TypeOK, NEW j \in Jobs, End(j)
  PROVE  /\ ~Running(j)'
         /\ \A k \in Jobs : k # j => jobs'[k] = jobs[k]
         /\ jobs' \in [Jobs -> Job \cup {NoJob}]
  BY DEF TypeOK, End, Running

\* Who works alone, as long as the entry is a lock.
LEMMA AloneAtWork ==
  ASSUME Exclusive, ~torn, NEW j \in Jobs, Running(j)
  PROVE  /\ \A k \in Jobs : Running(k) => k = j
         /\ \A h \in Handlers : ~Committing(h)
         /\ phase \in InFlight
  BY DEF Exclusive, Working

LEMMA AloneCommitting ==
  ASSUME Exclusive, ~torn, NEW h \in Handlers, Committing(h)
  PROVE  /\ \A i \in Handlers : Committing(i) => i = h
         /\ \A j \in Jobs : ~Running(j)
         /\ phase \in InFlight
  BY DEF Exclusive, Working

\* A job that goes on keeps the entry in flight, and one that ends gives it up.
LEMMA JobKeepsLock ==
  ASSUME Exclusive, NEW j \in Jobs, Running(j),
         UNCHANGED <<desk, torn>>,
         \A k \in Jobs : k # j => jobs'[k] = jobs[k],
         phase \in InFlight => (Running(j)' <=> phase' \in InFlight)
  PROVE  Exclusive'
  BY DEF Exclusive, Working, Running, Committing

LEMMA CommitKeepsLock ==
  ASSUME Exclusive, NEW h \in Handlers, Committing(h),
         UNCHANGED <<jobs, torn>>,
         \A i \in Handlers : i # h => desk'[i] = desk[i],
         phase \in InFlight => (Committing(h)' <=> phase' \in InFlight)
  PROVE  Exclusive'
  BY DEF Exclusive, Working, Running, Committing

LEMMA InitIInv == Init => IInv
<1> SUFFICES ASSUME Init PROVE IInv
  OBVIOUS
<1>1. TypeOK
  BY DEF Init, TypeOK, Phases, InFlight, Trees, Desk, DeskPlaces, AtRest
<1>2. (\A j \in Jobs : ~Running(j)) /\ \A h \in Handlers : desk[h].pc = "idle"
  BY DEF Init, Running, AtRest
<1>3. QED
  BY <1>1, <1>2 DEF Init, IInv, Exclusive, JobKnowsTree, PartialExplained, EditOwned,
     NothingComesBack, Working, Committing, InFlight, JobAt

-----------------------------------------------------------------------------
(* The steps of a deploy. *)

LEMMA JobStepIInv ==
  ASSUME IInv, NEW j \in Jobs, JobStep(j)
  PROVE  IInv'
<1> USE DEF IInv
<1>1. CASE Begin(j)
  <2>1. Running(j) /\ Goto(j, "wipe") /\ "wipe" \in JobPlaces
    BY <1>1 DEF Begin, JobAt, JobPlaces
  <2>2. TypeOK'
    BY <1>1, <2>1, GotoMoves DEF Begin, TypeOK, Phases, InFlight, Trees
  <2>3. Exclusive'
    BY <1>1, <2>1, GotoMoves, JobKeepsLock DEF Begin, InFlight
  <2>4. ASSUME ~torn PROVE JobKnowsTree' /\ PartialExplained' /\ EditOwned' /\ NothingComesBack'
    BY <1>1, <2>1, <2>4, GotoMoves, AloneAtWork
       DEF Begin, TypeOK, Trees, JobKnowsTree, PartialExplained, EditOwned, NothingComesBack,
           Removing, JobAt, Running, Committing, InFlight
  <2>5. QED
    BY <1>1, <2>2, <2>3, <2>4
       DEF Begin, JobKnowsTree, PartialExplained, EditOwned, NothingComesBack
<1>2. CASE Fetch(j)
  <2>1. Running(j) /\ Goto(j, "fetch") /\ "fetch" \in JobPlaces
    BY <1>2 DEF Fetch, JobAt, JobPlaces
  <2>2. TypeOK'
    BY <1>2, <2>1, GotoMoves DEF Fetch, TypeOK, Phases, InFlight, Trees
  <2>3. Exclusive'
    BY <1>2, <2>1, GotoMoves, JobKeepsLock DEF Fetch, InFlight
  <2>4. ASSUME ~torn PROVE JobKnowsTree' /\ PartialExplained' /\ EditOwned' /\ NothingComesBack'
    BY <1>2, <2>1, <2>4, GotoMoves, AloneAtWork
       DEF Fetch, TypeOK, Trees, JobKnowsTree, PartialExplained, EditOwned, NothingComesBack,
           Removing, JobAt, Running, Committing, InFlight
  <2>5. QED
    BY <1>2, <2>2, <2>3, <2>4
       DEF Fetch, JobKnowsTree, PartialExplained, EditOwned, NothingComesBack
<1>3. CASE Fetched(j)
  <2>1. Running(j) /\ "build" \in JobPlaces
    BY <1>3 DEF Fetched, JobAt, JobPlaces
  <2>2. TypeOK'
    BY <1>3, <2>1, GotoMoves, EndStops DEF Fetched, Fail, TypeOK, Phases, InFlight, Trees
  <2>3. Exclusive'
    BY <1>3, <2>1, GotoMoves, EndStops, JobKeepsLock DEF Fetched, Fail, InFlight
  <2>4. ASSUME ~torn PROVE JobKnowsTree' /\ PartialExplained' /\ EditOwned' /\ NothingComesBack'
    BY <1>3, <2>1, <2>4, GotoMoves, EndStops, AloneAtWork
       DEF Fetched, Fail, TypeOK, Trees, JobKnowsTree, PartialExplained, EditOwned, NothingComesBack,
           Removing, JobAt, Running, Committing, InFlight
  <2>5. QED
    BY <1>3, <2>2, <2>3, <2>4
       DEF Fetched, JobKnowsTree, PartialExplained, EditOwned, NothingComesBack
<1>4. CASE Build(j)
  <2>1. Running(j) /\ "handover" \in JobPlaces
    BY <1>4 DEF Build, JobAt, JobPlaces
  <2>2. TypeOK'
    BY <1>4, <2>1, GotoMoves, EndStops DEF Build, Fail, TypeOK, Phases, InFlight, Trees
  <2>3. Exclusive'
    BY <1>4, <2>1, GotoMoves, EndStops, JobKeepsLock DEF Build, Fail, InFlight
  <2>4. ASSUME ~torn PROVE JobKnowsTree' /\ PartialExplained' /\ EditOwned' /\ NothingComesBack'
    BY <1>4, <2>1, <2>4, GotoMoves, EndStops, AloneAtWork
       DEF Build, Fail, TypeOK, Trees, JobKnowsTree, PartialExplained, EditOwned, NothingComesBack,
           Removing, JobAt, Running, Committing, InFlight
  <2>5. QED
    BY <1>4, <2>2, <2>3, <2>4
       DEF Build, JobKnowsTree, PartialExplained, EditOwned, NothingComesBack
<1>5. CASE Handover(j)
  <2>1. Running(j) /\ "clear" \in JobPlaces
    BY <1>5 DEF Handover, JobAt, JobPlaces
  <2>2. TypeOK'
    BY <1>5, <2>1, GotoMoves, EndStops DEF Handover, Fail, TypeOK, Phases, InFlight, Trees
  <2>3. Exclusive'
    BY <1>5, <2>1, GotoMoves, EndStops, JobKeepsLock DEF Handover, Fail, InFlight
  <2>4. ASSUME ~torn PROVE JobKnowsTree' /\ PartialExplained' /\ EditOwned' /\ NothingComesBack'
    BY <1>5, <2>1, <2>4, GotoMoves, EndStops, AloneAtWork
       DEF Handover, Fail, TypeOK, Trees, JobKnowsTree, PartialExplained, EditOwned, NothingComesBack,
           Removing, JobAt, Running, Committing, InFlight
  <2>5. QED
    BY <1>5, <2>2, <2>3, <2>4
       DEF Handover, JobKnowsTree, PartialExplained, EditOwned, NothingComesBack
<1>6. CASE Clear(j)
  <2>1. Running(j) /\ End(j)
    BY <1>6 DEF Clear, JobAt, JobPlaces
  <2>2. TypeOK'
    BY <1>6, <2>1, EndStops DEF Clear, TypeOK, Phases, InFlight, Trees
  <2>3. Exclusive'
    BY <1>6, <2>1, EndStops, JobKeepsLock DEF Clear, InFlight
  <2>4. ASSUME ~torn PROVE JobKnowsTree' /\ PartialExplained' /\ EditOwned' /\ NothingComesBack'
    BY <1>6, <2>1, <2>4, EndStops, AloneAtWork
       DEF Clear, TypeOK, Trees, JobKnowsTree, PartialExplained, EditOwned, NothingComesBack,
           Removing, JobAt, Running, Committing, InFlight
  <2>5. QED
    BY <1>6, <2>2, <2>3, <2>4
       DEF Clear, JobKnowsTree, PartialExplained, EditOwned, NothingComesBack
<1>7. QED
  BY <1>1, <1>2, <1>3, <1>4, <1>5, <1>6 DEF JobStep

-----------------------------------------------------------------------------
(* The steps of a handler. *)

LEMMA DeskTypes ==
  /\ AtRest \in Desk /\ AtRest.pc = "idle"
  /\ \A op \in Calls, ok \in BOOLEAN, place \in DeskPlaces :
       [pc |-> place, op |-> op, before |-> "none", ok |-> ok] \in Desk
  BY DEF AtRest, Desk, DeskPlaces, Trees

LEMMA StepsAside ==
  ASSUME IInv, NEW h \in Handlers, Check(h) \/ Delete(h) \/ DeleteBySelector(h) \/ Refuse(h)
  PROVE  IInv'
<1> USE DEF IInv
<1>1. CASE Check(h)
  <2>1. PICK op \in Calls : desk' = [desk EXCEPT ![h] = [pc |-> "checked", op |-> op, before |-> "none", ok |-> FALSE]]
    BY <1>1 DEF Check, AtRest
  <2>2. [pc |-> "checked", op |-> op, before |-> "none", ok |-> FALSE] \in Desk
    BY DeskTypes DEF DeskPlaces
  <2>3. TypeOK'
    BY <1>1, <2>1, <2>2 DEF Check, TypeOK
  <2>4. desk[h].pc = "idle" /\ desk'[h].pc = "checked" /\ \A i \in Handlers : i # h => desk'[i] = desk[i]
    BY <1>1, <2>1 DEF Check, TypeOK
  <2>5. JobKnowsTree' /\ NothingComesBack'
    BY <1>1 DEF Check, JobKnowsTree, NothingComesBack, JobAt, Running
  <2>6. QED
    BY <1>1, <2>3, <2>4, <2>5
       DEF Check, Exclusive, PartialExplained, EditOwned, Removing, JobAt, Working, Running, Committing
<1>2. CASE Delete(h)
  <2>1. TypeOK'
    BY <1>2 DEF Delete, TypeOK, Desk, DeskPlaces, Trees, AtRest
  <2>2. desk[h].pc = "idle" /\ desk'[h].pc = "forget" /\ \A i \in Handlers : i # h => desk'[i] = desk[i]
    BY <1>2 DEF Delete, TypeOK
  <2>3. QED
    BY <1>2, <2>1, <2>2
       DEF Delete, Exclusive, JobKnowsTree, PartialExplained, EditOwned, NothingComesBack, Removing,
           JobAt, Working, Running, Committing
<1>3. CASE Refuse(h)
  <2>1. TypeOK'
    BY <1>3, DeskTypes DEF Refuse, TypeOK
  <2>2. desk[h].pc = "checked" /\ desk'[h].pc = "idle" /\ \A i \in Handlers : i # h => desk'[i] = desk[i]
    BY <1>3, DeskTypes DEF Refuse, TypeOK
  <2>3. QED
    BY <1>3, <2>1, <2>2
       DEF Refuse, Exclusive, JobKnowsTree, PartialExplained, EditOwned, NothingComesBack, Removing,
           JobAt, Working, Running, Committing
<1>4. CASE DeleteBySelector(h)
  <2>1. TypeOK'
    BY <1>4 DEF DeleteBySelector, TypeOK
  <2>2. NothingComesBack'
    BY <1>4 DEF DeleteBySelector, FreshDeploy, TypeOK, NothingComesBack, Running
  <2>3. QED
    BY <1>4, <2>1, <2>2
       DEF DeleteBySelector, Exclusive, JobKnowsTree, PartialExplained, EditOwned, Removing,
           JobAt, Working, Running, Committing
<1>5. QED
  BY <1>1, <1>2, <1>3, <1>4

LEMMA AcceptIInv ==
  ASSUME IInv, NEW h \in Handlers, Accept(h)
  PROVE  IInv'
<1> USE DEF IInv
<1>1. ~torn => ~Working
  BY DEF Accept, Busy, Exclusive, InFlight
<1>2. CASE desk[h].op \in {"deploy", "redeploy"}
  <2> DEFINE job == [pc |-> "begin", redeploy |-> desk[h].op = "redeploy"]
  <2>1. PICK new \in Jobs : ~Running(new) /\ jobs' = [jobs EXCEPT ![new] = job]
    <3>1. \E j \in Jobs : ~Running(j)
      BY <1>2 DEF Accept
    <3>2. (CHOOSE j \in Jobs : ~Running(j)) \in Jobs /\ ~Running(CHOOSE j \in Jobs : ~Running(j))
      BY <3>1
    <3>3. jobs' = [jobs EXCEPT ![CHOOSE j \in Jobs : ~Running(j)] = job]
      BY <1>2 DEF Accept
    <3>4. QED
      BY <3>2, <3>3
  <2>2. job \in Job /\ job.pc = "begin"
    BY DEF Job, JobPlaces
  <2>3. job.redeploy = (desk[h].op = "redeploy")
    OBVIOUS
  <2>5. desk' = [desk EXCEPT ![h] = AtRest]
    BY <1>2 DEF Accept
  <2> HIDE DEF job
  <2>6. /\ jobs'[new] = job /\ Running(new)'
        /\ \A j \in Jobs : j # new => jobs'[j] = jobs[j]
        /\ jobs' \in [Jobs -> Job \cup {NoJob}]
    BY <2>1, <2>2, NoJobAssumption DEF TypeOK, Running
  <2>7. /\ desk[h].pc = "checked" /\ desk'[h].pc = "idle"
        /\ \A i \in Handlers : i # h => desk'[i] = desk[i]
        /\ desk' \in [Handlers -> Desk]
    BY <2>5, DeskTypes DEF Accept, TypeOK
  <2>8. phase' \in {"cloning", "building"} /\ dropped' = IF desk[h].op = "redeploy" THEN dropped ELSE "no"
    BY <1>2 DEF Accept
  <2>9. TypeOK'
    BY <2>6, <2>7, <2>8 DEF Accept, TypeOK, Phases, InFlight
  <2>10. ASSUME ~torn PROVE Exclusive'
    BY <1>1, <2>1, <2>6, <2>7, <2>8, <2>10 DEF Exclusive, Working, Running, Committing, InFlight
  <2>11. ASSUME ~torn PROVE JobKnowsTree' /\ EditOwned'
    BY <1>1, <2>1, <2>2, <2>6, <2>7, <2>11
       DEF Accept, JobKnowsTree, EditOwned, Removing, JobAt, Working, Running, Committing
  <2>12. ASSUME ~torn PROVE PartialExplained'
    BY <1>1, <2>7, <2>12 DEF Accept, Busy, PartialExplained, Removing, JobAt, Working
  <2>13. ASSUME ~torn PROVE NothingComesBack'
    BY <1>1, <2>1, <2>3, <2>6, <2>8, <2>13 DEF Accept, NothingComesBack, Working, Running
  <2>14. QED
    BY <2>9, <2>10, <2>11, <2>12, <2>13
       DEF Accept, Exclusive, JobKnowsTree, PartialExplained, EditOwned, NothingComesBack
<1>3. CASE desk[h].op = "commit"
  <2>1. phase' = "committing" /\ desk' = [desk EXCEPT ![h].pc = "edit"] /\ UNCHANGED <<jobs, dropped>>
    BY <1>3 DEF Accept
  <2>2. /\ desk[h].pc = "checked" /\ desk'[h].pc = "edit"
        /\ \A i \in Handlers : i # h => desk'[i] = desk[i]
        /\ desk' \in [Handlers -> Desk]
    BY <2>1 DEF Accept, TypeOK, Desk, DeskPlaces
  <2>3. TypeOK'
    BY <2>1, <2>2 DEF Accept, TypeOK, Phases, InFlight
  <2>4. ASSUME ~torn PROVE Exclusive'
    BY <1>1, <2>1, <2>2, <2>4 DEF Exclusive, Working, Running, Committing, InFlight
  <2>5. ASSUME ~torn PROVE JobKnowsTree' /\ EditOwned' /\ PartialExplained' /\ NothingComesBack'
    BY <1>1, <2>1, <2>2, <2>5
       DEF Accept, Busy, JobKnowsTree, EditOwned, PartialExplained, NothingComesBack, Removing, JobAt,
           Working, Running, Committing
  <2>6. QED
    BY <2>3, <2>4, <2>5
       DEF Accept, Exclusive, JobKnowsTree, PartialExplained, EditOwned, NothingComesBack
<1>4. QED
  BY <1>2, <1>3 DEF Accept

LEMMA CommitStepIInv ==
  ASSUME IInv, NEW h \in Handlers, CommitEdit(h) \/ CommitEnd(h)
  PROVE  IInv'
<1> USE DEF IInv
<1>1. CASE CommitEdit(h) /\ desk'[h].pc = "dirty"
  <2>1. /\ tree # "none" /\ tree' = "dirty" /\ phase' = phase
        /\ desk' = [desk EXCEPT ![h].pc = "dirty", ![h].before = tree]
    BY <1>1, DeskTypes DEF CommitEdit, Commits, TypeOK
  <2>2. /\ desk[h].pc = "edit" /\ desk'[h].before = tree
        /\ \A i \in Handlers : i # h => desk'[i] = desk[i]
    BY <1>1, <2>1 DEF CommitEdit, TypeOK, Desk
  <2>3. desk' \in [Handlers -> Desk]
    BY <2>1 DEF TypeOK, Desk, DeskPlaces
  <2>4. TypeOK'
    BY <1>1, <2>1, <2>3 DEF CommitEdit, TypeOK, Trees
  <2>5. Exclusive'
    BY <1>1, <2>1, <2>2, CommitKeepsLock DEF CommitEdit, Committing
  <2>6. ASSUME ~torn PROVE JobKnowsTree' /\ PartialExplained' /\ NothingComesBack'
    BY <1>1, <2>1, <2>2, <2>6, AloneCommitting
       DEF CommitEdit, JobKnowsTree, PartialExplained, NothingComesBack, JobAt, Running, Committing
  <2>7. ASSUME ~torn PROVE EditOwned'
    <3>1. Committing(h)
      BY <2>2 DEF Committing
    <3>2. tree # "dirty"
      BY <2>2, <2>7, <3>1, AloneCommitting DEF EditOwned, Committing
    <3>3. tree = "partial" => \E i \in Handlers : i # h /\ desk[i].pc = "remove"
      BY <2>2, <2>7, <3>1, AloneCommitting DEF PartialExplained, Removing, JobAt, InFlight
    <3>4. \A i \in Handlers : i # h => desk'[i].pc # "dirty"
      BY <2>2, <2>7, <3>1, AloneCommitting DEF Committing
    <3>5. QED
      BY <1>1, <2>1, <2>2, <3>2, <3>3, <3>4 DEF EditOwned, Removing
  <2>8. QED
    BY <1>1, <2>4, <2>5, <2>6, <2>7
       DEF CommitEdit, JobKnowsTree, PartialExplained, EditOwned, NothingComesBack
<1>2. CASE CommitEdit(h) /\ desk'[h].pc # "dirty"
  <2>1. /\ desk' = [desk EXCEPT ![h] = AtRest] /\ phase' = "none" /\ tree' = tree
        /\ desk[h].pc = "edit"
    BY <1>2 DEF CommitEdit, Commits, TypeOK, Desk
  <2>2. /\ desk'[h].pc = "idle" /\ \A i \in Handlers : i # h => desk'[i] = desk[i]
        /\ desk' \in [Handlers -> Desk]
    BY <2>1, DeskTypes DEF TypeOK
  <2>3. TypeOK'
    BY <1>2, <2>1, <2>2 DEF CommitEdit, TypeOK, Phases
  <2>4. Exclusive'
    BY <1>2, <2>1, <2>2, CommitKeepsLock DEF CommitEdit, Committing, InFlight
  <2>5. ASSUME ~torn PROVE JobKnowsTree' /\ PartialExplained' /\ EditOwned' /\ NothingComesBack'
    BY <1>2, <2>1, <2>2, <2>5, AloneCommitting
       DEF CommitEdit, JobKnowsTree, PartialExplained, EditOwned, NothingComesBack, Removing, JobAt,
           Running, Committing, InFlight
  <2>6. QED
    BY <1>2, <2>3, <2>4, <2>5
       DEF CommitEdit, JobKnowsTree, PartialExplained, EditOwned, NothingComesBack
<1>3. CASE CommitEnd(h)
  <2>1. /\ desk' = [desk EXCEPT ![h] = AtRest] /\ phase' = "none" /\ desk[h].pc = "dirty"
    BY <1>3 DEF CommitEnd, Commits
  <2>2. /\ desk'[h].pc = "idle" /\ \A i \in Handlers : i # h => desk'[i] = desk[i]
        /\ desk' \in [Handlers -> Desk]
    BY <2>1, DeskTypes DEF TypeOK
  <2>3. TypeOK'
    BY <1>3, <2>1, <2>2 DEF CommitEnd, RolledBack, TypeOK, Phases, Trees, Desk
  <2>4. Exclusive'
    BY <1>3, <2>1, <2>2, CommitKeepsLock DEF CommitEnd, Committing, InFlight
  <2>5. ASSUME ~torn PROVE JobKnowsTree' /\ PartialExplained' /\ EditOwned' /\ NothingComesBack'
    BY <1>3, <2>1, <2>2, <2>5, AloneCommitting
       DEF CommitEnd, RolledBack, JobKnowsTree, PartialExplained, EditOwned, NothingComesBack, Removing,
           JobAt, Running, Committing, InFlight
  <2>6. QED
    BY <1>3, <2>3, <2>4, <2>5
       DEF CommitEnd, JobKnowsTree, PartialExplained, EditOwned, NothingComesBack
<1>4. QED
  BY <1>1, <1>2, <1>3

LEMMA ForgetStepIInv ==
  ASSUME IInv, NEW h \in Handlers, Forget(h) \/ ForgetTree(h)
  PROVE  IInv'
<1> USE DEF IInv
<1>1. CASE Forget(h)
  <2> DEFINE ok == desk[h].ok \/ phase # "none"
  <2>1. ok \in BOOLEAN
    OBVIOUS
  <2>2. desk' = [desk EXCEPT ![h].pc = "remove", ![h].ok = ok] /\ desk[h].pc = "forget"
    BY <1>1 DEF Forget
  <2> HIDE DEF ok
  <2>3. /\ desk'[h].pc = "remove" /\ \A i \in Handlers : i # h => desk'[i] = desk[i]
        /\ desk' \in [Handlers -> Desk]
    BY <2>1, <2>2 DEF TypeOK, Desk, DeskPlaces
  <2>4. TypeOK'
    <3>1. torn' \in BOOLEAN
      BY <1>1 DEF Forget, TypeOK
    <3>2. QED
      BY <1>1, <2>3, <3>1 DEF Forget, TypeOK, Phases
  <2>5. ASSUME ~torn' PROVE ~torn /\ ~Working /\ ~Working' /\ phase' = "none"
    BY <1>1, <2>2, <2>3, <2>5 DEF Forget, Working, Running, Committing
  <2>6. ASSUME ~torn' PROVE Exclusive'
    BY <2>5, <2>6 DEF Exclusive, Working, InFlight
  <2>7. ASSUME ~torn' PROVE JobKnowsTree' /\ PartialExplained' /\ EditOwned' /\ NothingComesBack'
    BY <1>1, <2>2, <2>3, <2>5, <2>7
       DEF Forget, JobKnowsTree, PartialExplained, EditOwned, NothingComesBack, Removing, JobAt,
           Working, Running, Committing
  <2>8. QED
    BY <2>4, <2>6, <2>7 DEF Exclusive, JobKnowsTree, PartialExplained, EditOwned, NothingComesBack
<1>2. CASE ForgetTree(h)
  <2>1. /\ desk' = [desk EXCEPT ![h] = AtRest] /\ tree' = "none" /\ desk[h].pc = "remove"
    BY <1>2 DEF ForgetTree, WithoutTree
  <2>2. /\ desk'[h].pc = "idle" /\ \A i \in Handlers : i # h => desk'[i] = desk[i]
        /\ desk' \in [Handlers -> Desk]
    BY <2>1, DeskTypes DEF TypeOK
  <2>3. TypeOK'
    BY <1>2, <2>1, <2>2 DEF ForgetTree, TypeOK, Trees, Desk
  <2>4. ASSUME ~torn' PROVE ~torn /\ ~Working /\ ~Working' /\ managed # "git"
    BY <1>2, <2>1, <2>2, <2>4 DEF ForgetTree, Working, Running, Committing
  <2>5. ASSUME ~torn' PROVE Exclusive'
    BY <1>2, <2>4, <2>5 DEF ForgetTree, Exclusive, Working
  <2>6. ASSUME ~torn' PROVE JobKnowsTree' /\ PartialExplained' /\ EditOwned' /\ NothingComesBack'
    BY <1>2, <2>1, <2>2, <2>4, <2>6
       DEF ForgetTree, JobKnowsTree, PartialExplained, EditOwned, NothingComesBack, Removing, JobAt,
           Working, Running, Committing
  <2>7. QED
    BY <2>3, <2>5, <2>6 DEF Exclusive, JobKnowsTree, PartialExplained, EditOwned, NothingComesBack
<1>3. QED
  BY <1>1, <1>2

-----------------------------------------------------------------------------
LEMMA StepIInv == IInv /\ [Next]_vars => IInv'
<1> SUFFICES ASSUME IInv, [Next]_vars PROVE IInv'
  OBVIOUS
<1>1. ASSUME NEW h \in Handlers, Check(h) \/ Delete(h) \/ DeleteBySelector(h) \/ HandlerStep(h) PROVE IInv'
  BY <1>1, StepsAside, AcceptIInv, CommitStepIInv, ForgetStepIInv DEF HandlerStep
<1>2. ASSUME NEW j \in Jobs, JobStep(j) PROVE IInv'
  BY <1>2, JobStepIInv
<1>3. CASE CliStart \/ CliDelete
  BY <1>3
     DEF CliStart, CliDelete, IInv, TypeOK, Exclusive, JobKnowsTree, PartialExplained, EditOwned,
         NothingComesBack, Removing, JobAt, Working, Running, Committing
<1>4. CASE UNCHANGED vars
  BY <1>4
     DEF vars, IInv, TypeOK, Exclusive, JobKnowsTree, PartialExplained, EditOwned,
         NothingComesBack, Removing, JobAt, Working, Running, Committing
<1>5. QED
  BY <1>1, <1>2, <1>3, <1>4 DEF Next

LEMMA Inductive == Spec => []IInv
  BY InitIInv, StepIInv, PTL DEF Spec

-----------------------------------------------------------------------------
(* The theorems. *)

\* The variables of Deployer have their types.
THEOREM DeployerTypes == Spec => []TypeOK
<1>1. IInv => TypeOK
  BY DEF IInv
<1>2. QED
  BY <1>1, Inductive, PTL

\* The entry in d.states is a lock on the checkout, for any number of handlers
\* and deploy goroutines, as long as no Forget broke into work in flight.
THEOREM DeployerExclusive == Spec => []Exclusive
<1>1. IInv => Exclusive
  BY DEF IInv
<1>2. QED
  BY <1>1, Inductive, PTL

\* Failed commits leave no uncommitted edit behind (their rollback may take a file
\* away), and failed fetches no half written checkout that shows as anything else.
THEOREM DeployerTreeSettled == Spec => []TreeSettled
<1>1. IInv => TreeSettled
  BY DEF IInv, TreeSettled, PartialExplained, EditOwned, Removing, Working, Committing, JobAt
<1>2. QED
  BY <1>1, Inductive, PTL

\* A deleted app stays gone for the commands that were checked before, by whichever
\* selector; its checkout does too where the delete named it.
THEOREM DeployerDeletedIsGone == Spec => []DeletedIsGone
<1>1. IInv => DeletedIsGone
  BY DEF IInv, DeletedIsGone, NothingComesBack
<1>2. QED
  BY <1>1, Inductive, PTL

\* Apps are started and restarted from completely built checkouts only.
THEOREM DeployerSwapOnSuccess == Spec => SwapOnSuccess
<1>1. IInv => (\A j \in Jobs : ~torn /\ JobAt(j, "handover") => tree = "built")
  BY DEF IInv, JobKnowsTree
<1>2. IInv /\ [Next]_vars =>
        [\A j \in Jobs :
           ~torn /\ managed' = "git" /\ JobAt(j, "handover") /\ jobs[j] # jobs'[j] =>
             tree = "built"]_vars
  BY <1>1
<1>3. QED
  BY <1>2, Inductive, PTL DEF Spec, SwapOnSuccess
=============================================================================
