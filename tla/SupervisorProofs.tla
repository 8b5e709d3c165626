-------------------------- MODULE SupervisorProofs --------------------------
(***************************************************************************)
(* Theorems about Supervisor for every set of modes and every MaxRestarts: *)
(* its invariants, from one inductive invariant, and that it implements    *)
(* the safety part of InstanceLifecycle.                                   *)
(***************************************************************************)
EXTENDS Supervisor, TLAPS

-----------------------------------------------------------------------------
(* The inductive invariant.  The properties alone do not survive a step:   *)
(* what Run knows at each place has to be spelled out.                     *)

\* What is published at each place of Run.
StateAt ==
  /\ pc \in {"start", "spawned"} => state \in {"starting", "restarting"}
  /\ pc = "watch" => state = "online"
  /\ pc \in Stopping => state = "stopping" /\ cancelled
  /\ pc \in {"exited", "account", "judge"} => state \in {"starting", "online", "restarting"}
  /\ pc = "backoff" => state = "restarting"
  /\ pc = "done" => state \in Terminal

\* What handleExit has established on the way to the crash-loop check.
Decided ==
  /\ pc \in {"account", "judge"} => Wanted /\ lastExit = verdict
  /\ pc = "judge" => unstable \in {0, judged}
  /\ pc \notin {"judge", "done"} => unstable <= MaxRestarts

IInv ==
  /\ TypeOK
  /\ LeaderWatched
  /\ PublishedTruth
  /\ EndVerdict
  /\ CountersAgree
  /\ HookPerRestart
  /\ StateAt
  /\ Decided

-----------------------------------------------------------------------------
LEMMA InitIInv == Init => IInv
<1> SUFFICES ASSUME Init PROVE IInv
  OBVIOUS
<1> USE DEF Init
<1>1. ScalarTypes
  BY DEF ScalarTypes, Places, States
<1>2. CounterTypes /\ CountersAgree
  BY MaxRestartsAssumption, RestartCapAssumption DEF CounterTypes, CountersAgree
<1>3. TreeTypes /\ LeaderWatched
  BY DEF TreeTypes, LeaderWatched
<1>4. PublishedTruth /\ StateAt
  BY DEF PublishedTruth, StateAt, Stopping, Terminal
<1>5. EndVerdict /\ HookPerRestart
  BY DEF EndVerdict, HookPerRestart
<1>6. Decided
  BY MaxRestartsAssumption DEF Decided
<1>7. QED
  BY <1>1, <1>2, <1>3, <1>4, <1>5, <1>6 DEF IInv, TypeOK

LEMMA StepIInv == IInv /\ [Next]_vars => IInv'
<1> SUFFICES ASSUME IInv, [Next]_vars PROVE IInv'
  OBVIOUS
<1> USE DEF IInv, TypeOK, Set, published, accounts, processes
<1>1. CASE Spawn
  <2>1. ScalarTypes'
    BY <1>1 DEF Spawn, ScalarTypes, Places, Watching
  <2>2. CounterTypes' /\ CountersAgree'
    BY <1>1 DEF Spawn, CounterTypes, CountersAgree
  <2>3. TreeTypes' /\ LeaderWatched'
    BY <1>1 DEF Spawn, TreeTypes, LeaderWatched, Group, PipeHolders, Watching, Stopping
  <2>4. PublishedTruth' /\ StateAt'
    BY <1>1 DEF Spawn, PublishedTruth, StateAt, Stopping
  <2>5. EndVerdict'
    BY <1>1 DEF Spawn, EndVerdict
  <2>6. HookPerRestart'
    BY <1>1 DEF Spawn, HookPerRestart
  <2>7. Decided'
    BY <1>1 DEF Spawn, Decided, Wanted
  <2>8. QED
    BY <2>1, <2>2, <2>3, <2>4, <2>5, <2>6, <2>7
<1>2. CASE SpawnFails
  <2>1. ScalarTypes'
    BY <1>2 DEF SpawnFails, ScalarTypes, Places
  <2>2. CounterTypes' /\ CountersAgree'
    BY <1>2 DEF SpawnFails, CounterTypes, CountersAgree
  <2>3. TreeTypes' /\ LeaderWatched'
    BY <1>2 DEF SpawnFails, TreeTypes, LeaderWatched, Group, PipeHolders, Watching, Stopping
  <2>4. PublishedTruth' /\ StateAt'
    BY <1>2 DEF SpawnFails, PublishedTruth, StateAt, Stopping
  <2>5. EndVerdict'
    BY <1>2 DEF SpawnFails, EndVerdict
  <2>6. HookPerRestart'
    BY <1>2 DEF SpawnFails, HookPerRestart
  <2>7. Decided'
    BY <1>2 DEF SpawnFails, Decided, Wanted
  <2>8. QED
    BY <2>1, <2>2, <2>3, <2>4, <2>5, <2>6, <2>7
<1>3. CASE GoOnline
  <2>1. ScalarTypes'
    BY <1>3 DEF GoOnline, ScalarTypes, Places, Watching, States
  <2>2. CounterTypes' /\ CountersAgree'
    BY <1>3 DEF GoOnline, CounterTypes, CountersAgree
  <2>3. TreeTypes' /\ LeaderWatched'
    BY <1>3 DEF GoOnline, TreeTypes, LeaderWatched, Watching
  <2>4. PublishedTruth' /\ StateAt'
    BY <1>3 DEF GoOnline, PublishedTruth, StateAt, Stopping, Terminal
  <2>5. EndVerdict'
    BY <1>3 DEF GoOnline, EndVerdict
  <2>6. HookPerRestart'
    BY <1>3 DEF GoOnline, HookPerRestart
  <2>7. Decided'
    BY <1>3 DEF GoOnline, Decided, Wanted
  <2>8. QED
    BY <2>1, <2>2, <2>3, <2>4, <2>5, <2>6, <2>7
<1>4. CASE SeeExit
  <2>1. ScalarTypes'
    BY <1>4 DEF SeeExit, ScalarTypes, Places
  <2>2. CounterTypes' /\ CountersAgree'
    BY <1>4 DEF SeeExit, CounterTypes, CountersAgree
  <2>3. TreeTypes' /\ LeaderWatched'
    BY <1>4 DEF SeeExit, TreeTypes, LeaderWatched, WaitReturns
  <2>4. PublishedTruth' /\ StateAt'
    BY <1>4 DEF SeeExit, PublishedTruth, StateAt, Stopping
  <2>5. EndVerdict'
    BY <1>4 DEF SeeExit, EndVerdict
  <2>6. HookPerRestart'
    BY <1>4 DEF SeeExit, HookPerRestart
  <2>7. Decided'
    BY <1>4 DEF SeeExit, Decided, Wanted
  <2>8. QED
    BY <2>1, <2>2, <2>3, <2>4, <2>5, <2>6, <2>7
<1>5. CASE SeeCancel
  <2>1. ScalarTypes'
    BY <1>5 DEF SeeCancel, ScalarTypes, Places, Watching, Stopping, States
  <2>2. CounterTypes' /\ CountersAgree'
    BY <1>5 DEF SeeCancel, CounterTypes, CountersAgree
  <2>3. TreeTypes' /\ LeaderWatched'
    BY <1>5 DEF SeeCancel, TreeTypes, LeaderWatched, Watching, Stopping
  <2>4. PublishedTruth' /\ StateAt'
    BY <1>5 DEF SeeCancel, PublishedTruth, StateAt, Terminal
  <2>5. EndVerdict'
    BY <1>5 DEF SeeCancel, EndVerdict
  <2>6. HookPerRestart'
    BY <1>5 DEF SeeCancel, HookPerRestart
  <2>7. Decided'
    BY <1>5 DEF SeeCancel, Decided, Wanted
  <2>8. QED
    BY <2>1, <2>2, <2>3, <2>4, <2>5, <2>6, <2>7
<1>6. CASE Terminate
  <2>1. ScalarTypes'
    BY <1>6 DEF Terminate, ScalarTypes, Places, Watching, Stopping
  <2>2. CounterTypes' /\ CountersAgree'
    BY <1>6 DEF Terminate, CounterTypes, CountersAgree
  <2>3. TreeTypes' /\ LeaderWatched'
    BY <1>6 DEF Terminate, TreeTypes, LeaderWatched, Watching, Stopping
  <2>4. PublishedTruth' /\ StateAt'
    BY <1>6 DEF Terminate, PublishedTruth, StateAt, Stopping
  <2>5. EndVerdict'
    BY <1>6 DEF Terminate, EndVerdict
  <2>6. HookPerRestart'
    BY <1>6 DEF Terminate, HookPerRestart
  <2>7. Decided'
    BY <1>6 DEF Terminate, Decided, Wanted
  <2>8. QED
    BY <2>1, <2>2, <2>3, <2>4, <2>5, <2>6, <2>7
<1>7. CASE KillGroup
  <2>1. ScalarTypes'
    BY <1>7 DEF KillGroup, ScalarTypes, Places, Watching, Stopping
  <2>2. CounterTypes' /\ CountersAgree'
    BY <1>7 DEF KillGroup, CounterTypes, CountersAgree
  <2>3. TreeTypes' /\ LeaderWatched'
    BY <1>7 DEF KillGroup, TreeTypes, LeaderWatched, Watching, Stopping
  <2>4. PublishedTruth' /\ StateAt'
    BY <1>7 DEF KillGroup, PublishedTruth, StateAt, Stopping
  <2>5. EndVerdict'
    BY <1>7 DEF KillGroup, EndVerdict
  <2>6. HookPerRestart'
    BY <1>7 DEF KillGroup, HookPerRestart
  <2>7. Decided'
    BY <1>7 DEF KillGroup, Decided, Wanted
  <2>8. QED
    BY <2>1, <2>2, <2>3, <2>4, <2>5, <2>6, <2>7
<1>8. CASE Reap
  <2>1. ScalarTypes'
    BY <1>8 DEF Reap, ScalarTypes, TreeTypes, Places, States
  <2>2. CounterTypes' /\ CountersAgree'
    BY <1>8 DEF Reap, CounterTypes, CountersAgree
  <2>3. TreeTypes' /\ LeaderWatched'
    BY <1>8 DEF Reap, TreeTypes, LeaderWatched, WaitReturns
  <2>4. PublishedTruth' /\ StateAt'
    BY <1>8 DEF Reap, PublishedTruth, StateAt, WaitReturns, Stopping, Terminal
  <2>5. EndVerdict'
    BY <1>8 DEF Reap, EndVerdict, StateAt, Stopping
  <2>6. HookPerRestart'
    BY <1>8 DEF Reap, HookPerRestart
  <2>7. Decided'
    BY <1>8 DEF Reap, Decided, Wanted
  <2>8. QED
    BY <2>1, <2>2, <2>3, <2>4, <2>5, <2>6, <2>7
<1>9. CASE HandleExit
  <2>1. ScalarTypes'
    BY <1>9 DEF HandleExit, ScalarTypes, TreeTypes, Places, States
  <2>2. CounterTypes' /\ CountersAgree'
    BY <1>9 DEF HandleExit, CounterTypes, CountersAgree
  <2>3. TreeTypes' /\ LeaderWatched'
    BY <1>9 DEF HandleExit, TreeTypes, LeaderWatched, Watching, Stopping
  <2>4. PublishedTruth' /\ StateAt'
    BY <1>9 DEF HandleExit, PublishedTruth, StateAt, LeaderWatched, Watching, Stopping, Terminal
  <2>5. EndVerdict'
    BY <1>9 DEF HandleExit, EndVerdict, Wanted, TreeTypes
  <2>6. HookPerRestart'
    BY <1>9 DEF HandleExit, HookPerRestart
  <2>7. Decided'
    BY <1>9 DEF HandleExit, Decided, Wanted
  <2>8. QED
    BY <2>1, <2>2, <2>3, <2>4, <2>5, <2>6, <2>7
<1>10. CASE Account
  <2>1. ScalarTypes'
    BY <1>10 DEF Account, ScalarTypes, Places
  <2>2. CounterTypes' /\ CountersAgree'
    BY MaxRestartsAssumption, RestartCapAssumption, <1>10 DEF Account, CounterTypes, CountersAgree, NextUnstable, Decided
  <2>3. TreeTypes' /\ LeaderWatched'
    BY <1>10 DEF Account, TreeTypes, LeaderWatched, Watching, Stopping
  <2>4. PublishedTruth' /\ StateAt'
    BY <1>10 DEF Account, PublishedTruth, StateAt, Stopping
  <2>5. EndVerdict'
    BY <1>10 DEF Account, EndVerdict
  <2>6. HookPerRestart'
    BY <1>10 DEF Account, HookPerRestart
  <2>7. Decided'
    BY <1>10 DEF Account, Decided, Wanted
  <2>8. QED
    BY <2>1, <2>2, <2>3, <2>4, <2>5, <2>6, <2>7
<1>11. CASE Judge
  <2>1. ScalarTypes'
    BY <1>11 DEF Judge, ScalarTypes, Places, States
  <2>2. CounterTypes' /\ CountersAgree'
    BY <1>11 DEF Judge, OnRestart, CounterTypes, CountersAgree, HookPerRestart
  <2>3. TreeTypes' /\ LeaderWatched'
    BY <1>11 DEF Judge, TreeTypes, LeaderWatched, Watching, Stopping
  <2>4. PublishedTruth' /\ StateAt'
    BY <1>11 DEF Judge, PublishedTruth, StateAt, LeaderWatched, Watching, Stopping, Terminal
  <2>5. EndVerdict'
    BY <1>11 DEF Judge, EndVerdict, Decided, Wanted, GivesUp
  <2>6. HookPerRestart'
    BY <1>11 DEF Judge, HookPerRestart, OnRestart
  <2>7. Decided'
    BY MaxRestartsAssumption, <1>11 DEF Judge, Decided, GivesUp, CounterTypes
  <2>8. QED
    BY <2>1, <2>2, <2>3, <2>4, <2>5, <2>6, <2>7
<1>12. CASE BackoffOver
  <2>1. ScalarTypes'
    BY <1>12 DEF BackoffOver, ScalarTypes, Places
  <2>2. CounterTypes' /\ CountersAgree'
    BY <1>12 DEF BackoffOver, CounterTypes, CountersAgree, HookPerRestart
  <2>3. TreeTypes' /\ LeaderWatched'
    BY <1>12 DEF BackoffOver, TreeTypes, LeaderWatched, Watching, Stopping
  <2>4. PublishedTruth' /\ StateAt'
    BY <1>12 DEF BackoffOver, PublishedTruth, StateAt, Stopping
  <2>5. EndVerdict'
    BY <1>12 DEF BackoffOver, EndVerdict
  <2>6. HookPerRestart'
    BY <1>12 DEF BackoffOver, HookPerRestart
  <2>7. Decided'
    BY <1>12 DEF BackoffOver, Decided, Wanted
  <2>8. QED
    BY <2>1, <2>2, <2>3, <2>4, <2>5, <2>6, <2>7
<1>13. CASE CancelBackoff
  <2>1. ScalarTypes'
    BY <1>13 DEF CancelBackoff, ScalarTypes, Places, States
  <2>2. CounterTypes' /\ CountersAgree'
    BY <1>13 DEF CancelBackoff, CounterTypes, CountersAgree
  <2>3. TreeTypes' /\ LeaderWatched'
    BY <1>13 DEF CancelBackoff, TreeTypes, LeaderWatched, Watching, Stopping
  <2>4. PublishedTruth' /\ StateAt'
    BY <1>13 DEF CancelBackoff, PublishedTruth, StateAt, LeaderWatched, Watching, Stopping, Terminal
  <2>5. EndVerdict'
    BY <1>13 DEF CancelBackoff, EndVerdict
  <2>6. HookPerRestart'
    BY <1>13 DEF CancelBackoff, HookPerRestart
  <2>7. Decided'
    BY <1>13 DEF CancelBackoff, Decided, Wanted
  <2>8. QED
    BY <2>1, <2>2, <2>3, <2>4, <2>5, <2>6, <2>7
<1>14. CASE Cancel
  <2>1. ScalarTypes'
    BY <1>14 DEF Cancel, ScalarTypes
  <2>2. CounterTypes' /\ CountersAgree'
    BY <1>14 DEF Cancel, CounterTypes, CountersAgree
  <2>3. TreeTypes' /\ LeaderWatched'
    BY <1>14 DEF Cancel, TreeTypes, LeaderWatched
  <2>4. PublishedTruth' /\ StateAt'
    BY <1>14 DEF Cancel, PublishedTruth, StateAt
  <2>5. EndVerdict'
    BY <1>14 DEF Cancel, EndVerdict
  <2>6. HookPerRestart'
    BY <1>14 DEF Cancel, HookPerRestart
  <2>7. Decided'
    BY <1>14 DEF Cancel, Decided, Wanted
  <2>8. QED
    BY <2>1, <2>2, <2>3, <2>4, <2>5, <2>6, <2>7
<1>15. CASE ResetCounters
  <2>1. ScalarTypes'
    BY <1>15 DEF ResetCounters, ScalarTypes
  <2>2. CounterTypes' /\ CountersAgree'
    BY MaxRestartsAssumption, RestartCapAssumption, <1>15 DEF ResetCounters, CounterTypes, CountersAgree
  <2>3. TreeTypes' /\ LeaderWatched'
    BY <1>15 DEF ResetCounters, TreeTypes, LeaderWatched
  <2>4. PublishedTruth' /\ StateAt'
    BY <1>15 DEF ResetCounters, PublishedTruth, StateAt
  <2>5. EndVerdict'
    BY <1>15 DEF ResetCounters, EndVerdict
  <2>6. HookPerRestart'
    BY <1>15 DEF ResetCounters, HookPerRestart
  <2>7. Decided'
    BY MaxRestartsAssumption, <1>15 DEF ResetCounters, Decided, Wanted
  <2>8. QED
    BY <2>1, <2>2, <2>3, <2>4, <2>5, <2>6, <2>7
<1>16. CASE ProcessExits
  <2>1. ScalarTypes'
    BY <1>16 DEF ProcessExits, ScalarTypes
  <2>2. CounterTypes' /\ CountersAgree'
    BY <1>16 DEF ProcessExits, CounterTypes, CountersAgree
  <2>3. TreeTypes' /\ LeaderWatched'
    BY <1>16 DEF ProcessExits, TreeTypes, LeaderWatched
  <2>4. PublishedTruth' /\ StateAt'
    BY <1>16 DEF ProcessExits, PublishedTruth, StateAt
  <2>5. EndVerdict'
    BY <1>16 DEF ProcessExits, EndVerdict
  <2>6. HookPerRestart'
    BY <1>16 DEF ProcessExits, HookPerRestart
  <2>7. Decided'
    BY <1>16 DEF ProcessExits, Decided, Wanted, LeaderWatched, PipeHolders, Watching, Stopping
  <2>8. QED
    BY <2>1, <2>2, <2>3, <2>4, <2>5, <2>6, <2>7
<1>17. CASE ProcessForks
  <2>1. ScalarTypes'
    BY <1>17 DEF ProcessForks, ScalarTypes
  <2>2. CounterTypes' /\ CountersAgree'
    BY <1>17 DEF ProcessForks, CounterTypes, CountersAgree
  <2>3. TreeTypes' /\ LeaderWatched'
    BY <1>17 DEF ProcessForks, TreeTypes, LeaderWatched, Group, PipeHolders
  <2>4. PublishedTruth' /\ StateAt'
    BY <1>17 DEF ProcessForks, PublishedTruth, StateAt
  <2>5. EndVerdict'
    BY <1>17 DEF ProcessForks, EndVerdict
  <2>6. HookPerRestart'
    BY <1>17 DEF ProcessForks, HookPerRestart
  <2>7. Decided'
    BY <1>17 DEF ProcessForks, Decided, Wanted
  <2>8. QED
    BY <2>1, <2>2, <2>3, <2>4, <2>5, <2>6, <2>7
<1>18. CASE StraysExit
  <2>1. ScalarTypes'
    BY <1>18 DEF StraysExit, ScalarTypes
  <2>2. CounterTypes' /\ CountersAgree'
    BY <1>18 DEF StraysExit, CounterTypes, CountersAgree
  <2>3. TreeTypes' /\ LeaderWatched'
    BY <1>18 DEF StraysExit, TreeTypes, LeaderWatched
  <2>4. PublishedTruth' /\ StateAt'
    BY <1>18 DEF StraysExit, PublishedTruth, StateAt
  <2>5. EndVerdict'
    BY <1>18 DEF StraysExit, EndVerdict
  <2>6. HookPerRestart'
    BY <1>18 DEF StraysExit, HookPerRestart
  <2>7. Decided'
    BY <1>18 DEF StraysExit, Decided, Wanted
  <2>8. QED
    BY <2>1, <2>2, <2>3, <2>4, <2>5, <2>6, <2>7
<1>19. CASE UNCHANGED vars
  BY <1>19 DEF vars, ScalarTypes, CounterTypes, TreeTypes, LeaderWatched, PublishedTruth, EndVerdict, CountersAgree,
     HookPerRestart, StateAt, Decided, Wanted
<1>20. QED
  BY <1>1, <1>2, <1>3, <1>4, <1>5, <1>6, <1>7, <1>8, <1>9, <1>10, <1>11, <1>12, <1>13, <1>14, <1>15, <1>16, <1>17, <1>18, <1>19 DEF Next, Run, Environment

LEMMA Inductive == Spec => []IInv
  BY InitIInv, StepIInv, PTL DEF Spec

-----------------------------------------------------------------------------
(* Invariants. *)

\* Every variable keeps its type, and the crash-loop counters never exceed
\* MaxRestarts + 1 (Instance.restarts, Instance.unstable).
THEOREM SupervisorTypes == Spec => []TypeOK
<1>1. IInv => TypeOK
  BY DEF IInv
<1>2. QED
  BY <1>1, Inductive, PTL

\* A process holding an instance's output is alive only while Run watches it:
\* a respawn, and whoever waited for done, finds the previous process ended.
THEOREM SupervisorWatched == Spec => []LeaderWatched
<1>1. IInv => LeaderWatched
  BY DEF IInv
<1>2. QED
  BY <1>1, Inductive, PTL

\* Run reaches proc.Start only with crash-loop headroom left, for any limit and
\* any interleaving of ResetCounters.
THEOREM SupervisorSpawnBudget == Spec => []SpawnBudget
<1>1. IInv => SpawnBudget
  BY DEF IInv, Decided, SpawnBudget
<1>2. QED
  BY <1>1, Inductive, PTL

\* Snapshot shows a pid exactly while online, and a terminal state exactly when
\* the process is reaped and Run returns.
THEOREM SupervisorPublishedTruth == Spec => []PublishedTruth
<1>1. IInv => PublishedTruth
  BY DEF IInv
<1>2. QED
  BY <1>1, Inductive, PTL

\* An instance that ends unasked ends as its restart policy says.
THEOREM SupervisorEndVerdict == Spec => []EndVerdict
<1>1. IInv => EndVerdict
  BY DEF IInv
<1>2. QED
  BY <1>1, Inductive, PTL

\* The lifetime total never falls behind the crash-loop counter, although resets
\* come between the increments of handleExit.
THEOREM SupervisorAccounts == Spec => []CountersAgree
<1>1. IInv => CountersAgree
  BY DEF IInv
<1>2. QED
  BY <1>1, Inductive, PTL

\* Every spawn after the first has been announced by exactly one onRestart call.
THEOREM SupervisorHookPerRestart == Spec => []HookPerRestart
<1>1. IInv => HookPerRestart
  BY DEF IInv
<1>2. QED
  BY <1>1, Inductive, PTL

\* On the way from the request to the end, and at it.
BeingStopped ==
  /\ cancelled
  /\ pc \in Watching \cup {"exited"} \/ (pc = "done" /\ state = "stopped")

\* A stop request that finds a process, or its exit not yet looked at, wins: Run's
\* select may take either case, handleExit asks the context again.
THEOREM SupervisorStopWins == Spec => StopWins
<1>1. BeingStopped /\ [Next]_vars => BeingStopped'
  <2> SUFFICES ASSUME BeingStopped, [Next]_vars PROVE BeingStopped'
    OBVIOUS
  <2> USE DEF BeingStopped, Watching, Stopping
  <2>1. CASE Run
    BY <2>1 DEF Run, Spawn, SpawnFails, GoOnline, SeeExit, SeeCancel, Terminate, KillGroup, Reap, HandleExit,
                Account, Judge, BackoffOver, CancelBackoff, Set
  <2>2. CASE Environment
    BY <2>2 DEF Environment, Cancel, ResetCounters, ProcessExits, ProcessForks, StraysExit, published
  <2>3. CASE UNCHANGED vars
    BY <2>3 DEF vars, published
  <2>4. QED
    BY <2>1, <2>2, <2>3 DEF Next
<1>2. cancelled /\ pc \in Watching \cup {"exited"} => BeingStopped
  BY DEF BeingStopped
<1>3. BeingStopped => pc \in Watching \cup {"exited", "done"} /\ (pc = "done" => state = "stopped")
  BY DEF BeingStopped, Watching, Stopping
<1>4. QED
  BY <1>1, <1>2, <1>3, PTL DEF Spec, StopWins

-----------------------------------------------------------------------------
(* Refinement: a step of Run, seen from outside, is a step of the lifecycle. *)

LEMMA StepLifecycle == IInv /\ [Next]_vars => [Lifecycle!Next]_(Lifecycle!vars)
<1> SUFFICES ASSUME IInv, [Next]_vars PROVE [Lifecycle!Next]_(Lifecycle!vars)
  OBVIOUS
<1> USE DEF IInv, Lifecycle!vars, Lifecycle!Next, published, accounts, processes, Set
<1>1. CASE GoOnline
  BY <1>1 DEF GoOnline, StateAt, Lifecycle!Online
<1>2. CASE SeeCancel
  BY <1>2 DEF SeeCancel, StateAt, Lifecycle!Stopping
<1>3. CASE Judge
  <2>1. CASE GivesUp
    BY <1>3, <2>1 DEF Judge, StateAt, Lifecycle!Finish, Lifecycle!Terminal
  <2>2. CASE ~GivesUp
    BY <1>3, <2>2 DEF Judge, StateAt, Lifecycle!Retry
  <2>3. QED
    BY <2>1, <2>2
<1>4. CASE Reap \/ CancelBackoff
  BY <1>4 DEF Reap, CancelBackoff, StateAt, Stopping, Lifecycle!Finish, Lifecycle!Terminal
<1>5. CASE HandleExit
  <2>1. CASE pc' = "done"
    BY <1>5, <2>1 DEF HandleExit, StateAt, Lifecycle!Finish, Lifecycle!Terminal
  <2>2. CASE pc' # "done"
    BY <1>5, <2>2 DEF HandleExit
  <2>3. QED
    BY <2>1, <2>2
<1>6. CASE Spawn \/ SpawnFails \/ SeeExit \/ Terminate \/ KillGroup \/ Account \/ BackoffOver
  BY <1>6 DEF Spawn, SpawnFails, SeeExit, Terminate, KillGroup, Account, BackoffOver
<1>7. CASE Cancel
  BY <1>7 DEF Cancel, Lifecycle!Cancel
<1>8. CASE ResetCounters \/ ProcessExits \/ ProcessForks \/ StraysExit
  BY <1>8 DEF ResetCounters, ProcessExits, ProcessForks, StraysExit
<1>9. CASE UNCHANGED vars
  BY <1>9 DEF vars
<1>10. QED
  BY <1>1, <1>2, <1>3, <1>4, <1>5, <1>6, <1>7, <1>8, <1>9 DEF Next, Run, Environment

\* Run implements the lifecycle that Manager assumes of an instance.
THEOREM SupervisorImplementsLifecycle == Spec => LifecycleSpec
<1>1. Init => Lifecycle!Init
  BY DEF Init, Lifecycle!Init
<1>2. QED
  BY <1>1, StepLifecycle, Inductive, PTL DEF Spec, LifecycleSpec, Lifecycle!Spec
=============================================================================
