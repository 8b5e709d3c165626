------------------------- MODULE InstanceLifecycle -------------------------
(***************************************************************************)
(* What one supervised instance promises to the manager, the memory guard  *)
(* and the status views: the published lifecycle state, the stop request   *)
(* and whether the supervising goroutine has returned.  Supervisor         *)
(* implements it; Manager is built on it.                                  *)
(***************************************************************************)

VARIABLES
  state,      \* the published supervisor.State
  cancelled,  \* the instance's context has been canceled
  over        \* Run has returned: nothing will change any more

vars == <<state, cancelled, over>>

States == {"starting", "online", "stopping", "stopped", "restarting", "errored"}
Terminal == {"stopped", "errored"}

TypeOK ==
  /\ state \in States
  /\ cancelled \in BOOLEAN
  /\ over \in BOOLEAN

Init ==
  /\ state = "starting"
  /\ cancelled = FALSE
  /\ over = FALSE

\* The owner asks for a stop; the request is never withdrawn.
Cancel ==
  /\ ~cancelled
  /\ cancelled' = TRUE
  /\ UNCHANGED <<state, over>>

\* A process has been spawned, for the first time or again.
Online ==
  /\ ~over
  /\ state \in {"starting", "restarting"}
  /\ state' = "online"
  /\ UNCHANGED <<cancelled, over>>

\* The process ended, or could not be spawned, and will be spawned again.
Retry ==
  /\ ~over
  /\ state \in {"starting", "online", "restarting"}
  /\ state' = "restarting"
  /\ UNCHANGED <<cancelled, over>>

\* A stop request reached a running process.
Stopping ==
  /\ ~over
  /\ cancelled
  /\ state = "online"
  /\ state' = "stopping"
  /\ UNCHANGED <<cancelled, over>>

\* The end.  A process that was being stopped ends stopped, however it died.
Finish ==
  /\ ~over
  /\ state' \in Terminal
  /\ state = "stopping" => state' = "stopped"
  /\ over' = TRUE
  /\ UNCHANGED cancelled

Next == Cancel \/ Online \/ Retry \/ Stopping \/ Finish

Spec == Init /\ [][Next]_vars
=============================================================================
