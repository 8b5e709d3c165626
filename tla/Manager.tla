------------------------------ MODULE Manager ------------------------------
(***************************************************************************)
(* The daemon's set of apps: the operations of internal/manager, called    *)
(* concurrently by RPC handlers and by background goroutines (the memory   *)
(* guard, git deploys, fleet commands), over instances of which only the   *)
(* InstanceLifecycle matters, up to the daemon's own shutdown              *)
(* (internal/daemon/server.go).                                            *)
(*                                                                         *)
(* A step is one critical section of m.mu, one wait, or the cancelling of  *)
(* the collected instances.  opMu is a variable.  Definitions headed       *)
(* "Slip" are plausible mistakes; nothing here uses them.                  *)
(***************************************************************************)
EXTENDS Integers, FiniteSets

CONSTANTS
  Names,       \* app names
  Slots,       \* name -> instances of that app (spec.Instances)
  Envs,        \* environments an app can be given
  Rpc,         \* callers that are RPC handlers: GracefulStop waits for them
  Background,  \* callers that nobody waits for
  Main,        \* the goroutine running daemon.Run
  All,         \* the selector "all"
  NoOne,       \* no goroutine, no instance, no environment
  Gens,        \* bound: goroutines one label can have at the same time
  MaxId        \* bound: ids up to this one

ASSUME SlotsAssumption == Slots \in [Names -> Nat \ {0}]
ASSUME MaxIdAssumption == MaxId \in Nat

Callers == Rpc \cup Background
Clients == Callers \cup {Main}
Ids == 1 .. MaxId
Labels == UNION {{n} \X (0 .. Slots[n] - 1) : n \in Names}

ASSUME DistinctAssumption ==
  /\ NoOne \notin Clients \cup Gens \cup Envs
  /\ Main \notin Callers
  /\ Rpc \cap Background = {}

VARIABLES
  apps,     \* m.apps: id, name and spec.Env of each managed app
  slot,     \* label -> the generation its app's insts hold, or NoOne
  inst,     \* label -> generation -> the instance goroutine
  opMu,     \* the holder of m.opMu
  local,    \* client -> where it is in its operation
  ctxDone,  \* the manager's base context is canceled
  daemon    \* how far the daemon's shutdown is

vars == <<apps, slot, inst, opMu, local, ctxDone, daemon>>

-----------------------------------------------------------------------------
(* Data. *)

App == [id : Ids, name : Names, env : Envs]

\* One instance goroutine: the environment it runs with, NoOne once it has
\* closed its done channel, and whether its context has been cancelled (dropped
\* when the stop is over, as the context of an ended goroutine decides nothing).
Instance == [env : Envs \cup {NoOne}, cancelled : BOOLEAN]

\* What a client knows while it works: the operation, the selected apps, the
\* instances it collected and is stopping, and, for Reload, the slots still to
\* do and the one being done.
Operation == {"none", "stop", "restart", "updateEnv", "reload", "delete", "stopAll"}
Place == {"idle", "following", "waiting", "collected", "stopping", "next", "slotStop", "slotOnline"}
Local == [pc : Place, op : Operation, targets : SUBSET App,
          insts : SUBSET (Labels \X Gens), todo : SUBSET Labels]

Idle == [pc |-> "idle", op |-> "none", targets |-> {}, insts |-> {}, todo |-> {}]
Following == [Idle EXCEPT !.pc = "following"]
Waiting == [Idle EXCEPT !.pc = "waiting"]

\* Nothing runs in an exited process.
Alive == daemon \notin {"exited", "failed"}
At(c, place) == Alive /\ local[c].pc = place

\* Up, then the shutdown that was asked for, or the one after an error of Serve.
DaemonStates == {"up", "draining", "stopping", "exited", "failing", "failed"}

\* Every variable has its type.
TypeOK ==
  /\ apps \in SUBSET App
  /\ slot \in [Labels -> Gens \cup {NoOne}]
  /\ inst \in [Labels -> [Gens -> Instance]]
  /\ opMu \in Clients \cup {NoOne}
  /\ local \in [Clients -> Local]
  /\ ctxDone \in BOOLEAN
  /\ daemon \in DaemonStates

LabelsOf(as) == {l \in Labels : \E a \in as : l[1] = a.name}
Live(l, g) == inst[l][g].env # NoOne
Cancelled(l, g) == inst[l][g].cancelled \/ ctxDone

\* collectInstances.
Collect(as) == {h \in Labels \X Gens : h[1] \in LabelsOf(as) /\ slot[h[1]] = h[2]}

\* resolve: all, else by id, else by name; empty when nothing matches.
Resolve(sel) ==
  IF sel = All THEN apps
  ELSE IF \E a \in apps : a.id = sel THEN {a \in apps : a.id = sel}
  ELSE {a \in apps : a.name = sel}
Selectors == {All} \cup Ids \cup Names

\* The sets of apps a caller can select; an operation on none is an error.
Selections == {Resolve(sel) : sel \in Selectors} \ {{}}

\* maxAppID.
TakenIds == {a.id : a \in apps}
MaxAppId == IF apps = {} THEN 0 ELSE CHOOSE m \in TakenIds : \A i \in TakenIds : i <= m

\* Slip: as many as there are apps, and one.
AssignCount(want) == IF want <= 0 \/ want \in TakenIds THEN Cardinality(apps) + 1 ELSE want

\* Slip: the largest id, without the increment.
AssignMaxId(want) == IF want <= 0 \/ want \in TakenIds THEN MaxAppId ELSE want

\* The id Add gives an app: the persisted one when free, else maxAppID + 1.
AssignId(want) == IF want <= 0 \/ want \in TakenIds THEN MaxAppId + 1 ELSE want

\* A generation of the label with no goroutine running.
Free(l, g) == ~Live(l, g)
FreeGen(l) == CHOOSE g \in Gens : Free(l, g)

\* startInstance for every label in ls, with the environment env gives it.
StartInstances(ls, env) ==
  /\ \A l \in ls : \E g \in Gens : Free(l, g)
  /\ slot' = [l \in Labels |-> IF l \in ls THEN FreeGen(l) ELSE slot[l]]
  /\ inst' = [l \in Labels |-> [g \in Gens |->
       IF l \in ls /\ g = FreeGen(l)
         THEN [env |-> env[l], cancelled |-> FALSE]
         ELSE inst[l][g]]]

\* The environments that the apps of these labels have now.
EnvsOf(ls) == [l \in ls |-> (CHOOSE a \in apps : a.name = l[1]).env]

Init ==
  /\ apps = {}
  /\ slot = [l \in Labels |-> NoOne]
  /\ inst = [l \in Labels |-> [g \in Gens |-> [env |-> NoOne, cancelled |-> FALSE]]]
  /\ opMu = NoOne
  /\ local = [c \in Clients |-> Idle]
  /\ ctxDone = FALSE
  /\ daemon = "up"

-----------------------------------------------------------------------------
(* Calls. *)

\* GracefulStop takes no new RPC; after an error of Serve it runs beside StopAll,
\* and a connection that was open may still bring one.
Accepting == daemon \in {"up", "failing"}

\* A caller begins an operation and waits for opMu.
Call(c) ==
  /\ c \in Callers
  /\ At(c, "idle")
  /\ c \in Rpc => Accepting
  /\ local' = [local EXCEPT ![c] = Waiting]
  /\ UNCHANGED <<apps, slot, inst, opMu, ctxDone, daemon>>

\* A streaming Logs call with follow: it does not take opMu, and ends when its
\* client hangs up, never by itself.
Follow(c) ==
  /\ c \in Rpc
  /\ At(c, "idle") /\ Accepting
  /\ local' = [local EXCEPT ![c] = Following]
  /\ UNCHANGED <<apps, slot, inst, opMu, ctxDone, daemon>>

HangUp(c) ==
  /\ At(c, "following")
  /\ local' = [local EXCEPT ![c] = Idle]
  /\ UNCHANGED <<apps, slot, inst, opMu, ctxDone, daemon>>

Turn(c) == At(c, "waiting") /\ c # Main /\ opMu = NoOne

\* The operation returns and its deferred unlock runs.
Return(c) ==
  /\ local' = [local EXCEPT ![c] = Idle]
  /\ opMu' = NoOne

NameFree(n) == \A a \in apps : a.name # n

\* Add registers and starts an app in one critical section.
Add(c) ==
  /\ Turn(c)
  /\ \E n \in Names, want \in {0} \cup Ids, e \in Envs :
       LET id == AssignId(want) IN
       /\ NameFree(n)
       /\ id <= MaxId
       /\ apps' = apps \cup {[id |-> id, name |-> n, env |-> e]}
       /\ StartInstances({l \in Labels : l[1] = n}, [l \in Labels |-> e])
  /\ local' = [local EXCEPT ![c] = Idle]
  /\ UNCHANGED <<opMu, ctxDone, daemon>>

\* Slip: the error path returns without unlocking.
ReturnLocked(c) ==
  /\ Turn(c)
  /\ local' = [local EXCEPT ![c] = Idle]
  /\ opMu' = c
  /\ UNCHANGED <<apps, slot, inst, ctxDone, daemon>>

\* Every way to return without having changed anything: a name that exists, a
\* selector that matches nothing, ResetCounters (whose effect is Supervisor's).
ReturnUnchanged(c) ==
  /\ Turn(c)
  /\ local' = [local EXCEPT ![c] = Idle]
  /\ UNCHANGED <<apps, slot, inst, opMu, ctxDone, daemon>>

\* Take opMu, resolve the selector and collect the instances.
Begin(c, op, as) ==
  /\ Turn(c)
  /\ opMu' = c
  /\ local' = [local EXCEPT ![c] =
       [Idle EXCEPT !.pc = "collected", !.op = op, !.targets = as, !.insts = Collect(as)]]

BeginStop(c) ==
  /\ \E as \in Selections : Begin(c, "stop", as)
  /\ UNCHANGED <<apps, slot, inst, ctxDone, daemon>>

BeginRestart(c) ==
  /\ \E as \in Selections : Begin(c, "restart", as)
  /\ UNCHANGED <<apps, slot, inst, ctxDone, daemon>>

WithEnv(a, e) == [a EXCEPT !.env = e]

\* Slip: the environment is stored and nothing is restarted.
StoreEnvOnly(c) ==
  /\ Turn(c)
  /\ \E a \in apps, e \in Envs : apps' = (apps \ {a}) \cup {WithEnv(a, e)}
  /\ local' = [local EXCEPT ![c] = Idle]
  /\ UNCHANGED <<slot, inst, opMu, ctxDone, daemon>>

\* UpdateEnv is called with an app's name; the new environment is stored before
\* the instances stop.
BeginUpdateEnv(c) ==
  /\ \E a \in apps, e \in Envs :
       /\ apps' = (apps \ {a}) \cup {WithEnv(a, e)}
       /\ Begin(c, "updateEnv", {[a EXCEPT !.env = e]})
  /\ UNCHANGED <<slot, inst, ctxDone, daemon>>

\* Delete unlists the apps before it stops their instances.
BeginDelete(c) ==
  /\ \E as \in Selections :
       /\ Begin(c, "delete", as)
       /\ apps' = apps \ as
       /\ slot' = [l \in Labels |-> IF l \in LabelsOf(as) THEN NoOne ELSE slot[l]]
  /\ UNCHANGED <<inst, ctxDone, daemon>>

BeginReload(c) ==
  /\ Turn(c)
  /\ \E as \in Selections :
       /\ opMu' = c
       /\ local' = [local EXCEPT ![c] =
            [Idle EXCEPT !.pc = "next", !.op = "reload", !.targets = as, !.todo = LabelsOf(as)]]
  /\ UNCHANGED <<apps, slot, inst, ctxDone, daemon>>

-----------------------------------------------------------------------------
(* stopInstances, and what follows it. *)

CancelInstances(hs) ==
  inst' = [l \in Labels |-> [g \in Gens |->
             IF <<l, g>> \in hs THEN [inst[l][g] EXCEPT !.cancelled = TRUE] ELSE inst[l][g]]]

\* The stop of these instances is over: they have ended, and nothing reads their
\* contexts again.
Settle(hs) ==
  inst' = [l \in Labels |-> [g \in Gens |->
             IF <<l, g>> \in hs THEN [inst[l][g] EXCEPT !.cancelled = FALSE] ELSE inst[l][g]]]

\* Slip: StopAll trusts the base context to have been cancelled.
CancelUnlessStopAll(c) ==
  /\ At(c, "collected")
  /\ local' = [local EXCEPT ![c].pc = "stopping"]
  /\ CancelInstances(IF local[c].op = "stopAll" THEN {} ELSE local[c].insts)
  /\ UNCHANGED <<apps, slot, opMu, ctxDone, daemon>>

CancelCollected(c) ==
  /\ At(c, "collected")
  /\ local' = [local EXCEPT ![c].pc = "stopping"]
  /\ CancelInstances(local[c].insts)
  /\ UNCHANGED <<apps, slot, opMu, ctxDone, daemon>>

\* Slip: not waiting for done at all, or for the first one only.
NoWait(c) == TRUE
FirstDone(c) == local[c].insts = {} \/ \E h \in local[c].insts : ~Live(h[1], h[2])

\* Every collected instance has closed its done channel.
AllDone(c) == \A h \in local[c].insts : ~Live(h[1], h[2])

FinishStop(c) ==
  /\ At(c, "stopping") /\ local[c].op \in {"stop", "delete"}
  /\ AllDone(c)
  /\ Settle(local[c].insts)
  /\ Return(c)
  /\ UNCHANGED <<apps, slot, ctxDone, daemon>>

\* Restart and UpdateEnv start a fresh instance in every slot of the targets.
FinishRestart(c) ==
  /\ At(c, "stopping") /\ local[c].op \in {"restart", "updateEnv"}
  /\ AllDone(c)
  /\ StartInstances(LabelsOf(local[c].targets), EnvsOf(LabelsOf(local[c].targets)))
  /\ Return(c)
  /\ UNCHANGED <<apps, ctxDone, daemon>>

-----------------------------------------------------------------------------
(* Reload, one slot at a time: local.insts holds the instance being replaced. *)

\* Slip: all slots of the app are cancelled at once.
BatchOfApp(c, l) == {k \in local[c].todo : k[1] = l[1]}

Batch(c, l) == {l}

\* The slots in order: within an app by index, and an app begun is finished.
IsNext(c, l) ==
  /\ l \in local[c].todo
  /\ \A k \in local[c].todo : k[1] = l[1] => l[2] <= k[2]
  /\ \A k \in local[c].todo :
       (\E i \in 0 .. Slots[k[1]] - 1 : <<k[1], i>> \notin local[c].todo) => k[1] = l[1]

ReloadCancel(c) ==
  /\ At(c, "next")
  /\ \E l \in Labels :
       LET hs == {h \in Collect(local[c].targets) : h[1] \in Batch(c, l)} IN
       /\ IsNext(c, l)
       /\ CancelInstances(hs)
       /\ local' = [local EXCEPT ![c].pc = "slotStop", ![c].insts = hs,
                                 ![c].todo = local[c].todo \ {l}]
  /\ UNCHANGED <<apps, slot, opMu, ctxDone, daemon>>

ReloadStart(c) ==
  /\ At(c, "slotStop")
  /\ AllDone(c)
  /\ LET ls == {h[1] : h \in local[c].insts} IN StartInstances(ls, EnvsOf(ls))
  /\ local' = [local EXCEPT ![c].pc = "slotOnline"]
  /\ UNCHANGED <<apps, opMu, ctxDone, daemon>>

\* waitInstanceOnline ended: online, timed out, or the context is canceled, in
\* which case Reload returns at once.
ReloadGoesOn(c) ==
  /\ At(c, "slotOnline")
  /\ IF ctxDone \/ local[c].todo = {}
       THEN Return(c)
       ELSE /\ local' = [local EXCEPT ![c].pc = "next", ![c].insts = {}]
            /\ UNCHANGED opMu
  /\ UNCHANGED <<apps, slot, inst, ctxDone, daemon>>

-----------------------------------------------------------------------------
(* Shutdown of the daemon. *)

\* A signal cancels the context given to manager.New; the Kill RPC does not.
Shutdown ==
  /\ daemon = "up"
  /\ daemon' = "draining"
  /\ ctxDone' \in BOOLEAN
  /\ UNCHANGED <<apps, slot, inst, opMu, local>>

\* Slip: StopAll right away, without GracefulStop.
NoDrain == TRUE

\* GracefulStop returns: no RPC is being handled, no log followed either.
Drained == \A c \in Rpc : local[c].pc = "idle"

CallStopAll ==
  /\ daemon = "draining"
  /\ Drained
  /\ daemon' = "stopping"
  /\ local' = [local EXCEPT ![Main] = Waiting]
  /\ UNCHANGED <<apps, slot, inst, opMu, ctxDone>>

\* Serve returns an error of its own: StopAll follows, and nothing is drained.
ServeFails ==
  /\ daemon = "up"
  /\ daemon' = "failing"
  /\ local' = [local EXCEPT ![Main] = Waiting]
  /\ UNCHANGED <<apps, slot, inst, opMu, ctxDone>>

BeginStopAll ==
  /\ At(Main, "waiting") /\ opMu = NoOne
  /\ opMu' = Main
  /\ local' = [local EXCEPT ![Main] =
       [Idle EXCEPT !.pc = "collected", !.op = "stopAll", !.targets = apps, !.insts = Collect(apps)]]
  /\ UNCHANGED <<apps, slot, inst, ctxDone, daemon>>

FinishStopAll ==
  /\ At(Main, "stopping") /\ local[Main].op = "stopAll"
  /\ AllDone(Main)
  /\ Settle(local[Main].insts)
  /\ Return(Main)
  /\ UNCHANGED <<apps, slot, ctxDone, daemon>>

\* daemon.Run returns after StopAll and the process ends.
Exit ==
  /\ daemon \in {"stopping", "failing"} /\ At(Main, "idle")
  /\ daemon' = IF daemon = "stopping" THEN "exited" ELSE "failed"
  /\ UNCHANGED <<apps, slot, inst, opMu, local, ctxDone>>

-----------------------------------------------------------------------------
(* The instances.  Of InstanceLifecycle only the end matters here: the      *)
(* manager reads "online" nowhere but in Reload's wait, which may time out. *)

\* An instance ends, of its own (stopped, errored) or because it is cancelled.
InstanceEnds(l, g) ==
  /\ Alive /\ Live(l, g)
  /\ inst' = [inst EXCEPT ![l][g].env = NoOne]
  /\ UNCHANGED <<apps, slot, opMu, local, ctxDone, daemon>>

-----------------------------------------------------------------------------
\* A client's steps once it holds opMu, and the ways to get it.
Proceed(c) ==
  \/ CancelCollected(c) \/ FinishStop(c) \/ FinishRestart(c)
  \/ ReloadCancel(c) \/ ReloadStart(c) \/ ReloadGoesOn(c)

Acquire(c) ==
  \/ Add(c) \/ ReturnUnchanged(c) \/ BeginStop(c) \/ BeginRestart(c)
  \/ BeginUpdateEnv(c) \/ BeginDelete(c) \/ BeginReload(c)

ShutdownSteps == CallStopAll \/ FinishStopAll \/ Exit

Next ==
  \/ \E c \in Clients : Call(c) \/ Follow(c) \/ HangUp(c) \/ Acquire(c) \/ Proceed(c)
  \/ Shutdown \/ ServeFails \/ BeginStopAll \/ ShutdownSteps
  \/ \E l \in Labels, g \in Gens : InstanceEnds(l, g)

\* Goroutines that can run do; a sync.Mutex starves nobody; a cancelled instance
\* ends (Supervisor: CancelEnds).  No client has to hang up.
CancelledEnds == \E l \in Labels, g \in Gens : Cancelled(l, g) /\ InstanceEnds(l, g)

Fairness ==
  /\ WF_vars(\E c \in Clients : Proceed(c))
  /\ \A c \in Callers : SF_vars(Turn(c) /\ Acquire(c))
  /\ SF_vars(BeginStopAll)
  /\ WF_vars(ShutdownSteps)
  /\ WF_vars(CancelledEnds)

Spec == Init /\ [][Next]_vars /\ Fairness

-----------------------------------------------------------------------------
(* Safety. *)

\* No slot of an app is ever run twice at once: a replacement starts only after
\* the goroutine it replaces has closed done, whoever asked for it.
OneLivePerLabel ==
  \A l \in Labels : \A g, h \in Gens : Live(l, g) /\ Live(l, h) => g = h

\* The comment on opMu: no mutator can orphan an instance goroutine.  A live one
\* is in its app's insts, or the client holding opMu is about to stop it.
NoOrphanGoroutine ==
  \A l \in Labels, g \in Gens : Live(l, g) =>
    \/ slot[l] = g /\ \E a \in apps : a.name = l[1]
    \/ \E c \in Clients : opMu = c /\ <<l, g>> \in local[c].insts

\* A live listed instance runs with its app's current environment, unless an
\* operation in progress is about to replace it.
SpecCurrent ==
  \A a \in apps : \A l \in LabelsOf({a}) :
    slot[l] # NoOne /\ Live(l, slot[l]) =>
      \/ inst[l][slot[l]].env = a.env
      \/ \E c \in Clients : opMu = c /\ <<l, slot[l]>> \in local[c].insts

\* Rolling: of the slots of an app being reloaded, at most one is cancelled and
\* not yet replaced.
RollingReload ==
  \A c \in Clients : local[c].op = "reload" => \A a \in local[c].targets :
    \A k, l \in LabelsOf({a}) :
      inst[k][slot[k]].cancelled /\ inst[l][slot[l]].cancelled => k = l

\* Shutdown leaves nothing behind: when the daemon has exited, no instance it
\* supervised is running (daemon.Run: "then gracefully stops everything").
NoneOutlivesDaemon ==
  daemon = "exited" => \A l \in Labels, g \in Gens : ~Live(l, g)

\* An id or a name selects one app, whatever was deleted, restored with its
\* persisted id or added anew before.
UniqueIds == \A x, y \in apps : x.id = y.id \/ x.name = y.name => x = y

\* An app keeps its id for as long as it is managed, whatever is done to it.
StableIds ==
  [][\A a \in apps, b \in apps' : a.name = b.name => a.id = b.id]_vars

-----------------------------------------------------------------------------
(* Liveness. *)

\* Every operation that was called returns (or the daemon exits first): waiting
\* for instances while holding opMu blocks the other mutators, never for good.
CallsReturn ==
  \A c \in Callers : local[c].pc = "waiting" ~> (local[c].pc = "idle" \/ ~Alive)

Followed == \E c \in Rpc : local[c].pc = "following"

\* A shutdown ends once no log is being followed (GracefulStop waits for a follower
\* as long as its client likes), and the one after an error of Serve in any case.
ShutdownEnds == (daemon = "draining" /\ ~Followed) \/ daemon = "failing" ~> ~Alive
=============================================================================
