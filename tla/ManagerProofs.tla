--------------------------- MODULE ManagerProofs ---------------------------
(***************************************************************************)
(* Theorems about Manager for any apps, slots, environments and callers:   *)
(* its safety properties, from one inductive invariant, that Reload is     *)
(* rolling, and what a shutdown leaves behind where all callers are RPC    *)
(* handlers.                                                               *)
(***************************************************************************)
EXTENDS Manager, WellFoundedInduction, TLAPS

-----------------------------------------------------------------------------
(* The inductive invariant. *)

Holder(c) == local[c].pc \notin {"idle", "following", "waiting"}

\* The holder of opMu has collected this instance and not yet replaced it.
Stoppers == {"collected", "stopping", "slotStop"}
Stopping(l, g) ==
  \E c \in Clients : opMu = c /\ local[c].pc \in Stoppers /\ <<l, g>> \in local[c].insts

\* opMu is a lock: whoever is past its acquisition holds it.
Mutex == \A c \in Clients : opMu = c <=> Holder(c)

UniqueNames == \A x, y \in apps : x.name = y.name => x = y

SlotsListed == \A l \in Labels : slot[l] # NoOne => \E x \in apps : x.name = l[1]

\* A live instance is in its slot, or about to be stopped ...
LiveListed == \A l \in Labels, g \in Gens : Live(l, g) => slot[l] = g \/ Stopping(l, g)

\* ... and has its app's environment, or is about to be stopped.
CurrentOrStopping ==
  \A x \in apps : \A l \in LabelsOf({x}) :
    slot[l] # NoOne /\ Live(l, slot[l]) => inst[l][slot[l]].env = x.env \/ Stopping(l, slot[l])

\* A restart stops everything that is in the slots it will fill, ...
RestartKnows ==
  \A c \in Clients :
    local[c].pc \in {"collected", "stopping"} /\ local[c].op \in {"restart", "updateEnv"} =>
      local[c].targets \subseteq apps /\ Collect(local[c].targets) \subseteq local[c].insts

\* ... and a reload what is in the slot it will fill.
ReloadKnows ==
  \A c \in Clients : local[c].pc = "slotStop" => \A h \in local[c].insts : slot[h[1]] = h[2]

\* daemon.Run calls StopAll after it has drained the server or Serve has failed, and
\* whoever finishes it has waited for everything that was listed.
MainKnows ==
  /\ local[Main].pc \in {"idle", "waiting", "collected", "stopping"}
  /\ local[Main].pc # "idle" => daemon \in {"stopping", "failing"}
  /\ local[Main].pc \in {"collected", "stopping"} =>
       local[Main].op = "stopAll" /\ Collect(apps) \subseteq local[Main].insts

IInv ==
  /\ TypeOK /\ OneLivePerLabel
  /\ Mutex /\ UniqueNames /\ SlotsListed /\ LiveListed /\ CurrentOrStopping
  /\ RestartKnows /\ ReloadKnows

-----------------------------------------------------------------------------
(* What the operators of the steps do. *)

LEMMA Locals ==
  /\ Idle \in Local /\ Waiting \in Local
  /\ Idle.pc = "idle" /\ Idle.op = "none" /\ Idle.insts = {} /\ Idle.targets = {}
  /\ Waiting.pc = "waiting" /\ Waiting.op = "none"
  /\ Following \in Local /\ Following.pc = "following" /\ Following.op = "none"
<1>1. Idle \in Local /\ Idle.pc = "idle" /\ Idle.op = "none" /\ Idle.insts = {} /\ Idle.targets = {}
  BY DEF Idle, Local, Place, Operation
<1>2. Waiting \in Local /\ Waiting.pc = "waiting" /\ Waiting.op = "none"
  BY DEF Waiting, Idle, Local, Place, Operation
<1>3. Following \in Local /\ Following.pc = "following" /\ Following.op = "none"
  BY DEF Following, Idle, Local, Place, Operation
<1> QED BY <1>1, <1>2, <1>3

\* One client's entry changes.
LEMMA OneLocal ==
  ASSUME TypeOK, NEW c \in Clients, NEW r \in Local, local' = [local EXCEPT ![c] = r]
  PROVE  /\ local' \in [Clients -> Local]
         /\ \A d \in Clients : local'[d] = IF d = c THEN r ELSE local[d]
BY DEF TypeOK

LEMMA CollectTypes ==
  ASSUME NEW as
  PROVE  /\ LabelsOf(as) \subseteq Labels
         /\ Collect(as) \subseteq Labels \X Gens
         /\ \A h \in Collect(as) : h[1] \in LabelsOf(as) /\ slot[h[1]] = h[2]
BY DEF LabelsOf, Collect

LEMMA SelectionTypes == \A as \in Selections : as \subseteq apps
BY DEF Selections, Resolve, Selectors

\* Cancelling and settling leave the goroutines as they are.
LEMMA Flags ==
  ASSUME TypeOK, NEW hs, NEW flag \in BOOLEAN,
         inst' = [l \in Labels |-> [g \in Gens |->
                   IF <<l, g>> \in hs THEN [inst[l][g] EXCEPT !.cancelled = flag] ELSE inst[l][g]]]
  PROVE  /\ inst' \in [Labels -> [Gens -> Instance]]
         /\ \A l \in Labels, g \in Gens :
              /\ inst'[l][g].env = inst[l][g].env
              /\ inst'[l][g].cancelled = IF <<l, g>> \in hs THEN flag ELSE inst[l][g].cancelled
<1>1. \A l \in Labels, g \in Gens : inst[l][g] \in Instance
  BY DEF TypeOK
<1>2. \A l \in Labels, g \in Gens :
        /\ [inst[l][g] EXCEPT !.cancelled = flag] \in Instance
        /\ [inst[l][g] EXCEPT !.cancelled = flag].env = inst[l][g].env
        /\ [inst[l][g] EXCEPT !.cancelled = flag].cancelled = flag
  BY <1>1 DEF Instance
<1> QED BY <1>1, <1>2

\* startInstance fills the slots with fresh goroutines and touches no other.
LEMMA Started ==
  ASSUME TypeOK, NEW ls, ls \subseteq Labels, NEW env, \A l \in ls : env[l] \in Envs,
         StartInstances(ls, env)
  PROVE  /\ slot' \in [Labels -> Gens \cup {NoOne}] /\ inst' \in [Labels -> [Gens -> Instance]]
         /\ \A l \in ls : /\ slot'[l] \in Gens /\ inst'[l][slot'[l]].env = env[l]
                          /\ ~inst'[l][slot'[l]].cancelled
                          /\ \A g \in Gens : Live(l, g)' => g = slot'[l] \/ Live(l, g)
         /\ \A l \in Labels : l \notin ls => slot'[l] = slot[l] /\ inst'[l] = inst[l]
<1>1. \A l \in ls : FreeGen(l) \in Gens
  BY DEF StartInstances, FreeGen
<1>2. slot' = [l \in Labels |-> IF l \in ls THEN FreeGen(l) ELSE slot[l]]
  BY DEF StartInstances
<1>3. inst' = [l \in Labels |-> [g \in Gens |->
        IF l \in ls /\ g = FreeGen(l) THEN [env |-> env[l], cancelled |-> FALSE] ELSE inst[l][g]]]
  BY DEF StartInstances
<1>4. \A l \in Labels, g \in Gens : inst[l][g] \in Instance /\ inst[l] = [k \in Gens |-> inst[l][k]]
  BY DEF TypeOK
<1>5. slot' \in [Labels -> Gens \cup {NoOne}]
  BY <1>1, <1>2 DEF TypeOK
<1>6. inst' \in [Labels -> [Gens -> Instance]]
  <2>1. \A l \in ls : [env |-> env[l], cancelled |-> FALSE] \in Instance
    BY DEF Instance
  <2> QED BY <1>3, <1>4, <2>1
<1>7. \A l \in ls : slot'[l] = FreeGen(l) /\ inst'[l][slot'[l]].env = env[l] /\ ~inst'[l][slot'[l]].cancelled
  BY <1>1, <1>2, <1>3
<1>8. \A l \in ls, g \in Gens : g # slot'[l] => inst'[l][g] = inst[l][g]
  BY <1>3, <1>7
<1>9. \A l \in Labels : l \notin ls => slot'[l] = slot[l] /\ inst'[l] = inst[l]
  <2> SUFFICES ASSUME NEW l \in Labels, l \notin ls PROVE slot'[l] = slot[l] /\ inst'[l] = inst[l]
    OBVIOUS
  <2>1. inst'[l] = [g \in Gens |-> inst[l][g]]
    BY <1>3
  <2>2. inst[l] = [g \in Gens |-> inst[l][g]]
    BY DEF TypeOK
  <2> QED BY <1>2, <2>1, <2>2
<1> QED BY <1>1, <1>5, <1>6, <1>7, <1>8, <1>9 DEF Live

\* The environments given to labels of listed apps.
LEMMA EnvsListed ==
  ASSUME TypeOK, UniqueNames, NEW ls, \A l \in ls : \E x \in apps : x.name = l[1]
  PROVE  \A l \in ls : /\ EnvsOf(ls)[l] \in Envs
                       /\ \A x \in apps : x.name = l[1] => EnvsOf(ls)[l] = x.env
<1> SUFFICES ASSUME NEW l \in ls
             PROVE  /\ EnvsOf(ls)[l] \in Envs
                    /\ \A x \in apps : x.name = l[1] => EnvsOf(ls)[l] = x.env
  OBVIOUS
<1>1. PICK y : y = CHOOSE x \in apps : x.name = l[1]
  OBVIOUS
<1>2. y \in apps /\ y.name = l[1]
  BY <1>1
<1>3. EnvsOf(ls)[l] = y.env
  BY <1>1 DEF EnvsOf
<1> QED BY <1>2, <1>3 DEF TypeOK, UniqueNames, App

-----------------------------------------------------------------------------
(* What holds while nobody, or somebody, has opMu. *)

LEMMA AtRest ==
  ASSUME IInv, opMu = NoOne
  PROVE  /\ \A c \in Clients : ~Holder(c)
         /\ \A l \in Labels, g \in Gens : Live(l, g) => slot[l] = g
         /\ \A x \in apps : \A l \in LabelsOf({x}) :
              slot[l] # NoOne /\ Live(l, slot[l]) => inst[l][slot[l]].env = x.env
<1>1. \A c \in Clients : opMu # c
  BY DistinctAssumption
<1>2. \A c \in Clients : ~Holder(c)
  BY <1>1 DEF IInv, Mutex
<1>3. \A l, g : ~Stopping(l, g)
  BY <1>1 DEF Stopping
<1> QED BY <1>2, <1>3 DEF IInv, LiveListed, CurrentOrStopping

LEMMA OneHolder ==
  ASSUME IInv, NEW c \in Clients, Holder(c)
  PROVE  /\ opMu = c /\ \A d \in Clients : d # c => ~Holder(d)
         /\ \A l, g : Stopping(l, g) => local[c].pc \in Stoppers /\ <<l, g>> \in local[c].insts
BY DEF IInv, Mutex, Stopping

-----------------------------------------------------------------------------
(* Steps that take no lock and change no slot. *)

\* Goroutines may end, and clients without opMu call and return.
LEMMA Quiet ==
  ASSUME IInv, TypeOK', UNCHANGED <<apps, slot, opMu>>,
         \A l \in Labels, g \in Gens : inst'[l][g].env \in {inst[l][g].env, NoOne},
         \A c \in Clients : local'[c] = local[c] \/ (~Holder(c) /\ ~Holder(c)')
  PROVE  IInv'
<1>1. \A l \in Labels, g \in Gens : Live(l, g)' => Live(l, g) /\ inst'[l][g].env = inst[l][g].env
  BY DEF Live
<1>2. \A c \in Clients : Holder(c)' <=> Holder(c)
  BY DEF Holder
<1>3. \A c \in Clients : Holder(c) => local'[c] = local[c]
  OBVIOUS
<1>4. \A l, g : Stopping(l, g) => Stopping(l, g)'
  BY <1>3 DEF Stopping, Stoppers, Holder
<1>5. OneLivePerLabel' /\ Mutex' /\ UniqueNames' /\ SlotsListed'
  BY <1>1, <1>2 DEF IInv, OneLivePerLabel, Mutex, UniqueNames, SlotsListed
<1>6. LiveListed'
  BY <1>1, <1>4 DEF IInv, LiveListed
<1>7. CurrentOrStopping'
  <2> SUFFICES ASSUME NEW x \in apps, NEW l \in LabelsOf({x}), slot[l] # NoOne, Live(l, slot[l])'
               PROVE  inst'[l][slot[l]].env = x.env \/ Stopping(l, slot[l])'
    BY DEF CurrentOrStopping, LabelsOf
  <2>1. l \in Labels /\ slot[l] \in Gens
    BY DEF LabelsOf, IInv, TypeOK
  <2> QED BY <1>1, <1>4, <2>1 DEF IInv, CurrentOrStopping
<1>8. RestartKnows' /\ ReloadKnows'
  BY <1>3 DEF IInv, RestartKnows, ReloadKnows, Collect, LabelsOf, Holder
<1> QED BY <1>5, <1>6, <1>7, <1>8 DEF IInv

\* Calls, followers, and the returns that changed nothing.
LEMMA CallIInv ==
  ASSUME IInv, NEW c \in Clients, Call(c) \/ Follow(c) \/ HangUp(c) \/ ReturnUnchanged(c)
  PROVE  IInv'
<1>1. PICK r \in Local : r.pc \in {"idle", "following", "waiting"} /\ local' = [local EXCEPT ![c] = r]
  BY Locals DEF Call, Follow, HangUp, ReturnUnchanged
<1>2. ~Holder(c)
  BY DEF Call, Follow, HangUp, ReturnUnchanged, Turn, At, Holder
<1>3. local' \in [Clients -> Local] /\ \A d \in Clients : local'[d] = IF d = c THEN r ELSE local[d]
  BY <1>1, OneLocal DEF IInv
<1>4. UNCHANGED <<apps, slot, inst, opMu, ctxDone, daemon>>
  BY DEF Call, Follow, HangUp, ReturnUnchanged
<1>5. TypeOK'
  BY <1>3, <1>4 DEF IInv, TypeOK
<1>6. \A d \in Clients : local'[d] = local[d] \/ (~Holder(d) /\ ~Holder(d)')
  BY <1>1, <1>2, <1>3 DEF Holder
<1> QED BY <1>4, <1>5, <1>6, Quiet

\* The steps of the shutdown that take no lock.
LEMMA ShutdownIInv ==
  ASSUME IInv, MainKnows, Shutdown \/ CallStopAll \/ ServeFails \/ Exit
  PROVE  IInv'
<1>1. UNCHANGED <<apps, slot, inst, opMu>> /\ ctxDone' \in BOOLEAN /\ daemon' \in DaemonStates
  BY DEF Shutdown, CallStopAll, ServeFails, Exit, IInv, TypeOK, DaemonStates
<1>2. CASE UNCHANGED local
  <2>1. TypeOK'
    BY <1>1, <1>2 DEF IInv, TypeOK
  <2> QED BY <1>1, <1>2, <2>1, Quiet
<1>3. CASE CallStopAll \/ ServeFails
  <2>1. local' \in [Clients -> Local] /\ \A d \in Clients : local'[d] = IF d = Main THEN Waiting ELSE local[d]
    <3>1. Main \in Clients
      BY DEF Clients
    <3> QED BY <1>3, <3>1, Locals, OneLocal DEF IInv, CallStopAll, ServeFails
  <2>2. TypeOK'
    BY <1>1, <2>1 DEF IInv, TypeOK
  <2>3. ~Holder(Main)
    BY <1>3 DEF CallStopAll, ServeFails, MainKnows, Holder
  <2>4. \A d \in Clients : local'[d] = local[d] \/ (~Holder(d) /\ ~Holder(d)')
    BY <2>1, <2>3, Locals DEF Holder
  <2> QED BY <1>1, <2>2, <2>4, Quiet
<1> QED BY <1>2, <1>3 DEF Shutdown, Exit

LEMMA EndsIInv ==
  ASSUME IInv, NEW l \in Labels, NEW g \in Gens, InstanceEnds(l, g)
  PROVE  IInv'
<1>1. inst' = [inst EXCEPT ![l][g].env = NoOne] /\ UNCHANGED <<apps, slot, opMu, local, ctxDone, daemon>>
  BY DEF InstanceEnds
<1>2. inst[l] \in [Gens -> Instance] /\ inst[l][g] \in Instance
  BY DEF IInv, TypeOK
<1>3. inst' = [inst EXCEPT ![l] = [inst[l] EXCEPT ![g] = [inst[l][g] EXCEPT !.env = NoOne]]]
  BY <1>1
<1>4. [inst[l][g] EXCEPT !.env = NoOne] \in Instance /\ [inst[l][g] EXCEPT !.env = NoOne].env = NoOne
  BY <1>2 DEF Instance
<1>5. inst' \in [Labels -> [Gens -> Instance]]
  BY <1>2, <1>3, <1>4 DEF IInv, TypeOK
<1>6. \A k \in Labels, h \in Gens : inst'[k][h].env \in {inst[k][h].env, NoOne}
  BY <1>2, <1>3, <1>4 DEF IInv, TypeOK
<1>7. TypeOK'
  BY <1>1, <1>5 DEF IInv, TypeOK
<1> QED BY <1>1, <1>6, <1>7, Quiet

-----------------------------------------------------------------------------
(* Taking opMu. *)

\* The record of an operation that has collected its instances.
Working(op, as) == [Idle EXCEPT !.pc = "collected", !.op = op, !.targets = as, !.insts = Collect(as)]

LEMMA Collected ==
  ASSUME NEW op \in Operation, NEW as \in SUBSET App
  PROVE  /\ Working(op, as) \in Local /\ Working(op, as).pc = "collected" /\ Working(op, as).op = op
         /\ Working(op, as).targets = as /\ Working(op, as).insts = Collect(as)
<1>1. Working(op, as).pc = "collected" /\ Working(op, as).op = op
      /\ Working(op, as).targets = as /\ Working(op, as).insts = Collect(as)
  BY DEF Working, Idle
<1>2. Working(op, as) \in Local
  BY CollectTypes DEF Working, Idle, Local, Place, Operation
<1> QED BY <1>1, <1>2

\* From rest, an operation that leaves slots and goroutines alone begins.
LEMMA BeginIInv ==
  ASSUME IInv, opMu = NoOne, TypeOK', UNCHANGED <<apps, slot, inst>>,
         NEW c \in Clients, opMu' = c, Holder(c)',
         \A d \in Clients : d # c => local'[d] = local[d],
         local'[c].pc # "slotStop", RestartKnows'
  PROVE  IInv'
<1>1. /\ \A d \in Clients : ~Holder(d)
      /\ \A l \in Labels, g \in Gens : Live(l, g) => slot[l] = g
      /\ \A x \in apps : \A l \in LabelsOf({x}) :
           slot[l] # NoOne /\ Live(l, slot[l]) => inst[l][slot[l]].env = x.env
  BY AtRest
<1>2. Mutex'
  BY <1>1 DEF Mutex, Holder
<1>3. OneLivePerLabel' /\ UniqueNames' /\ SlotsListed' /\ LiveListed' /\ CurrentOrStopping'
  BY <1>1 DEF IInv, OneLivePerLabel, UniqueNames, SlotsListed, LiveListed, CurrentOrStopping, Live, LabelsOf
<1>4. ReloadKnows'
  BY <1>1 DEF ReloadKnows, Holder
<1> QED BY <1>2, <1>3, <1>4 DEF IInv

LEMMA SimpleBeginIInv ==
  ASSUME IInv, NEW c \in Clients,
         BeginStop(c) \/ BeginRestart(c) \/ BeginReload(c) \/ (c = Main /\ BeginStopAll)
  PROVE  IInv'
<1>1. UNCHANGED <<apps, slot, inst, ctxDone, daemon>> /\ opMu = NoOne /\ opMu' = c
  BY DEF BeginStop, BeginRestart, BeginReload, BeginStopAll, Begin, Turn
<1>2. PICK r \in Local :
        /\ local' = [local EXCEPT ![c] = r] /\ r.pc \in {"collected", "next"}
        /\ r.pc = "collected" => r.targets \subseteq apps /\ r.insts = Collect(r.targets)
  <2>1. CASE BeginStop(c)
    <3>1. PICK as \in Selections : local' = [local EXCEPT ![c] = Working("stop", as)]
      BY <2>1 DEF BeginStop, Begin, Working
    <3>2. as \subseteq apps /\ as \in SUBSET App
      BY SelectionTypes DEF IInv, TypeOK
    <3>3. PICK r : r = Working("stop", as)
      OBVIOUS
    <3>4. r \in Local /\ r.pc = "collected" /\ r.targets = as /\ r.insts = Collect(as)
      BY <3>2, <3>3, Collected DEF Operation
    <3> QED BY <3>1, <3>2, <3>3, <3>4
  <2>2. CASE BeginRestart(c)
    <3>1. PICK as \in Selections : local' = [local EXCEPT ![c] = Working("restart", as)]
      BY <2>2 DEF BeginRestart, Begin, Working
    <3>2. as \subseteq apps /\ as \in SUBSET App
      BY SelectionTypes DEF IInv, TypeOK
    <3>3. PICK r : r = Working("restart", as)
      OBVIOUS
    <3>4. r \in Local /\ r.pc = "collected" /\ r.targets = as /\ r.insts = Collect(as)
      BY <3>2, <3>3, Collected DEF Operation
    <3> QED BY <3>1, <3>2, <3>3, <3>4
  <2>3. CASE BeginReload(c)
    <3>1. PICK as \in Selections : local' = [local EXCEPT ![c] =
            [Idle EXCEPT !.pc = "next", !.op = "reload", !.targets = as, !.todo = LabelsOf(as)]]
      BY <2>3 DEF BeginReload
    <3>2. as \in SUBSET App
      BY SelectionTypes DEF IInv, TypeOK
    <3>3. PICK r : r = [Idle EXCEPT !.pc = "next", !.op = "reload", !.targets = as, !.todo = LabelsOf(as)]
      OBVIOUS
    <3>4. r \in Local /\ r.pc = "next"
      BY <3>2, <3>3, CollectTypes DEF Idle, Local, Place, Operation
    <3> QED BY <3>1, <3>3, <3>4
  <2>4. CASE c = Main /\ BeginStopAll
    <3>1. apps \in SUBSET App
      BY DEF IInv, TypeOK
    <3>2. PICK r : r = Working("stopAll", apps)
      OBVIOUS
    <3>3. local' = [local EXCEPT ![c] = r]
      BY <2>4, <3>2 DEF BeginStopAll, Working
    <3>4. r \in Local /\ r.pc = "collected" /\ r.targets = apps /\ r.insts = Collect(apps)
      BY <3>1, <3>2, Collected DEF Operation
    <3> QED BY <3>3, <3>4
  <2> QED BY <2>1, <2>2, <2>3, <2>4
<1>3. local' \in [Clients -> Local] /\ \A d \in Clients : local'[d] = IF d = c THEN r ELSE local[d]
  BY <1>2, OneLocal DEF IInv
<1>4. TypeOK'
  BY <1>1, <1>3 DEF IInv, TypeOK
<1>5. RestartKnows'
  BY <1>1, <1>2, <1>3 DEF IInv, RestartKnows, Collect, LabelsOf
<1>6. Holder(c)' /\ local'[c].pc # "slotStop"
  BY <1>2, <1>3 DEF Holder
<1> QED BY <1>1, <1>3, <1>4, <1>5, <1>6, BeginIInv

\* The new environment is stored with opMu taken; the instances are to be replaced.
LEMMA BeginUpdateEnvIInv ==
  ASSUME IInv, NEW c \in Clients, BeginUpdateEnv(c)
  PROVE  IInv'
<1>1. PICK x \in apps, e \in Envs :
        /\ apps' = (apps \ {x}) \cup {WithEnv(x, e)}
        /\ Begin(c, "updateEnv", {[x EXCEPT !.env = e]})
  BY DEF BeginUpdateEnv
<1>2. PICK y : y = [x EXCEPT !.env = e]
  OBVIOUS
<1>3. y \in App /\ y.name = x.name /\ y.id = x.id /\ apps' = (apps \ {x}) \cup {y}
  BY <1>1, <1>2 DEF IInv, TypeOK, App, WithEnv
<1>4. UNCHANGED <<slot, inst, ctxDone, daemon>> /\ opMu = NoOne /\ opMu' = c
  BY <1>1 DEF BeginUpdateEnv, Begin, Turn
<1>5. PICK r \in Local : /\ local' = [local EXCEPT ![c] = r]
                         /\ r.pc = "collected" /\ r.op = "updateEnv" /\ r.targets = {y} /\ r.insts = Collect({y})
  <2>1. PICK r : r = Working("updateEnv", {y})
    OBVIOUS
  <2>2. local' = [local EXCEPT ![c] = r]
    BY <1>1, <1>2, <2>1 DEF Begin, Working
  <2>3. r \in Local /\ r.pc = "collected" /\ r.op = "updateEnv" /\ r.targets = {y} /\ r.insts = Collect({y})
    BY <1>3, <2>1, Collected DEF Operation
  <2> QED BY <2>2, <2>3
<1>6. local' \in [Clients -> Local] /\ \A d \in Clients : local'[d] = IF d = c THEN r ELSE local[d]
  BY <1>5, OneLocal DEF IInv
<1>7. TypeOK'
  BY <1>3, <1>4, <1>6 DEF IInv, TypeOK
<1>8. /\ \A d \in Clients : ~Holder(d)
      /\ \A l \in Labels, g \in Gens : Live(l, g) => slot[l] = g
      /\ \A z \in apps : \A l \in LabelsOf({z}) :
           slot[l] # NoOne /\ Live(l, slot[l]) => inst[l][slot[l]].env = z.env
  BY <1>4, AtRest
<1>9. Mutex'
  BY <1>4, <1>5, <1>6, <1>8 DEF Mutex, Holder
<1>10. OneLivePerLabel' /\ LiveListed'
  BY <1>4, <1>8 DEF IInv, OneLivePerLabel, LiveListed, Live
<1>11. UniqueNames' /\ SlotsListed'
  BY <1>3, <1>4 DEF IInv, UniqueNames, SlotsListed
<1>12. CurrentOrStopping'
  <2> SUFFICES ASSUME NEW z \in apps', NEW l \in LabelsOf({z}), slot[l] # NoOne, Live(l, slot[l])
               PROVE  inst[l][slot[l]].env = z.env \/ Stopping(l, slot[l])'
    BY <1>4 DEF CurrentOrStopping, LabelsOf, Live
  <2>1. CASE z \in apps
    BY <1>8, <2>1
  <2>2. CASE z = y
    <3>1. l \in Labels /\ slot[l] \in Gens /\ <<l, slot[l]>> \in Collect({y})
      BY <2>2 DEF LabelsOf, Collect, IInv, TypeOK
    <3> QED BY <1>4, <1>5, <1>6, <3>1 DEF Stopping, Stoppers
  <2> QED BY <1>3, <2>1, <2>2
<1>13. RestartKnows'
  <2>1. Collect({y})' = Collect({y})
    BY <1>4 DEF Collect, LabelsOf
  <2> QED BY <1>3, <1>5, <1>6, <1>8, <2>1 DEF RestartKnows, Holder
<1>14. ReloadKnows'
  BY <1>5, <1>6, <1>8 DEF ReloadKnows, Holder
<1> QED BY <1>7, <1>9, <1>10, <1>11, <1>12, <1>13, <1>14 DEF IInv

\* Delete takes the apps out of the list and their instances out of the slots.
LEMMA BeginDeleteIInv ==
  ASSUME IInv, NEW c \in Clients, BeginDelete(c)
  PROVE  IInv'
<1>1. PICK as \in Selections :
        /\ Begin(c, "delete", as) /\ apps' = apps \ as
        /\ slot' = [l \in Labels |-> IF l \in LabelsOf(as) THEN NoOne ELSE slot[l]]
  BY DEF BeginDelete
<1>2. UNCHANGED <<inst, ctxDone, daemon>> /\ opMu = NoOne /\ opMu' = c
  BY <1>1 DEF BeginDelete, Begin, Turn
<1>3. as \subseteq apps /\ as \in SUBSET App
  BY SelectionTypes DEF IInv, TypeOK
<1>4. PICK r \in Local : /\ local' = [local EXCEPT ![c] = r]
                         /\ r.pc = "collected" /\ r.op = "delete" /\ r.targets = as /\ r.insts = Collect(as)
  <2>1. PICK r : r = Working("delete", as)
    OBVIOUS
  <2>2. local' = [local EXCEPT ![c] = r]
    BY <1>1, <2>1 DEF Begin, Working
  <2>3. r \in Local /\ r.pc = "collected" /\ r.op = "delete" /\ r.targets = as /\ r.insts = Collect(as)
    BY <1>3, <2>1, Collected DEF Operation
  <2> QED BY <2>2, <2>3
<1>5. local' \in [Clients -> Local] /\ \A d \in Clients : local'[d] = IF d = c THEN r ELSE local[d]
  BY <1>4, OneLocal DEF IInv
<1>6. TypeOK'
  BY <1>1, <1>2, <1>5 DEF IInv, TypeOK
<1>7. /\ \A d \in Clients : ~Holder(d)
      /\ \A l \in Labels, g \in Gens : Live(l, g) => slot[l] = g
      /\ \A z \in apps : \A l \in LabelsOf({z}) :
           slot[l] # NoOne /\ Live(l, slot[l]) => inst[l][slot[l]].env = z.env
  BY <1>2, AtRest
<1>8. \A l \in Labels, g \in Gens : <<l, g>> \in Collect(as) => Stopping(l, g)'
  BY <1>2, <1>4, <1>5 DEF Stopping, Stoppers
<1>9. Mutex' /\ OneLivePerLabel' /\ UniqueNames'
  <2>1. Mutex'
    BY <1>2, <1>4, <1>5, <1>7 DEF Mutex, Holder
  <2>2. OneLivePerLabel'
    BY <1>2 DEF IInv, OneLivePerLabel, Live
  <2>3. UniqueNames'
    BY <1>1 DEF IInv, UniqueNames
  <2> QED BY <2>1, <2>2, <2>3
<1>10. SlotsListed'
  <2> SUFFICES ASSUME NEW l \in Labels, slot'[l] # NoOne PROVE \E x \in apps' : x.name = l[1]
    BY DEF SlotsListed
  <2>1. l \notin LabelsOf(as) /\ slot[l] # NoOne
    BY <1>1
  <2>2. PICK x \in apps : x.name = l[1]
    BY <2>1 DEF IInv, SlotsListed
  <2>3. x \notin as
    BY <2>1, <2>2 DEF LabelsOf
  <2> QED BY <1>1, <2>2, <2>3
<1>11. LiveListed'
  <2> SUFFICES ASSUME NEW l \in Labels, NEW g \in Gens, Live(l, g) PROVE slot'[l] = g \/ Stopping(l, g)'
    BY <1>2 DEF LiveListed, Live
  <2>1. slot[l] = g
    BY <1>7
  <2>2. CASE l \in LabelsOf(as)
    BY <1>8, <2>1, <2>2 DEF Collect
  <2>3. CASE l \notin LabelsOf(as)
    BY <1>1, <2>1, <2>3
  <2> QED BY <2>2, <2>3
<1>12. CurrentOrStopping'
  BY <1>1, <1>2, <1>7 DEF CurrentOrStopping, LabelsOf, Live
<1>13. RestartKnows' /\ ReloadKnows'
  BY <1>4, <1>5, <1>7 DEF RestartKnows, ReloadKnows, Holder
<1> QED BY <1>6, <1>9, <1>10, <1>11, <1>12, <1>13 DEF IInv

-----------------------------------------------------------------------------
(* Add. *)

\* A set of numbers with a bound has a largest one.
LEMMA Largest ==
  ASSUME NEW n \in Nat, NEW S \in SUBSET (1 .. n), S # {}
  PROVE  \E m \in S : \A i \in S : i <= m
<1> DEFINE T == {k \in Nat : n - k \in S}
<1>1. T \subseteq Nat /\ \A i \in S : i \in 1 .. n /\ n - i \in T
  <2>1. \A i \in S : i \in 1 .. n /\ n - i \in Nat /\ n - (n - i) = i
    OBVIOUS
  <2> QED BY <2>1
<1>2. PICK R : R = OpToRel(<, Nat)
  OBVIOUS
<1>3. IsWellFoundedOn(R, Nat)
  BY <1>2, NatLessThanWellFounded, Zenon
<1>4. PICK x \in T : \A y \in T : ~ (<<y, x>> \in R)
  <2>1. T # {}
    BY <1>1
  <2> HIDE DEF T
  <2> QED BY <1>1, <1>3, <2>1, WFMin
<1>5. \A k, l \in Nat : k < l => <<k, l>> \in R
  BY <1>2, Zenon DEF OpToRel
<1>6. x \in Nat /\ n - x \in S
  OBVIOUS
<1>7. \A i \in S : i <= n - x
  <2> SUFFICES ASSUME NEW i \in S PROVE i <= n - x
    OBVIOUS
  <2>1. n - i \in T /\ n - i \in Nat /\ ~(n - i < x)
    BY <1>1, <1>4, <1>5, <1>6
  <2> QED BY <1>1, <1>6, <2>1
<1> QED BY <1>6, <1>7

\* An assigned id is a number that no app has.
LEMMA AssignIdTypes ==
  ASSUME TypeOK, NEW want \in {0} \cup Ids
  PROVE  AssignId(want) \in Nat \ {0} /\ AssignId(want) \notin TakenIds
<1>1. TakenIds \in SUBSET (1 .. MaxId)
  BY DEF TypeOK, App, Ids, TakenIds
<1>2. MaxAppId \in Nat /\ \A i \in TakenIds : i <= MaxAppId
  <2>1. CASE apps = {}
    BY <2>1 DEF MaxAppId, TakenIds
  <2>2. CASE apps # {}
    <3>1. TakenIds # {}
      BY <2>2 DEF TakenIds
    <3>2. \E m \in TakenIds : \A i \in TakenIds : i <= m
      BY <1>1, <3>1, MaxIdAssumption, Largest
    <3>3. MaxAppId \in TakenIds /\ \A i \in TakenIds : i <= MaxAppId
      BY <2>2, <3>2 DEF MaxAppId
    <3> QED BY <1>1, <3>3
  <2> QED BY <2>1, <2>2
<1> QED BY <1>1, <1>2 DEF AssignId, Ids

\* A name that is free has empty slots.
LEMMA AddIInv ==
  ASSUME IInv, NEW c \in Clients, Add(c)
  PROVE  IInv'
<1>1. PICK n \in Names, want \in {0} \cup Ids, e \in Envs :
        /\ NameFree(n) /\ AssignId(want) <= MaxId
        /\ apps' = apps \cup {[id |-> AssignId(want), name |-> n, env |-> e]}
        /\ StartInstances({l \in Labels : l[1] = n}, [l \in Labels |-> e])
  BY DEF Add
<1>2. PICK x, ls : x = [id |-> AssignId(want), name |-> n, env |-> e] /\ ls = {l \in Labels : l[1] = n}
  OBVIOUS
<1>3. x \in App /\ x.name = n /\ x.env = e /\ apps' = apps \cup {x}
  <2>1. AssignId(want) \in Ids
    BY <1>1, AssignIdTypes, MaxIdAssumption DEF IInv, Ids
  <2> QED BY <1>1, <1>2, <2>1 DEF App
<1>4. /\ slot' \in [Labels -> Gens \cup {NoOne}] /\ inst' \in [Labels -> [Gens -> Instance]]
      /\ \A l \in ls : /\ slot'[l] \in Gens /\ inst'[l][slot'[l]].env = e
                       /\ \A g \in Gens : Live(l, g)' => g = slot'[l] \/ Live(l, g)
      /\ \A l \in Labels : l \notin ls => slot'[l] = slot[l] /\ inst'[l] = inst[l]
  <2>1. PICK env : env = [l \in Labels |-> e]
    OBVIOUS
  <2>2. ls \subseteq Labels /\ \A l \in ls : env[l] = e /\ env[l] \in Envs
    BY <1>2, <2>1
  <2>3. StartInstances(ls, env) /\ TypeOK
    BY <1>1, <1>2, <2>1 DEF IInv
  <2>4. /\ slot' \in [Labels -> Gens \cup {NoOne}] /\ inst' \in [Labels -> [Gens -> Instance]]
        /\ \A l \in ls : /\ slot'[l] \in Gens /\ inst'[l][slot'[l]].env = env[l]
                         /\ ~inst'[l][slot'[l]].cancelled
                         /\ \A g \in Gens : Live(l, g)' => g = slot'[l] \/ Live(l, g)
        /\ \A l \in Labels : l \notin ls => slot'[l] = slot[l] /\ inst'[l] = inst[l]
    BY <2>2, <2>3, Started
  <2> QED BY <2>2, <2>4
<1>5. local' = [local EXCEPT ![c] = Idle] /\ opMu = NoOne /\ UNCHANGED <<opMu, ctxDone, daemon>>
      /\ local[c].pc = "waiting"
  BY DEF Add, Turn, At
<1>6. local' \in [Clients -> Local] /\ \A d \in Clients : local'[d] = IF d = c THEN Idle ELSE local[d]
  BY <1>5, Locals, OneLocal DEF IInv
<1>7. TypeOK'
  BY <1>3, <1>4, <1>5, <1>6 DEF IInv, TypeOK
<1>8. /\ \A d \in Clients : ~Holder(d)
      /\ \A l \in Labels, g \in Gens : Live(l, g) => slot[l] = g
      /\ \A z \in apps : \A l \in LabelsOf({z}) :
           slot[l] # NoOne /\ Live(l, slot[l]) => inst[l][slot[l]].env = z.env
  BY <1>5, AtRest
<1>9. \A l \in ls, g \in Gens : ~Live(l, g)
  <2> SUFFICES ASSUME NEW l \in ls, NEW g \in Gens, Live(l, g) PROVE FALSE
    OBVIOUS
  <2>1. l \in Labels /\ l[1] = n /\ slot[l] = g /\ g # NoOne
    BY <1>2, <1>8, DistinctAssumption
  <2> QED BY <1>1, <2>1 DEF IInv, SlotsListed, NameFree
<1>10. Mutex'
  BY <1>5, <1>6, <1>8, Locals DEF IInv, Mutex, Holder
<1>11. OneLivePerLabel' /\ LiveListed'
  <2>1. \A l \in Labels, g \in Gens : Live(l, g)' => g = slot'[l]
    BY <1>4, <1>8, <1>9 DEF Live
  <2> QED BY <2>1 DEF OneLivePerLabel, LiveListed
<1>12. UniqueNames' /\ SlotsListed'
  <2>1. UniqueNames'
    BY <1>1, <1>3 DEF IInv, UniqueNames, NameFree
  <2>2. SlotsListed'
    BY <1>2, <1>3, <1>4 DEF IInv, SlotsListed
  <2> QED BY <2>1, <2>2
<1>13. CurrentOrStopping'
  <2> SUFFICES ASSUME NEW z \in apps', NEW l \in LabelsOf({z}), slot'[l] # NoOne, inst'[l][slot'[l]].env # NoOne
               PROVE  inst'[l][slot'[l]].env = z.env
    BY DEF CurrentOrStopping, LabelsOf, Live
  <2> l \in Labels /\ l[1] = z.name
    BY DEF LabelsOf
  <2>1. CASE z = x
    BY <1>2, <1>3, <1>4, <2>1
  <2>2. CASE z \in apps
    <3>1. l \notin ls
      BY <1>1, <1>2, <2>2 DEF NameFree
    <3>2. slot'[l] = slot[l] /\ inst'[l] = inst[l]
      BY <1>4, <3>1
    <3> QED BY <1>8, <2>2, <3>2 DEF Live
  <2> QED BY <1>3, <2>1, <2>2
<1>14. RestartKnows' /\ ReloadKnows'
  BY <1>6, <1>8, Locals DEF RestartKnows, ReloadKnows, Holder
<1> QED BY <1>7, <1>10, <1>11, <1>12, <1>13, <1>14 DEF IInv

-----------------------------------------------------------------------------
(* Holding opMu. *)

\* cancel() of the collected instances leaves them where they are.
LEMMA CancelIInv ==
  ASSUME IInv, NEW c \in Clients, CancelCollected(c)
  PROVE  IInv'
<1>1. PICK r : r = [local[c] EXCEPT !.pc = "stopping"]
  OBVIOUS
<1>2. /\ r \in Local /\ r.pc = "stopping" /\ r.op = local[c].op
      /\ r.targets = local[c].targets /\ r.insts = local[c].insts
  <2>1. local[c] \in Local
    BY DEF IInv, TypeOK
  <2> QED BY <1>1, <2>1 DEF Local, Place
<1>3. /\ local' = [local EXCEPT ![c] = r] /\ CancelInstances(local[c].insts) /\ local[c].pc = "collected"
      /\ UNCHANGED <<apps, slot, opMu, ctxDone, daemon>>
  BY <1>1 DEF CancelCollected, At
<1>4. local' \in [Clients -> Local] /\ \A d \in Clients : local'[d] = IF d = c THEN r ELSE local[d]
  BY <1>2, <1>3, OneLocal DEF IInv
<1>5. /\ inst' \in [Labels -> [Gens -> Instance]]
      /\ \A l \in Labels, g \in Gens : inst'[l][g].env = inst[l][g].env
  <2>1. TypeOK
    BY DEF IInv
  <2>2. inst' = [l \in Labels |-> [g \in Gens |->
          IF <<l, g>> \in local[c].insts THEN [inst[l][g] EXCEPT !.cancelled = TRUE] ELSE inst[l][g]]]
    BY <1>3 DEF CancelInstances
  <2> QED BY <2>1, <2>2, Flags
<1>6. TypeOK'
  BY <1>3, <1>4, <1>5 DEF IInv, TypeOK
<1>7. \A l \in Labels, g \in Gens : Live(l, g)' <=> Live(l, g)
  BY <1>5 DEF Live
<1>8. \A l, g : Stopping(l, g) => Stopping(l, g)'
  BY <1>2, <1>3, <1>4 DEF Stopping, Stoppers
<1>9. Mutex' /\ UniqueNames' /\ SlotsListed'
  BY <1>2, <1>3, <1>4 DEF IInv, Mutex, Holder, UniqueNames, SlotsListed
<1>10. OneLivePerLabel' /\ LiveListed'
  BY <1>3, <1>7, <1>8 DEF IInv, OneLivePerLabel, LiveListed
<1>11. CurrentOrStopping'
  <2> SUFFICES ASSUME NEW x \in apps, NEW l \in LabelsOf({x}), NEW g, g = slot[l], g # NoOne, inst'[l][g].env # NoOne
               PROVE  inst'[l][g].env = x.env \/ Stopping(l, g)'
    BY <1>3 DEF CurrentOrStopping, LabelsOf, Live
  <2>1. l \in Labels /\ g \in Gens
    BY DEF LabelsOf, IInv, TypeOK
  <2>2. inst[l][g].env = x.env \/ Stopping(l, g)
    BY <1>5, <2>1 DEF IInv, CurrentOrStopping, Live
  <2> QED BY <1>5, <1>8, <2>1, <2>2
<1>12. RestartKnows' /\ ReloadKnows'
  BY <1>2, <1>3, <1>4 DEF IInv, RestartKnows, ReloadKnows, Collect, LabelsOf
<1> QED BY <1>6, <1>9, <1>10, <1>11, <1>12 DEF IInv

\* From rest with nobody's slot changed, the lock is given back.
LEMMA Released ==
  ASSUME IInv, TypeOK', NEW c \in Clients, Holder(c), UNCHANGED apps,
         local' = [local EXCEPT ![c] = Idle], opMu' = NoOne,
         SlotsListed',
         \A l \in Labels, g \in Gens : Live(l, g)' => slot'[l] = g,
         \A x \in apps : \A l \in LabelsOf({x}) :
           slot'[l] # NoOne /\ inst'[l][slot'[l]].env # NoOne => inst'[l][slot'[l]].env = x.env
  PROVE  IInv'
<1>1. \A d \in Clients : local'[d] = IF d = c THEN Idle ELSE local[d]
  BY DEF IInv, TypeOK
<1>2. \A d \in Clients : ~Holder(d)'
  BY <1>1, OneHolder, Locals DEF Holder
<1>3. Mutex'
  BY <1>2, DistinctAssumption DEF Mutex
<1>4. OneLivePerLabel' /\ LiveListed' /\ UniqueNames' /\ CurrentOrStopping'
  BY DEF IInv, OneLivePerLabel, LiveListed, UniqueNames, CurrentOrStopping, LabelsOf, Live
<1>5. RestartKnows' /\ ReloadKnows'
  BY <1>2 DEF RestartKnows, ReloadKnows, Holder
<1> QED BY <1>3, <1>4, <1>5 DEF IInv

\* Where everything collected is done, what still lives is in its slot.
LEMMA DoneMeansListed ==
  ASSUME IInv, NEW c \in Clients, Holder(c), AllDone(c)
  PROVE  /\ \A l \in Labels, g \in Gens : Live(l, g) => slot[l] = g /\ <<l, g>> \notin local[c].insts
         /\ \A x \in apps : \A l \in LabelsOf({x}) :
              slot[l] # NoOne /\ Live(l, slot[l]) => inst[l][slot[l]].env = x.env
<1>1. \A l, g : Stopping(l, g) => <<l, g>> \in local[c].insts
  BY OneHolder
<1>2. \A l, g : <<l, g>> \in local[c].insts => ~Live(l, g)
  BY DEF AllDone
<1> QED BY <1>1, <1>2 DEF IInv, LiveListed, CurrentOrStopping

LEMMA FinishStopIInv ==
  ASSUME IInv, NEW c \in Clients, FinishStop(c) \/ (c = Main /\ FinishStopAll)
  PROVE  IInv'
<1>1. /\ AllDone(c) /\ Holder(c) /\ local' = [local EXCEPT ![c] = Idle] /\ opMu' = NoOne
      /\ UNCHANGED <<apps, slot, ctxDone, daemon>>
      /\ Settle(local[c].insts)
  BY DEF FinishStop, FinishStopAll, Return, At, Holder
<1>2. /\ inst' \in [Labels -> [Gens -> Instance]]
      /\ \A l \in Labels, g \in Gens : inst'[l][g].env = inst[l][g].env
  <2>1. TypeOK
    BY DEF IInv
  <2>2. inst' = [l \in Labels |-> [g \in Gens |->
          IF <<l, g>> \in local[c].insts THEN [inst[l][g] EXCEPT !.cancelled = FALSE] ELSE inst[l][g]]]
    BY <1>1 DEF Settle
  <2> QED BY <2>1, <2>2, Flags
<1>3. TypeOK'
  BY <1>1, <1>2, Locals, OneLocal DEF IInv, TypeOK
<1>4. /\ \A l \in Labels, g \in Gens : Live(l, g) => slot[l] = g
      /\ \A x \in apps : \A l \in LabelsOf({x}) :
           slot[l] # NoOne /\ Live(l, slot[l]) => inst[l][slot[l]].env = x.env
  BY <1>1, DoneMeansListed
<1>5. SlotsListed' /\ \A l \in Labels, g \in Gens : Live(l, g)' => slot'[l] = g
  BY <1>1, <1>2, <1>4 DEF IInv, SlotsListed, Live
<1>6. \A x \in apps : \A l \in LabelsOf({x}) :
        slot'[l] # NoOne /\ inst'[l][slot'[l]].env # NoOne => inst'[l][slot'[l]].env = x.env
  <2> SUFFICES ASSUME NEW x \in apps, NEW l \in LabelsOf({x}), slot[l] # NoOne, inst'[l][slot[l]].env # NoOne
               PROVE  inst'[l][slot[l]].env = x.env
    BY <1>1
  <2>1. l \in Labels /\ slot[l] \in Gens
    BY DEF LabelsOf, IInv, TypeOK
  <2> QED BY <1>2, <1>4, <2>1 DEF Live
<1> QED BY <1>1, <1>3, <1>5, <1>6, Released

\* Fresh goroutines where the old ones have ended: what lives is in its slot and
\* has its app's environment.
LEMMA Replaced ==
  ASSUME IInv, NEW ls, ls \subseteq Labels, \A l \in ls : \E x \in apps : x.name = l[1],
         StartInstances(ls, EnvsOf(ls)), UNCHANGED apps,
         \A l \in Labels, g \in Gens : Live(l, g) => slot[l] = g /\ l \notin ls,
         \A x \in apps : \A l \in LabelsOf({x}) :
           slot[l] # NoOne /\ Live(l, slot[l]) => inst[l][slot[l]].env = x.env
  PROVE  /\ slot' \in [Labels -> Gens \cup {NoOne}] /\ inst' \in [Labels -> [Gens -> Instance]]
         /\ SlotsListed'
         /\ \A l \in Labels, g \in Gens : Live(l, g)' => slot'[l] = g
         /\ \A x \in apps : \A l \in LabelsOf({x}) :
              slot'[l] # NoOne /\ inst'[l][slot'[l]].env # NoOne => inst'[l][slot'[l]].env = x.env
<1>1. \A l \in ls : /\ EnvsOf(ls)[l] \in Envs
                    /\ \A x \in apps : x.name = l[1] => EnvsOf(ls)[l] = x.env
  BY EnvsListed DEF IInv
<1>2. /\ slot' \in [Labels -> Gens \cup {NoOne}] /\ inst' \in [Labels -> [Gens -> Instance]]
      /\ \A l \in ls : /\ slot'[l] \in Gens /\ inst'[l][slot'[l]].env = EnvsOf(ls)[l]
                       /\ ~inst'[l][slot'[l]].cancelled
                       /\ \A g \in Gens : Live(l, g)' => g = slot'[l] \/ Live(l, g)
      /\ \A l \in Labels : l \notin ls => slot'[l] = slot[l] /\ inst'[l] = inst[l]
  BY <1>1, Started DEF IInv
<1>3. SlotsListed'
  BY <1>2 DEF IInv, SlotsListed
<1>4. ASSUME NEW l \in Labels, NEW g \in Gens, Live(l, g)' PROVE slot'[l] = g
  <2>1. CASE l \in ls
    BY <1>2, <1>4, <2>1
  <2>2. CASE l \notin ls
    BY <1>2, <1>4, <2>2 DEF Live
  <2> QED BY <2>1, <2>2
<1>5. ASSUME NEW x \in apps, NEW l \in LabelsOf({x}), slot'[l] # NoOne, inst'[l][slot'[l]].env # NoOne
      PROVE  inst'[l][slot'[l]].env = x.env
  <2>1. l \in Labels /\ l[1] = x.name
    BY DEF LabelsOf
  <2>2. CASE l \in ls
    BY <1>1, <1>2, <2>1, <2>2
  <2>3. CASE l \notin ls
    <3>1. slot'[l] = slot[l] /\ inst'[l] = inst[l]
      BY <1>2, <2>1, <2>3
    <3> QED BY <1>5, <3>1 DEF Live
  <2> QED BY <2>2, <2>3
<1> QED BY <1>2, <1>3, <1>4, <1>5

LEMMA FinishRestartIInv ==
  ASSUME IInv, NEW c \in Clients, FinishRestart(c)
  PROVE  IInv'
<1>1. PICK ls : ls = LabelsOf(local[c].targets)
  OBVIOUS
<1>2. /\ AllDone(c) /\ Holder(c) /\ local' = [local EXCEPT ![c] = Idle] /\ opMu' = NoOne
      /\ StartInstances(ls, EnvsOf(ls)) /\ UNCHANGED <<apps, ctxDone, daemon>>
  BY <1>1 DEF FinishRestart, Return, At, Holder
<1>3. local[c].targets \subseteq apps /\ Collect(local[c].targets) \subseteq local[c].insts
  BY DEF FinishRestart, At, IInv, RestartKnows
<1>4. ls \subseteq Labels /\ \A l \in ls : \E x \in apps : x.name = l[1]
  BY <1>1, <1>3 DEF LabelsOf
<1>5. /\ \A l \in Labels, g \in Gens : Live(l, g) => slot[l] = g /\ <<l, g>> \notin local[c].insts
      /\ \A x \in apps : \A l \in LabelsOf({x}) :
           slot[l] # NoOne /\ Live(l, slot[l]) => inst[l][slot[l]].env = x.env
  BY <1>2, DoneMeansListed
<1>6. \A l \in Labels, g \in Gens : Live(l, g) => slot[l] = g /\ l \notin ls
  <2> SUFFICES ASSUME NEW l \in Labels, NEW g \in Gens, Live(l, g), l \in ls PROVE FALSE
    BY <1>5
  <2>1. <<l, g>> \in Collect(local[c].targets)
    BY <1>1, <1>5 DEF Collect
  <2> QED BY <1>3, <1>5, <2>1
<1>7. /\ slot' \in [Labels -> Gens \cup {NoOne}] /\ inst' \in [Labels -> [Gens -> Instance]]
      /\ SlotsListed'
      /\ \A l \in Labels, g \in Gens : Live(l, g)' => slot'[l] = g
      /\ \A x \in apps : \A l \in LabelsOf({x}) :
           slot'[l] # NoOne /\ inst'[l][slot'[l]].env # NoOne => inst'[l][slot'[l]].env = x.env
  BY <1>2, <1>4, <1>5, <1>6, Replaced
<1>8. TypeOK'
  BY <1>2, <1>7, Locals, OneLocal DEF IInv, TypeOK
<1> QED BY <1>2, <1>7, <1>8, Released

-----------------------------------------------------------------------------
(* Reload's loop. *)

LEMMA ReloadCancelIInv ==
  ASSUME IInv, NEW c \in Clients, ReloadCancel(c)
  PROVE  IInv'
<1>0. PICK l0 \in Labels : \E hs :
        /\ hs = {h \in Collect(local[c].targets) : h[1] \in Batch(c, l0)}
        /\ CancelInstances(hs)
        /\ local' = [local EXCEPT ![c].pc = "slotStop", ![c].insts = hs, ![c].todo = local[c].todo \ {l0}]
  BY DEF ReloadCancel
<1>1. PICK hs :
        /\ hs = {h \in Collect(local[c].targets) : h[1] \in Batch(c, l0)}
        /\ CancelInstances(hs)
        /\ local' = [local EXCEPT ![c].pc = "slotStop", ![c].insts = hs, ![c].todo = local[c].todo \ {l0}]
  BY <1>0
<1>2. PICK r : r = [local[c] EXCEPT !.pc = "slotStop", !.insts = hs, !.todo = local[c].todo \ {l0}]
  OBVIOUS
<1>3. local[c] \in Local /\ local[c].pc = "next" /\ Holder(c) /\ local[c].pc \notin Stoppers
  BY DEF ReloadCancel, At, IInv, TypeOK, Holder, Stoppers
<1>4. hs \subseteq Labels \X Gens /\ \A h \in hs : slot[h[1]] = h[2]
  BY <1>1, CollectTypes
<1>5. r \in Local /\ r.pc = "slotStop" /\ r.insts = hs
  BY <1>2, <1>3, <1>4 DEF Local, Place
<1>6. local' = [local EXCEPT ![c] = r] /\ UNCHANGED <<apps, slot, opMu, ctxDone, daemon>>
  BY <1>1, <1>2 DEF ReloadCancel, IInv, TypeOK
<1>7. local' \in [Clients -> Local] /\ \A d \in Clients : local'[d] = IF d = c THEN r ELSE local[d]
  BY <1>5, <1>6, OneLocal DEF IInv
<1>8. /\ inst' \in [Labels -> [Gens -> Instance]]
      /\ \A l \in Labels, g \in Gens : inst'[l][g].env = inst[l][g].env
  <2>1. TypeOK
    BY DEF IInv
  <2>2. inst' = [l \in Labels |-> [g \in Gens |->
          IF <<l, g>> \in hs THEN [inst[l][g] EXCEPT !.cancelled = TRUE] ELSE inst[l][g]]]
    BY <1>1 DEF CancelInstances
  <2> QED BY <2>1, <2>2, Flags
<1>9. TypeOK'
  BY <1>6, <1>7, <1>8 DEF IInv, TypeOK
<1>10. \A l, g : ~Stopping(l, g)
  BY <1>3, OneHolder
<1>11. Mutex' /\ UniqueNames' /\ SlotsListed'
  BY <1>3, <1>5, <1>6, <1>7 DEF IInv, Mutex, Holder, UniqueNames, SlotsListed
<1>12. OneLivePerLabel' /\ LiveListed'
  BY <1>6, <1>8, <1>10 DEF IInv, OneLivePerLabel, LiveListed, Live
<1>13. CurrentOrStopping'
  <2> SUFFICES ASSUME NEW x \in apps, NEW l \in LabelsOf({x}), NEW g, g = slot[l], g # NoOne, inst'[l][g].env # NoOne
               PROVE  inst'[l][g].env = x.env
    BY <1>6 DEF CurrentOrStopping, LabelsOf, Live
  <2>1. l \in Labels /\ g \in Gens
    BY DEF LabelsOf, IInv, TypeOK
  <2> QED BY <1>8, <1>10, <2>1 DEF IInv, CurrentOrStopping, Live
<1>14. RestartKnows' /\ ReloadKnows'
  BY <1>4, <1>5, <1>6, <1>7 DEF IInv, RestartKnows, ReloadKnows, Collect, LabelsOf
<1> QED BY <1>9, <1>11, <1>12, <1>13, <1>14 DEF IInv

\* A holder who stops nothing any more.
LEMMA ReloadOnIInv ==
  ASSUME IInv, NEW c \in Clients, Holder(c), TypeOK', UNCHANGED <<apps, opMu>>,
         NEW r \in Local, local' = [local EXCEPT ![c] = r],
         r.pc \in {"next", "slotOnline"},
         SlotsListed',
         \A l \in Labels, g \in Gens : Live(l, g)' => slot'[l] = g,
         \A x \in apps : \A l \in LabelsOf({x}) :
           slot'[l] # NoOne /\ inst'[l][slot'[l]].env # NoOne => inst'[l][slot'[l]].env = x.env
  PROVE  IInv'
<1>1. \A d \in Clients : local'[d] = IF d = c THEN r ELSE local[d]
  BY OneLocal DEF IInv
<1>2. \A d \in Clients : d # c => ~Holder(d)'
  BY <1>1, OneHolder DEF Holder
<1>3. Mutex'
  BY <1>1 DEF IInv, Mutex, Holder
<1>4. OneLivePerLabel' /\ LiveListed' /\ UniqueNames' /\ CurrentOrStopping'
  BY DEF IInv, OneLivePerLabel, LiveListed, UniqueNames, CurrentOrStopping, LabelsOf, Live
<1>5. RestartKnows' /\ ReloadKnows'
  BY <1>1, <1>2 DEF RestartKnows, ReloadKnows, Holder
<1> QED BY <1>3, <1>4, <1>5 DEF IInv

LEMMA ReloadStartIInv ==
  ASSUME IInv, NEW c \in Clients, ReloadStart(c)
  PROVE  IInv'
<1>1. PICK ls : ls = {h[1] : h \in local[c].insts}
  OBVIOUS
<1>2. PICK r : r = [local[c] EXCEPT !.pc = "slotOnline"]
  OBVIOUS
<1>3. local[c] \in Local /\ local[c].pc = "slotStop" /\ Holder(c) /\ AllDone(c)
  BY DEF ReloadStart, At, IInv, TypeOK, Holder
<1>4. r \in Local /\ r.pc \in {"next", "slotOnline"}
  BY <1>2, <1>3 DEF Local, Place
<1>5. /\ local' = [local EXCEPT ![c] = r] /\ StartInstances(ls, EnvsOf(ls))
      /\ UNCHANGED <<apps, opMu, ctxDone, daemon>>
  BY <1>1, <1>2 DEF ReloadStart
<1>6. local[c].insts \subseteq Labels \X Gens /\ \A h \in local[c].insts : slot[h[1]] = h[2]
  BY <1>3 DEF Local, IInv, ReloadKnows
<1>7. ls \subseteq Labels /\ \A l \in ls : slot[l] \in Gens /\ <<l, slot[l]>> \in local[c].insts
  BY <1>1, <1>6
<1>8. \A l \in ls : \E x \in apps : x.name = l[1]
  BY <1>7, DistinctAssumption DEF IInv, SlotsListed
<1>9. /\ \A l \in Labels, g \in Gens : Live(l, g) => slot[l] = g /\ <<l, g>> \notin local[c].insts
      /\ \A x \in apps : \A l \in LabelsOf({x}) :
           slot[l] # NoOne /\ Live(l, slot[l]) => inst[l][slot[l]].env = x.env
  BY <1>3, DoneMeansListed
<1>10. /\ slot' \in [Labels -> Gens \cup {NoOne}] /\ inst' \in [Labels -> [Gens -> Instance]]
       /\ SlotsListed'
       /\ \A l \in Labels, g \in Gens : Live(l, g)' => slot'[l] = g
       /\ \A x \in apps : \A l \in LabelsOf({x}) :
            slot'[l] # NoOne /\ inst'[l][slot'[l]].env # NoOne => inst'[l][slot'[l]].env = x.env
  <2>1. \A l \in Labels, g \in Gens : Live(l, g) => slot[l] = g /\ l \notin ls
    BY <1>7, <1>9
  <2> QED BY <1>5, <1>7, <1>8, <1>9, <2>1, Replaced
<1>11. TypeOK'
  BY <1>4, <1>5, <1>10, OneLocal DEF IInv, TypeOK
<1> QED BY <1>3, <1>4, <1>5, <1>10, <1>11, ReloadOnIInv

LEMMA ReloadGoesOnIInv ==
  ASSUME IInv, NEW c \in Clients, ReloadGoesOn(c)
  PROVE  IInv'
<1>1. local[c] \in Local /\ Holder(c) /\ local[c].pc \notin Stoppers /\ UNCHANGED <<apps, slot, inst, ctxDone, daemon>>
  BY DEF ReloadGoesOn, At, IInv, TypeOK, Holder, Stoppers
<1>2. \A l, g : ~Stopping(l, g)
  BY <1>1, OneHolder
<1>3. SlotsListed' /\ \A l \in Labels, g \in Gens : Live(l, g)' => slot'[l] = g
  BY <1>1, <1>2 DEF IInv, SlotsListed, LiveListed, Live
<1>4. \A x \in apps : \A l \in LabelsOf({x}) :
        slot'[l] # NoOne /\ inst'[l][slot'[l]].env # NoOne => inst'[l][slot'[l]].env = x.env
  BY <1>1, <1>2 DEF IInv, CurrentOrStopping, Live
<1>5. CASE Return(c)
  <2>1. local' = [local EXCEPT ![c] = Idle] /\ opMu' = NoOne
    BY <1>5 DEF Return
  <2>2. TypeOK'
    BY <1>1, <2>1, Locals, OneLocal DEF IInv, TypeOK
  <2> QED BY <1>1, <1>3, <1>4, <2>1, <2>2, Released
<1>6. CASE local' = [local EXCEPT ![c].pc = "next", ![c].insts = {}] /\ UNCHANGED opMu
  <2>1. PICK r : r = [local[c] EXCEPT !.pc = "next", !.insts = {}]
    OBVIOUS
  <2>2. r \in Local /\ r.pc \in {"next", "slotOnline"}
    BY <1>1, <2>1 DEF Local, Place
  <2>3. local' = [local EXCEPT ![c] = r]
    BY <1>6, <2>1 DEF IInv, TypeOK
  <2>4. TypeOK'
    BY <1>1, <1>6, <2>2, <2>3, OneLocal DEF IInv, TypeOK
  <2> QED BY <1>1, <1>3, <1>4, <1>6, <2>2, <2>3, <2>4, ReloadOnIInv
<1> QED BY <1>5, <1>6 DEF ReloadGoesOn

-----------------------------------------------------------------------------
(* Main, which only the shutdown moves. *)

\* Somebody else's step, or one of the shutdown that leaves Main where it is.
LEMMA MainStays ==
  ASSUME MainKnows, local'[Main] = local[Main],
         local[Main].pc # "idle" => daemon' = daemon,
         Holder(Main) => UNCHANGED <<apps, slot>>
  PROVE  MainKnows'
<1>1. CASE local[Main].pc \in {"collected", "stopping"}
  <2>1. UNCHANGED <<apps, slot>>
    BY <1>1 DEF Holder
  <2> QED BY <1>1, <2>1 DEF MainKnows, Collect, LabelsOf
<1>2. CASE local[Main].pc \notin {"collected", "stopping"}
  BY <1>2 DEF MainKnows
<1> QED BY <1>1, <1>2

\* Who takes opMu finds it free, and who goes on holds it.
LEMMA ClientStep ==
  ASSUME IInv, NEW c \in Clients, Call(c) \/ Follow(c) \/ HangUp(c) \/ Acquire(c) \/ Proceed(c)
  PROVE  /\ daemon' = daemon
         /\ \A d \in Clients : d # c => local'[d] = local[d] /\ (Holder(d) => UNCHANGED <<apps, slot>>)
         /\ c = Main => Proceed(c) \/ HangUp(c)
<1>1. CASE Call(c) \/ Follow(c) \/ HangUp(c)
  <2>1. /\ \A d \in Clients : d # c => local'[d] = local[d]
        /\ UNCHANGED <<apps, slot, daemon>> /\ (c # Main \/ HangUp(c))
    BY <1>1, DistinctAssumption DEF Call, Follow, HangUp, Callers, IInv, TypeOK
  <2> QED BY <2>1
<1>2. CASE Acquire(c)
  <2>1. c # Main /\ daemon' = daemon /\ \A d \in Clients : d # c => local'[d] = local[d]
    BY <1>2 DEF Acquire, Add, ReturnUnchanged, BeginStop, BeginRestart, BeginUpdateEnv, BeginDelete,
                BeginReload, Begin, Turn, IInv, TypeOK
  <2>2. opMu = NoOne
    BY <1>2 DEF Acquire, Add, ReturnUnchanged, BeginStop, BeginRestart, BeginUpdateEnv, BeginDelete,
                BeginReload, Begin, Turn
  <2> QED BY <2>1, <2>2, AtRest
<1>3. CASE Proceed(c)
  <2>1. daemon' = daemon /\ \A d \in Clients : d # c => local'[d] = local[d]
    BY <1>3 DEF Proceed, CancelCollected, FinishStop, FinishRestart, ReloadCancel, ReloadStart,
                ReloadGoesOn, Return, IInv, TypeOK
  <2>2. Holder(c)
    BY <1>3 DEF Proceed, CancelCollected, FinishStop, FinishRestart, ReloadCancel, ReloadStart,
                ReloadGoesOn, At, Holder
  <2> QED BY <1>3, <2>1, <2>2, OneHolder
<1> QED BY <1>1, <1>2, <1>3

\* Of the steps that clients go on with, Main has one.
LEMMA MainProceeds ==
  ASSUME MainKnows, Proceed(Main) \/ HangUp(Main)
  PROVE  CancelCollected(Main)
BY DEF MainKnows, HangUp, Proceed, FinishStop, FinishRestart, ReloadCancel, ReloadStart, ReloadGoesOn, At

LEMMA MainStep ==
  ASSUME IInv, MainKnows, Next
  PROVE  MainKnows'
<1> USE DEF Clients
<1>1. ASSUME NEW c \in Clients, Call(c) \/ Follow(c) \/ HangUp(c) \/ Acquire(c) \/ Proceed(c) PROVE MainKnows'
  <2>1. CASE c # Main
    <3>1. daemon' = daemon /\ local'[Main] = local[Main] /\ (Holder(Main) => UNCHANGED <<apps, slot>>)
      BY <1>1, <2>1, ClientStep
    <3> QED BY <3>1, MainStays
  <2>2. CASE c = Main
    <3>1. CancelCollected(Main)
      BY <1>1, <2>2, ClientStep, MainProceeds
    <3>2. UNCHANGED <<apps, slot, daemon>> /\ local[Main].pc = "collected"
      BY <3>1 DEF CancelCollected, At
    <3>3. /\ local'[Main].pc = "stopping" /\ local'[Main].op = local[Main].op
          /\ local'[Main].insts = local[Main].insts
      BY <3>1 DEF CancelCollected, IInv, TypeOK, Local
    <3> QED BY <3>2, <3>3 DEF MainKnows, Collect, LabelsOf
  <2> QED BY <2>1, <2>2
<1>2. CASE Shutdown
  <2>1. UNCHANGED <<apps, slot, local>> /\ local[Main].pc = "idle"
    BY <1>2 DEF Shutdown, MainKnows
  <2> QED BY <2>1, MainStays
<1>3. CASE CallStopAll \/ ServeFails
  <2>1. local'[Main] = Waiting /\ daemon' \in {"stopping", "failing"}
    BY <1>3 DEF CallStopAll, ServeFails, IInv, TypeOK
  <2> QED BY <2>1, Locals DEF MainKnows
<1>4. CASE BeginStopAll
  <2>1. local'[Main] = Working("stopAll", apps) /\ UNCHANGED <<apps, slot, daemon>> /\ local[Main].pc = "waiting"
    BY <1>4 DEF BeginStopAll, Working, At, IInv, TypeOK
  <2>2. /\ Working("stopAll", apps).pc = "collected" /\ Working("stopAll", apps).op = "stopAll"
        /\ Working("stopAll", apps).insts = Collect(apps)
    BY Collected DEF Operation, IInv, TypeOK
  <2> QED BY <2>1, <2>2 DEF MainKnows, Collect, LabelsOf
<1>5. CASE FinishStopAll
  <2>1. local'[Main] = Idle
    BY <1>5 DEF FinishStopAll, Return, IInv, TypeOK
  <2> QED BY <2>1, Locals DEF MainKnows
<1>6. CASE Exit
  <2>1. UNCHANGED <<apps, slot, local>> /\ local[Main].pc = "idle"
    BY <1>6 DEF Exit, At
  <2> QED BY <2>1, MainStays
<1>7. CASE \E l \in Labels, g \in Gens : InstanceEnds(l, g)
  <2>1. UNCHANGED <<apps, slot, local, daemon>>
    BY <1>7 DEF InstanceEnds
  <2> QED BY <2>1, MainStays
<1> QED BY <1>1, <1>2, <1>3, <1>4, <1>5, <1>6, <1>7 DEF Next, ShutdownSteps

-----------------------------------------------------------------------------
(* The invariant of every behaviour. *)

Inv == IInv /\ MainKnows

LEMMA InitInv == Init => Inv
<1> SUFFICES ASSUME Init PROVE Inv
  OBVIOUS
<1>1. TypeOK
  <2>1. [env |-> NoOne, cancelled |-> FALSE] \in Instance
    BY DEF Instance
  <2> QED BY <2>1, Locals DEF Init, TypeOK, DaemonStates
<1>2. \A c \in Clients : ~Holder(c)
  BY Locals DEF Init, Holder
<1>3. \A l \in Labels, g \in Gens : ~Live(l, g)
  BY DEF Init, Live
<1>4. Mutex
  BY <1>2, DistinctAssumption DEF Init, Mutex
<1>5. OneLivePerLabel /\ UniqueNames /\ SlotsListed /\ LiveListed /\ CurrentOrStopping
  BY <1>3 DEF Init, OneLivePerLabel, UniqueNames, SlotsListed, LiveListed, CurrentOrStopping
<1>6. RestartKnows /\ ReloadKnows
  BY <1>2 DEF RestartKnows, ReloadKnows, Holder
<1>7. MainKnows
  BY Locals DEF Init, MainKnows, Clients
<1> QED BY <1>1, <1>4, <1>5, <1>6, <1>7 DEF Inv, IInv

LEMMA StepInv == Inv /\ [Next]_vars => Inv'
<1> SUFFICES ASSUME Inv, [Next]_vars PROVE Inv'
  OBVIOUS
<1> USE DEF Inv
<1>1. ASSUME NEW c \in Clients, Call(c) \/ Follow(c) \/ HangUp(c) \/ ReturnUnchanged(c) PROVE IInv'
  BY <1>1, CallIInv
<1>2. ASSUME NEW c \in Clients, Acquire(c) PROVE IInv'
  BY <1>1, <1>2, AddIInv, SimpleBeginIInv, BeginUpdateEnvIInv, BeginDeleteIInv DEF Acquire
<1>3. ASSUME NEW c \in Clients, Proceed(c) PROVE IInv'
  BY <1>3, CancelIInv, FinishStopIInv, FinishRestartIInv, ReloadCancelIInv, ReloadStartIInv,
     ReloadGoesOnIInv DEF Proceed
<1>4. ASSUME BeginStopAll \/ FinishStopAll PROVE IInv'
  <2>1. Main \in Clients
    BY DEF Clients
  <2> QED BY <1>4, <2>1, SimpleBeginIInv, FinishStopIInv
<1>5. ASSUME Shutdown \/ CallStopAll \/ ServeFails \/ Exit PROVE IInv'
  BY <1>5, ShutdownIInv
<1>6. ASSUME NEW l \in Labels, NEW g \in Gens, InstanceEnds(l, g) PROVE IInv'
  BY <1>6, EndsIInv
<1>7. CASE Next
  BY <1>1, <1>2, <1>3, <1>4, <1>5, <1>6, <1>7, MainStep DEF Next, ShutdownSteps
<1>8. CASE UNCHANGED vars
  <2>1. UNCHANGED <<apps, slot, inst, opMu, local, ctxDone, daemon>>
    BY <1>8 DEF vars
  <2>2. TypeOK'
    BY <2>1 DEF IInv, TypeOK
  <2>3. IInv'
    BY <2>1, <2>2, Quiet
  <2> QED BY <2>1, <2>3, MainStays
<1> QED BY <1>7, <1>8

LEMMA AlwaysInv == Spec => []Inv
BY InitInv, StepInv, PTL DEF Spec

-----------------------------------------------------------------------------
(* The theorems. *)

\* Every variable of the manager keeps its type: ids stay in their bounds, a slot
\* holds a goroutine of its label or none (internal/manager's Add, Delete, Reload).
THEOREM ManagerTypes == Spec => []TypeOK
BY AlwaysInv, PTL DEF Inv, IInv

\* No slot of an app is run twice at once: Restart, UpdateEnv and Reload start a
\* goroutine only where the one before has closed done, whoever called them.
THEOREM ManagerOneLivePerLabel == Spec => []OneLivePerLabel
BY AlwaysInv, PTL DEF Inv, IInv

\* The comment on opMu: no interleaving of the mutators orphans a goroutine.  What
\* lives is in the insts of a listed app or is being stopped by opMu's holder.
THEOREM ManagerNoOrphanGoroutine == Spec => []NoOrphanGoroutine
<1>1. Inv => NoOrphanGoroutine
  <2> SUFFICES ASSUME Inv, NEW l \in Labels, NEW g \in Gens, Live(l, g)
               PROVE  \/ slot[l] = g /\ \E a \in apps : a.name = l[1]
                      \/ \E c \in Clients : opMu = c /\ <<l, g>> \in local[c].insts
    BY DEF NoOrphanGoroutine
  <2>1. CASE slot[l] = g
    BY <2>1, DistinctAssumption DEF Inv, IInv, SlotsListed
  <2>2. CASE Stopping(l, g)
    BY <2>2 DEF Stopping
  <2> QED BY <2>1, <2>2 DEF Inv, IInv, LiveListed
<1> QED BY <1>1, AlwaysInv, PTL

\* UpdateEnv stores the environment before it stops the instances: a live listed
\* one has its app's environment, or opMu's holder is about to replace it.
THEOREM ManagerSpecCurrent == Spec => []SpecCurrent
<1>1. Inv => SpecCurrent
  BY DEF Inv, IInv, CurrentOrStopping, Stopping, SpecCurrent
<1> QED BY <1>1, AlwaysInv, PTL

\* What a step can do to the apps.
LEMMA AppsStep ==
  ASSUME Next
  PROVE  apps' \subseteq apps \/ \E c \in Clients : Add(c) \/ BeginUpdateEnv(c)
<1> SUFFICES ASSUME ~\E c \in Clients : Add(c) \/ BeginUpdateEnv(c) PROVE apps' \subseteq apps
  OBVIOUS
<1>1. ASSUME NEW c \in Clients, Acquire(c) PROVE apps' \subseteq apps
  BY <1>1 DEF Acquire, ReturnUnchanged, BeginStop, BeginRestart, BeginReload, BeginDelete
<1>2. ASSUME NEW c \in Clients, Call(c) \/ Follow(c) \/ HangUp(c) \/ Proceed(c) PROVE apps' = apps
  BY <1>2 DEF Call, Follow, HangUp, Proceed, CancelCollected, FinishStop, FinishRestart, ReloadCancel,
              ReloadStart, ReloadGoesOn
<1>3. ASSUME Shutdown \/ ServeFails \/ BeginStopAll \/ ShutdownSteps PROVE apps' = apps
  BY <1>3 DEF Shutdown, ServeFails, BeginStopAll, ShutdownSteps, CallStopAll, FinishStopAll, Exit
<1>4. ASSUME NEW l \in Labels, NEW g \in Gens, InstanceEnds(l, g) PROVE apps' = apps
  BY <1>4 DEF InstanceEnds
<1> QED BY <1>1, <1>2, <1>3, <1>4 DEF Next

\* An id or a name selects one app: Add takes the persisted id only when it is free
\* and else one above all, whatever was added, deleted and restored before.
THEOREM ManagerUniqueIds == Spec => []UniqueIds
<1>1. Init => UniqueIds
  BY DEF Init, UniqueIds
<1>2. Inv /\ UniqueIds /\ [Next]_vars => UniqueIds'
  <2> SUFFICES ASSUME Inv, UniqueIds, [Next]_vars PROVE UniqueIds'
    OBVIOUS
  <2>1. CASE apps' \subseteq apps
    BY <2>1 DEF UniqueIds
  <2>2. ASSUME NEW c \in Clients, Add(c) PROVE UniqueIds'
    <3>1. PICK n \in Names, want \in {0} \cup Ids, e \in Envs :
            NameFree(n) /\ apps' = apps \cup {[id |-> AssignId(want), name |-> n, env |-> e]}
      BY <2>2 DEF Add
    <3>2. AssignId(want) \notin TakenIds
      BY AssignIdTypes DEF Inv, IInv
    <3>3. \A x \in apps : x.id # AssignId(want) /\ x.name # n
      BY <3>1, <3>2 DEF TakenIds, NameFree
    <3> QED BY <3>1, <3>3 DEF UniqueIds
  <2>3. ASSUME NEW c \in Clients, BeginUpdateEnv(c) PROVE UniqueIds'
    <3>1. PICK z \in apps, e \in Envs : apps' = (apps \ {z}) \cup {WithEnv(z, e)}
      BY <2>3 DEF BeginUpdateEnv
    <3>2. WithEnv(z, e).name = z.name /\ WithEnv(z, e).id = z.id
      BY DEF WithEnv, App, Inv, IInv, TypeOK
    <3> QED BY <3>1, <3>2 DEF UniqueIds
  <2> QED BY <2>1, <2>2, <2>3, AppsStep DEF vars
<1> QED BY <1>1, <1>2, AlwaysInv, PTL DEF Spec

\* An app keeps its id for as long as it is managed: Add refuses a name that is
\* taken and UpdateEnv changes nothing but the environment.
THEOREM ManagerStableIds == Spec => StableIds
<1>1. Inv /\ [Next]_vars => [\A a \in apps, b \in apps' : a.name = b.name => a.id = b.id]_vars
  <2> SUFFICES ASSUME Inv, Next, NEW x \in apps, NEW y \in apps', x.name = y.name PROVE x.id = y.id
    OBVIOUS
  <2>1. CASE y \in apps
    BY <2>1 DEF Inv, IInv, UniqueNames
  <2>2. ASSUME NEW c \in Clients, Add(c), y \notin apps PROVE FALSE
    <3>1. PICK n \in Names, want \in {0} \cup Ids, e \in Envs :
            NameFree(n) /\ apps' = apps \cup {[id |-> AssignId(want), name |-> n, env |-> e]}
      BY <2>2 DEF Add
    <3>2. y.name = n
      BY <2>2, <3>1
    <3> QED BY <3>1, <3>2 DEF NameFree
  <2>3. ASSUME NEW c \in Clients, BeginUpdateEnv(c), y \notin apps PROVE x.id = y.id
    <3>1. PICK z \in apps, e \in Envs : apps' = (apps \ {z}) \cup {WithEnv(z, e)}
      BY <2>3 DEF BeginUpdateEnv
    <3>2. z \in App /\ y = WithEnv(z, e)
      BY <2>3, <3>1 DEF Inv, IInv, TypeOK
    <3>3. y.name = z.name /\ y.id = z.id
      BY <3>2 DEF WithEnv, App
    <3> QED BY <3>1, <3>3 DEF Inv, IInv, UniqueNames
  <2> QED BY <2>1, <2>2, <2>3, AppsStep
<1> QED BY <1>1, AlwaysInv, PTL DEF StableIds, Spec

-----------------------------------------------------------------------------
(* Reload is rolling. *)

\* Of the instances in the slots, only those that opMu's holder is stopping have
\* been cancelled: whoever finishes a stop leaves no such mark behind.
CancelledStopping ==
  \A l \in Labels : slot[l] # NoOne /\ inst[l][slot[l]].cancelled => Stopping(l, slot[l])

ListedRuns == \A x \in apps : \A l \in LabelsOf({x}) : slot[l] # NoOne

\* A restart stops nothing but what it starts again.
RestartOwn ==
  \A c \in Clients :
    local[c].pc \in {"collected", "stopping"} /\ local[c].op \in {"restart", "updateEnv"} =>
      \A h \in local[c].insts : h[1] \in LabelsOf(local[c].targets)

\* A reload works on listed apps and stops one slot at a time.
ReloadOneSlot ==
  \A c \in Clients : local[c].op = "reload" =>
    /\ local[c].pc \in {"next", "slotStop", "slotOnline"}
    /\ local[c].targets \subseteq apps
    /\ local[c].pc = "slotStop" => \A h, k \in local[c].insts : h[1] = k[1]

Rolling == CancelledStopping /\ ListedRuns /\ RestartOwn /\ ReloadOneSlot

\* A step of one client leaves the records of the others true.
LEMMA OthersRoll ==
  ASSUME IInv, Rolling, NEW c \in Clients, \A d \in Clients : d # c => local'[d] = local[d],
         UNCHANGED apps \/ \A d \in Clients : d # c => ~Holder(d),
         local'[c].pc \in {"collected", "stopping"} /\ local'[c].op \in {"restart", "updateEnv"} =>
           \A h \in local'[c].insts : h[1] \in LabelsOf(local'[c].targets),
         local'[c].op = "reload" =>
           /\ local'[c].pc \in {"next", "slotStop", "slotOnline"}
           /\ local'[c].targets \subseteq apps'
           /\ local'[c].pc = "slotStop" => \A h, k \in local'[c].insts : h[1] = k[1]
  PROVE  RestartOwn' /\ ReloadOneSlot'
<1>1. RestartOwn'
  BY DEF Rolling, RestartOwn, LabelsOf
<1>2. ReloadOneSlot'
  <2> SUFFICES ASSUME NEW d \in Clients, d # c, local[d].op = "reload"
               PROVE  /\ local[d].pc \in {"next", "slotStop", "slotOnline"}
                      /\ local[d].targets \subseteq apps'
                      /\ local[d].pc = "slotStop" => \A h, k \in local[d].insts : h[1] = k[1]
    BY DEF ReloadOneSlot
  <2>1. Holder(d)
    BY DEF Rolling, ReloadOneSlot, Holder
  <2> QED BY <2>1 DEF Rolling, ReloadOneSlot
<1> QED BY <1>1, <1>2

\* Steps that touch no slot, no mark and no operation's record.
LEMMA QuietRolls ==
  ASSUME Rolling, UNCHANGED <<apps, slot, opMu>>,
         \A l \in Labels, g \in Gens : inst'[l][g].cancelled = inst[l][g].cancelled,
         \A c \in Clients : \/ local'[c] = local[c]
                            \/ ~Holder(c) /\ ~Holder(c)' /\ local'[c].op = "none",
         TypeOK
  PROVE  Rolling'
<1>1. \A l, g : Stopping(l, g) => Stopping(l, g)'
  BY DEF Stopping, Stoppers, Holder
<1>2. CancelledStopping'
  <2>1. \A l \in Labels : slot[l] # NoOne => slot[l] \in Gens
    BY DEF TypeOK
  <2> QED BY <1>1, <2>1 DEF Rolling, CancelledStopping
<1>3. ListedRuns'
  BY DEF Rolling, ListedRuns, LabelsOf
<1>4. RestartOwn' /\ ReloadOneSlot'
  BY DEF Rolling, RestartOwn, ReloadOneSlot, LabelsOf, Holder
<1> QED BY <1>2, <1>3, <1>4 DEF Rolling

\* From rest, with the goroutines as they were, an operation begins.
LEMMA BeginRolls ==
  ASSUME Inv, Rolling, NEW c \in Clients,
         BeginStop(c) \/ BeginRestart(c) \/ BeginUpdateEnv(c) \/ BeginDelete(c) \/ BeginReload(c)
           \/ (c = Main /\ BeginStopAll)
  PROVE  Rolling'
<1> USE DEF Inv
<1>1. /\ opMu = NoOne /\ inst' = inst /\ \A d \in Clients : d # c => local'[d] = local[d]
  BY DEF BeginStop, BeginRestart, BeginUpdateEnv, BeginDelete, BeginReload, BeginStopAll, Begin, Turn,
         IInv, TypeOK
<1>2. \A d \in Clients : ~Holder(d)
  BY <1>1, AtRest
<1>3. \A l \in Labels : slot[l] # NoOne => ~inst[l][slot[l]].cancelled
  <2>1. \A l, g : ~Stopping(l, g)
    BY <1>2 DEF Stopping, Stoppers, Holder
  <2> QED BY <2>1 DEF Rolling, CancelledStopping
<1>4. ASSUME NEW op \in Operation \ {"reload"}, NEW as \in SUBSET App, Begin(c, op, as)
      PROVE  RestartOwn' /\ ReloadOneSlot'
  <2>1. local'[c] = Working(op, as)
    BY <1>4 DEF Begin, Working, IInv, TypeOK
  <2>2. local'[c].op # "reload" /\ local'[c].insts = Collect(as) /\ local'[c].targets = as
    <3>1. PICK r : r = Working(op, as)
      OBVIOUS
    <3>2. r.op = op /\ r.insts = Collect(as) /\ r.targets = as
      BY <3>1, Collected
    <3> QED BY <2>1, <3>1, <3>2
  <2>3. \A h \in Collect(as) : h[1] \in LabelsOf(as)
    BY CollectTypes
  <2> QED BY <1>1, <1>2, <2>2, <2>3, OthersRoll DEF LabelsOf
<1>5. CASE BeginStop(c) \/ BeginRestart(c)
  <2>1. UNCHANGED <<apps, slot>> /\ \E op \in Operation \ {"reload"}, as \in SUBSET App : Begin(c, op, as)
    <3>1. PICK as \in Selections : Begin(c, "stop", as) \/ Begin(c, "restart", as)
      BY <1>5 DEF BeginStop, BeginRestart
    <3>2. as \in SUBSET App
      BY SelectionTypes DEF IInv, TypeOK
    <3> QED BY <1>5, <3>1, <3>2 DEF BeginStop, BeginRestart, Operation
  <2>2. CancelledStopping' /\ ListedRuns'
    BY <1>1, <1>3, <2>1 DEF Rolling, CancelledStopping, ListedRuns, LabelsOf
  <2> QED BY <1>4, <2>1, <2>2 DEF Rolling
<1>6. CASE BeginUpdateEnv(c)
  <2>1. PICK x \in apps, e \in Envs :
          /\ apps' = (apps \ {x}) \cup {WithEnv(x, e)}
          /\ Begin(c, "updateEnv", {[x EXCEPT !.env = e]})
    BY <1>6 DEF BeginUpdateEnv
  <2>2. WithEnv(x, e) \in App /\ WithEnv(x, e).name = x.name /\ [x EXCEPT !.env = e] \in App
    BY <2>1 DEF IInv, TypeOK, App, WithEnv
  <2>3. slot' = slot
    BY <1>6 DEF BeginUpdateEnv
  <2>4. CancelledStopping'
    BY <1>1, <1>3, <2>3 DEF CancelledStopping
  <2>5. ListedRuns'
    BY <2>1, <2>2, <2>3 DEF Rolling, ListedRuns, LabelsOf
  <2>6. RestartOwn' /\ ReloadOneSlot'
    BY <1>4, <2>1, <2>2 DEF Operation
  <2> QED BY <2>4, <2>5, <2>6 DEF Rolling
<1>7. CASE BeginDelete(c)
  <2>1. PICK as \in Selections :
          /\ Begin(c, "delete", as) /\ apps' = apps \ as
          /\ slot' = [l \in Labels |-> IF l \in LabelsOf(as) THEN NoOne ELSE slot[l]]
    BY <1>7 DEF BeginDelete
  <2>2. as \in SUBSET App /\ as \subseteq apps
    BY SelectionTypes DEF IInv, TypeOK
  <2>3. CancelledStopping'
    BY <1>1, <1>3, <2>1 DEF CancelledStopping
  <2>4. ListedRuns'
    <3> SUFFICES ASSUME NEW x \in apps', NEW l \in LabelsOf({x}) PROVE slot'[l] # NoOne
      BY DEF ListedRuns, LabelsOf
    <3>1. x \in apps /\ l \in Labels /\ l[1] = x.name /\ slot[l] # NoOne
      BY <2>1 DEF Rolling, ListedRuns, LabelsOf
    <3>2. l \notin LabelsOf(as)
      BY <2>1, <2>2, <3>1 DEF LabelsOf, IInv, UniqueNames
    <3> QED BY <2>1, <3>1, <3>2
  <2>5. RestartOwn' /\ ReloadOneSlot'
    BY <1>4, <2>1, <2>2 DEF Operation
  <2> QED BY <2>3, <2>4, <2>5 DEF Rolling
<1>8. CASE BeginReload(c)
  <2>1. PICK as \in Selections : local'[c] =
          [Idle EXCEPT !.pc = "next", !.op = "reload", !.targets = as, !.todo = LabelsOf(as)]
    BY <1>8 DEF BeginReload, IInv, TypeOK
  <2>2. local'[c].pc = "next" /\ local'[c].targets = as /\ as \subseteq apps
    BY <2>1, SelectionTypes DEF Idle
  <2>3. UNCHANGED <<apps, slot>>
    BY <1>8 DEF BeginReload
  <2>4. RestartOwn' /\ ReloadOneSlot'
    BY <1>1, <2>2, <2>3, OthersRoll
  <2> QED BY <1>1, <1>3, <2>3, <2>4 DEF Rolling, CancelledStopping, ListedRuns, LabelsOf
<1>9. CASE c = Main /\ BeginStopAll
  <2>1. local'[c] = Working("stopAll", apps) /\ UNCHANGED <<apps, slot>>
    BY <1>9 DEF BeginStopAll, Working, IInv, TypeOK
  <2>2. local'[c].op = "stopAll"
    BY <2>1, Collected DEF Operation, IInv, TypeOK
  <2>3. RestartOwn' /\ ReloadOneSlot'
    BY <1>1, <2>1, <2>2, OthersRoll
  <2> QED BY <1>1, <1>3, <2>1, <2>3 DEF Rolling, CancelledStopping, ListedRuns, LabelsOf
<1> QED BY <1>5, <1>6, <1>7, <1>8, <1>9

\* Add starts fresh instances.
LEMMA AddRolls ==
  ASSUME Inv, Rolling, NEW c \in Clients, Add(c)
  PROVE  Rolling'
<1> USE DEF Inv
<1>1. PICK n \in Names, want \in {0} \cup Ids, e \in Envs :
        /\ apps' = apps \cup {[id |-> AssignId(want), name |-> n, env |-> e]}
        /\ StartInstances({l \in Labels : l[1] = n}, [l \in Labels |-> e])
  BY DEF Add
<1>2. PICK ls, env : ls = {l \in Labels : l[1] = n} /\ env = [l \in Labels |-> e]
  OBVIOUS
<1>3. /\ \A l \in ls : slot'[l] \in Gens /\ ~inst'[l][slot'[l]].cancelled
      /\ \A l \in Labels : l \notin ls => slot'[l] = slot[l] /\ inst'[l] = inst[l]
  <2>1. ls \subseteq Labels /\ \A l \in ls : env[l] \in Envs
    BY <1>2
  <2>2. StartInstances(ls, env) /\ TypeOK
    BY <1>1, <1>2 DEF IInv
  <2> QED BY <2>1, <2>2, Started
<1>4. opMu = NoOne /\ local' = [local EXCEPT ![c] = Idle]
  BY DEF Add, Turn
<1>5. \A d \in Clients : local'[d] = IF d = c THEN Idle ELSE local[d]
  BY <1>4 DEF IInv, TypeOK
<1>6. \A d \in Clients : ~Holder(d)
  BY <1>4, AtRest
<1>7. CancelledStopping'
  <2>1. \A l \in Labels : slot[l] # NoOne => ~inst[l][slot[l]].cancelled
    BY <1>6 DEF Rolling, CancelledStopping, Stopping, Stoppers, Holder
  <2> QED BY <1>3, <2>1 DEF CancelledStopping
<1>8. ListedRuns'
  <2> SUFFICES ASSUME NEW x \in apps', NEW l \in LabelsOf({x}) PROVE slot'[l] # NoOne
    BY DEF ListedRuns, LabelsOf
  <2>1. l \in Labels /\ l[1] = x.name
    BY DEF LabelsOf
  <2>2. CASE l \in ls
    BY <1>3, <2>2, DistinctAssumption
  <2>3. CASE l \notin ls
    <3>1. x \in apps
      BY <1>1, <1>2, <2>1, <2>3
    <3> QED BY <1>3, <2>1, <2>3, <3>1 DEF Rolling, ListedRuns
  <2> QED BY <2>2, <2>3
<1>9. RestartOwn' /\ ReloadOneSlot'
  BY <1>5, <1>6, Locals, OthersRoll
<1> QED BY <1>7, <1>8, <1>9 DEF Rolling

\* cancel() marks only what its caller has collected.
LEMMA CancelRolls ==
  ASSUME Inv, Rolling, NEW c \in Clients, CancelCollected(c)
  PROVE  Rolling'
<1> USE DEF Inv
<1>1. /\ local[c] \in Local /\ local[c].pc = "collected" /\ UNCHANGED <<apps, slot, opMu>>
      /\ local' = [local EXCEPT ![c].pc = "stopping"]
  BY DEF CancelCollected, At, IInv, TypeOK
<1>2. /\ local'[c].pc = "stopping" /\ local'[c].op = local[c].op
      /\ local'[c].insts = local[c].insts /\ local'[c].targets = local[c].targets
      /\ \A d \in Clients : d # c => local'[d] = local[d]
  BY <1>1 DEF IInv, TypeOK, Local
<1>3. \A l \in Labels, g \in Gens :
        inst'[l][g].cancelled = IF <<l, g>> \in local[c].insts THEN TRUE ELSE inst[l][g].cancelled
  BY Flags DEF CancelCollected, CancelInstances, IInv
<1>4. opMu = c
  BY <1>1, OneHolder DEF Holder
<1>5. CancelledStopping'
  <2> SUFFICES ASSUME NEW l \in Labels, NEW g \in Gens, g = slot[l], inst'[l][g].cancelled
               PROVE  Stopping(l, g)'
    BY <1>1 DEF CancelledStopping, IInv, TypeOK
  <2>1. <<l, g>> \in local[c].insts
    BY <1>3, <1>1, OneHolder, DistinctAssumption DEF Rolling, CancelledStopping, Holder
  <2> QED BY <1>1, <1>2, <1>4, <2>1 DEF Stopping, Stoppers
<1>6. ListedRuns'
  BY <1>1 DEF Rolling, ListedRuns, LabelsOf
<1>7. RestartOwn' /\ ReloadOneSlot'
  <2>1. local[c].op # "reload"
    BY <1>1 DEF Rolling, ReloadOneSlot
  <2>2. local[c].op \in {"restart", "updateEnv"} => \A h \in local[c].insts : h[1] \in LabelsOf(local[c].targets)
    BY <1>1 DEF Rolling, RestartOwn
  <2> QED BY <1>1, <1>2, <2>1, <2>2, OthersRoll
<1> QED BY <1>5, <1>6, <1>7 DEF Rolling

\* The end of a stop takes the marks away.
LEMMA FinishStopRolls ==
  ASSUME Inv, Rolling, NEW c \in Clients, FinishStop(c) \/ (c = Main /\ FinishStopAll)
  PROVE  Rolling'
<1> USE DEF Inv
<1>1. /\ Holder(c) /\ local' = [local EXCEPT ![c] = Idle] /\ UNCHANGED <<apps, slot>>
      /\ Settle(local[c].insts)
  BY DEF FinishStop, FinishStopAll, Return, At, Holder
<1>2. \A l \in Labels, g \in Gens :
        inst'[l][g].cancelled = IF <<l, g>> \in local[c].insts THEN FALSE ELSE inst[l][g].cancelled
  BY <1>1, Flags DEF Settle, IInv
<1>3. CancelledStopping'
  <2> SUFFICES ASSUME NEW l \in Labels, NEW g \in Gens, g = slot[l], inst'[l][g].cancelled PROVE FALSE
    BY <1>1 DEF CancelledStopping, IInv, TypeOK
  <2> QED BY <1>1, <1>2, OneHolder, DistinctAssumption DEF Rolling, CancelledStopping
<1>4. ListedRuns'
  BY <1>1 DEF Rolling, ListedRuns, LabelsOf
<1>5. RestartOwn' /\ ReloadOneSlot'
  <2>1. \A d \in Clients : local'[d] = IF d = c THEN Idle ELSE local[d]
    BY <1>1 DEF IInv, TypeOK
  <2> QED BY <1>1, <2>1, Locals, OthersRoll
<1> QED BY <1>3, <1>4, <1>5 DEF Rolling

\* Where every slot that was being stopped is filled again, no mark is left.
LEMMA StartRolls ==
  ASSUME IInv, Rolling, NEW c \in Clients, Holder(c), UNCHANGED apps,
         NEW ls, ls \subseteq Labels, \A l \in ls : \E x \in apps : x.name = l[1],
         \A h \in local[c].insts : h[1] \in ls,
         StartInstances(ls, EnvsOf(ls))
  PROVE  CancelledStopping' /\ ListedRuns'
<1>1. \A l \in ls : EnvsOf(ls)[l] \in Envs
  BY EnvsListed DEF IInv
<1>2. /\ \A l \in ls : slot'[l] \in Gens /\ ~inst'[l][slot'[l]].cancelled
      /\ \A l \in Labels : l \notin ls => slot'[l] = slot[l] /\ inst'[l] = inst[l]
  BY <1>1, Started DEF IInv
<1>3. CancelledStopping'
  <2> SUFFICES ASSUME NEW l \in Labels, slot'[l] # NoOne PROVE ~inst'[l][slot'[l]].cancelled
    BY DEF CancelledStopping
  <2>1. CASE l \in ls
    BY <1>2, <2>1
  <2>2. CASE l \notin ls
    <3>1. <<l, slot[l]>> \notin local[c].insts
      BY <2>2
    <3>2. ~inst[l][slot[l]].cancelled
      BY <1>2, <2>2, <3>1, OneHolder DEF Rolling, CancelledStopping
    <3> QED BY <1>2, <2>2, <3>2
  <2> QED BY <2>1, <2>2
<1>4. ListedRuns'
  <2> SUFFICES ASSUME NEW x \in apps, NEW l \in LabelsOf({x}) PROVE slot'[l] # NoOne
    BY DEF ListedRuns, LabelsOf
  <2>1. l \in Labels /\ slot[l] # NoOne
    BY DEF Rolling, ListedRuns, LabelsOf
  <2> QED BY <1>2, <2>1, DistinctAssumption
<1> QED BY <1>3, <1>4

LEMMA FinishRestartRolls ==
  ASSUME Inv, Rolling, NEW c \in Clients, FinishRestart(c)
  PROVE  Rolling'
<1> USE DEF Inv
<1>1. PICK ls : ls = LabelsOf(local[c].targets)
  OBVIOUS
<1>2. /\ Holder(c) /\ local' = [local EXCEPT ![c] = Idle] /\ UNCHANGED apps
      /\ StartInstances(ls, EnvsOf(ls))
  BY <1>1 DEF FinishRestart, Return, At, Holder
<1>3. local[c].targets \subseteq apps /\ \A h \in local[c].insts : h[1] \in ls
  BY <1>1 DEF FinishRestart, At, IInv, RestartKnows, Rolling, RestartOwn
<1>4. ls \subseteq Labels /\ \A l \in ls : \E x \in apps : x.name = l[1]
  BY <1>1, <1>3 DEF LabelsOf
<1>5. CancelledStopping' /\ ListedRuns'
  BY <1>2, <1>3, <1>4, StartRolls
<1>6. RestartOwn' /\ ReloadOneSlot'
  <2>1. \A d \in Clients : local'[d] = IF d = c THEN Idle ELSE local[d]
    BY <1>2 DEF IInv, TypeOK
  <2> QED BY <1>2, <2>1, Locals, OthersRoll
<1> QED BY <1>5, <1>6 DEF Rolling

\* Reload cancels what is in one slot.
LEMMA ReloadCancelRolls ==
  ASSUME Inv, Rolling, NEW c \in Clients, ReloadCancel(c)
  PROVE  Rolling'
<1> USE DEF Inv
<1>0. PICK l0 \in Labels : \E hs :
        /\ hs = {h \in Collect(local[c].targets) : h[1] \in Batch(c, l0)}
        /\ CancelInstances(hs)
        /\ local' = [local EXCEPT ![c].pc = "slotStop", ![c].insts = hs, ![c].todo = local[c].todo \ {l0}]
  BY DEF ReloadCancel
<1>1. PICK hs :
        /\ hs = {h \in Collect(local[c].targets) : h[1] \in Batch(c, l0)}
        /\ CancelInstances(hs)
        /\ local' = [local EXCEPT ![c].pc = "slotStop", ![c].insts = hs, ![c].todo = local[c].todo \ {l0}]
  BY <1>0
<1>2. local[c] \in Local /\ local[c].pc = "next" /\ Holder(c) /\ UNCHANGED <<apps, slot, opMu>>
  BY DEF ReloadCancel, At, IInv, TypeOK, Holder
<1>3. /\ local'[c].pc = "slotStop" /\ local'[c].op = local[c].op
      /\ local'[c].insts = hs /\ local'[c].targets = local[c].targets
      /\ \A d \in Clients : d # c => local'[d] = local[d]
  BY <1>1, <1>2 DEF IInv, TypeOK, Local
<1>4. \A h \in hs : h[1] = l0
  BY <1>1 DEF Batch
<1>5. \A l \in Labels, g \in Gens :
        inst'[l][g].cancelled = IF <<l, g>> \in hs THEN TRUE ELSE inst[l][g].cancelled
  <2>1. TypeOK
    BY DEF IInv
  <2>2. inst' = [l \in Labels |-> [g \in Gens |->
          IF <<l, g>> \in hs THEN [inst[l][g] EXCEPT !.cancelled = TRUE] ELSE inst[l][g]]]
    BY <1>1 DEF CancelInstances
  <2> QED BY <2>1, <2>2, Flags
<1>6. opMu = c /\ \A l, g : ~Stopping(l, g)
  BY <1>2, OneHolder DEF Stoppers
<1>7. CancelledStopping'
  <2> SUFFICES ASSUME NEW l \in Labels, NEW g \in Gens, g = slot[l], inst'[l][g].cancelled
               PROVE  Stopping(l, g)'
    BY <1>2 DEF CancelledStopping, IInv, TypeOK
  <2>1. <<l, g>> \in hs
    BY <1>5, <1>6, DistinctAssumption DEF Rolling, CancelledStopping
  <2> QED BY <1>2, <1>3, <1>6, <2>1 DEF Stopping, Stoppers
<1>8. ListedRuns'
  BY <1>2 DEF Rolling, ListedRuns, LabelsOf
<1>9. RestartOwn' /\ ReloadOneSlot'
  <2>1. local[c].op = "reload" => local[c].targets \subseteq apps
    BY DEF Rolling, ReloadOneSlot
  <2> QED BY <1>2, <1>3, <1>4, <2>1, OthersRoll
<1> QED BY <1>7, <1>8, <1>9 DEF Rolling

LEMMA ReloadStartRolls ==
  ASSUME Inv, Rolling, NEW c \in Clients, ReloadStart(c)
  PROVE  Rolling'
<1> USE DEF Inv
<1>1. PICK ls : ls = {h[1] : h \in local[c].insts}
  OBVIOUS
<1>2. /\ local[c] \in Local /\ local[c].pc = "slotStop" /\ Holder(c) /\ UNCHANGED apps
      /\ StartInstances(ls, EnvsOf(ls)) /\ local' = [local EXCEPT ![c].pc = "slotOnline"]
  BY <1>1 DEF ReloadStart, At, IInv, TypeOK, Holder
<1>3. local[c].insts \subseteq Labels \X Gens /\ \A h \in local[c].insts : slot[h[1]] = h[2]
  BY <1>2 DEF Local, IInv, ReloadKnows
<1>4. ls \subseteq Labels /\ \A l \in ls : \E x \in apps : x.name = l[1]
  <2>1. \A l \in ls : l \in Labels /\ slot[l] \in Gens
    BY <1>1, <1>3
  <2> QED BY <2>1, DistinctAssumption DEF IInv, SlotsListed
<1>5. CancelledStopping' /\ ListedRuns'
  BY <1>1, <1>2, <1>4, StartRolls
<1>6. /\ local'[c].pc = "slotOnline" /\ local'[c].op = local[c].op
      /\ local'[c].targets = local[c].targets
      /\ \A d \in Clients : d # c => local'[d] = local[d]
  BY <1>2 DEF IInv, TypeOK, Local
<1>7. RestartOwn' /\ ReloadOneSlot'
  <2>1. local[c].op = "reload" => local[c].targets \subseteq apps
    BY DEF Rolling, ReloadOneSlot
  <2> QED BY <1>2, <1>6, <2>1, OthersRoll
<1> QED BY <1>5, <1>7 DEF Rolling

LEMMA ReloadGoesOnRolls ==
  ASSUME Inv, Rolling, NEW c \in Clients, ReloadGoesOn(c)
  PROVE  Rolling'
<1> USE DEF Inv
<1>1. /\ local[c] \in Local /\ local[c].pc = "slotOnline" /\ Holder(c) /\ UNCHANGED <<apps, slot, inst>>
      /\ \/ local' = [local EXCEPT ![c] = Idle]
         \/ local' = [local EXCEPT ![c].pc = "next", ![c].insts = {}]
  BY DEF ReloadGoesOn, Return, At, IInv, TypeOK, Holder
<1>2. /\ \/ local'[c] = Idle
         \/ /\ local'[c].pc = "next" /\ local'[c].op = local[c].op
            /\ local'[c].targets = local[c].targets
      /\ \A d \in Clients : d # c => local'[d] = local[d]
  BY <1>1 DEF IInv, TypeOK, Local
<1>3. \A l, g : ~Stopping(l, g)
  BY <1>1, OneHolder DEF Stoppers
<1>4. CancelledStopping' /\ ListedRuns'
  BY <1>1, <1>3 DEF Rolling, CancelledStopping, ListedRuns, LabelsOf
<1>5. RestartOwn' /\ ReloadOneSlot'
  <2>1. local[c].op = "reload" => local[c].targets \subseteq apps
    BY DEF Rolling, ReloadOneSlot
  <2> QED BY <1>1, <1>2, <2>1, Locals, OthersRoll
<1> QED BY <1>4, <1>5 DEF Rolling

LEMMA RollingStep ==
  ASSUME Inv, Rolling, [Next]_vars
  PROVE  Rolling'
<1> USE DEF Inv
<1>1. ASSUME NEW c \in Clients, Call(c) \/ Follow(c) \/ HangUp(c) \/ ReturnUnchanged(c) PROVE Rolling'
  <2>1. PICK r \in {Idle, Following, Waiting} : local' = [local EXCEPT ![c] = r]
    BY <1>1 DEF Call, Follow, HangUp, ReturnUnchanged
  <2>2. ~Holder(c) /\ UNCHANGED <<apps, slot, inst, opMu>>
    BY <1>1 DEF Call, Follow, HangUp, ReturnUnchanged, Turn, At, Holder
  <2>3. \A d \in Clients : local'[d] = IF d = c THEN r ELSE local[d]
    BY <2>1 DEF IInv, TypeOK
  <2>4. ~Holder(c)' /\ local'[c].op = "none"
    BY <2>3, Locals DEF Holder
  <2> QED BY <2>2, <2>3, <2>4, QuietRolls DEF IInv
<1>2. ASSUME NEW c \in Clients, Acquire(c) PROVE Rolling'
  BY <1>1, <1>2, AddRolls, BeginRolls DEF Acquire
<1>3. ASSUME NEW c \in Clients, Proceed(c) PROVE Rolling'
  BY <1>3, CancelRolls, FinishStopRolls, FinishRestartRolls, ReloadCancelRolls, ReloadStartRolls,
     ReloadGoesOnRolls DEF Proceed
<1>4. ASSUME BeginStopAll \/ FinishStopAll PROVE Rolling'
  <2>1. Main \in Clients
    BY DEF Clients
  <2> QED BY <1>4, <2>1, BeginRolls, FinishStopRolls
<1>5. CASE CallStopAll \/ ServeFails
  <2>1. ~Holder(Main) /\ \A d \in Clients : local'[d] = IF d = Main THEN Waiting ELSE local[d]
    BY <1>5 DEF CallStopAll, ServeFails, MainKnows, Holder, IInv, TypeOK
  <2>2. ~Holder(Main)' /\ local'[Main].op = "none"
    BY <2>1, Locals DEF Holder, Clients
  <2> QED BY <1>5, <2>1, <2>2, QuietRolls DEF CallStopAll, ServeFails, IInv
<1>6. CASE Shutdown \/ Exit \/ UNCHANGED vars
  BY <1>6, QuietRolls DEF Shutdown, Exit, vars, IInv
<1>7. ASSUME NEW l \in Labels, NEW g \in Gens, InstanceEnds(l, g) PROVE Rolling'
  <2>1. inst' = [inst EXCEPT ![l][g].env = NoOne] /\ UNCHANGED <<apps, slot, opMu, local>>
    BY <1>7 DEF InstanceEnds
  <2>2. \A k \in Labels, h \in Gens : inst'[k][h].cancelled = inst[k][h].cancelled
    BY <2>1 DEF IInv, TypeOK, Instance
  <2> QED BY <2>1, <2>2, QuietRolls DEF IInv
<1> QED BY <1>1, <1>2, <1>3, <1>4, <1>5, <1>6, <1>7 DEF Next, ShutdownSteps

\* Reload is rolling: of the slots of an app being reloaded, at most one has been
\* cancelled and not yet replaced (manager.Reload's loop over the slots), whatever
\* was stopped, restarted or deleted before it.
THEOREM ManagerRollingReload == Spec => []RollingReload
<1>1. Init => Rolling
  BY Locals DEF Init, Rolling, CancelledStopping, ListedRuns, RestartOwn, ReloadOneSlot
<1>2. Inv /\ Rolling /\ [Next]_vars => Rolling'
  BY RollingStep
<1>3. Inv /\ Rolling => RollingReload
  <2> SUFFICES ASSUME Inv, Rolling, NEW c \in Clients, local[c].op = "reload", NEW a \in local[c].targets,
                      NEW k \in LabelsOf({a}), NEW l \in LabelsOf({a}),
                      inst[k][slot[k]].cancelled, inst[l][slot[l]].cancelled
               PROVE  k = l
    BY DEF RollingReload
  <2>1. Holder(c) /\ a \in apps /\ local[c].pc \notin {"collected", "stopping"}
    BY DEF Rolling, ReloadOneSlot, Holder
  <2>2. k \in Labels /\ l \in Labels /\ slot[k] # NoOne /\ slot[l] # NoOne
    BY <2>1 DEF Rolling, ListedRuns, LabelsOf
  <2>3. Stopping(k, slot[k]) /\ Stopping(l, slot[l])
    BY <2>2 DEF Rolling, CancelledStopping
  <2>4. local[c].pc = "slotStop" /\ <<k, slot[k]>> \in local[c].insts /\ <<l, slot[l]>> \in local[c].insts
    BY <2>1, <2>3, OneHolder DEF Inv, Stoppers
  <2> QED BY <2>4 DEF Rolling, ReloadOneSlot
<1> QED BY <1>1, <1>2, <1>3, AlwaysInv, PTL DEF Spec

-----------------------------------------------------------------------------
(* The daemon's exit, where every caller is an RPC handler. *)

\* StopAll is called when no RPC is being handled, and none comes after it.
DrainedFirst == daemon \in {"stopping", "exited"} => Drained

\* Once StopAll has returned nothing is running.
NothingLeft ==
  daemon \in {"stopping", "exited"} /\ local[Main].pc = "idle" =>
    \A l \in Labels, g \in Gens : ~Live(l, g)

\* With the server drained, Main is the only client with a step to take.
LEMMA OnlyMain ==
  ASSUME Background = {}, MainKnows, DrainedFirst, daemon \in {"stopping", "exited"},
         NEW c \in Clients, Call(c) \/ Follow(c) \/ HangUp(c) \/ Acquire(c) \/ Proceed(c)
  PROVE  CancelCollected(Main)
<1>1. c # Main => c \in Rpc /\ local[c].pc = "idle"
  BY DEF Clients, Callers, DrainedFirst, Drained
<1>2. ~Call(c) /\ ~Follow(c) /\ ~HangUp(c)
  BY <1>1, DistinctAssumption DEF Call, Follow, HangUp, Callers, Accepting, MainKnows, At
<1>3. ~Acquire(c)
  BY <1>1 DEF Acquire, Add, ReturnUnchanged, BeginStop, BeginRestart, BeginUpdateEnv, BeginDelete,
              BeginReload, Begin, Turn, At
<1>4. Proceed(c) => c = Main
  BY <1>1 DEF Proceed, CancelCollected, FinishStop, FinishRestart, ReloadCancel, ReloadStart,
              ReloadGoesOn, At
<1> QED BY <1>2, <1>3, <1>4, MainProceeds

\* Whoever finishes StopAll has waited for everything there was.
LEMMA StopAllLeavesNothing ==
  ASSUME Inv, FinishStopAll
  PROVE  \A l \in Labels, g \in Gens : ~Live(l, g)
<1>1. /\ Main \in Clients /\ Holder(Main) /\ AllDone(Main)
      /\ Collect(apps) \subseteq local[Main].insts
  BY DEF FinishStopAll, At, Holder, Clients, Inv, MainKnows
<1> SUFFICES ASSUME NEW l \in Labels, NEW g \in Gens, Live(l, g) PROVE FALSE
  OBVIOUS
<1>2. slot[l] = g /\ <<l, g>> \notin local[Main].insts
  BY <1>1, DoneMeansListed DEF Inv
<1>3. \E x \in apps : x.name = l[1]
  BY <1>2, DistinctAssumption DEF Inv, IInv, SlotsListed
<1>4. <<l, g>> \in Collect(apps)
  BY <1>2, <1>3 DEF Collect, LabelsOf
<1> QED BY <1>1, <1>2, <1>4

LEMMA ExitStep ==
  ASSUME Background = {}, Inv, DrainedFirst, NothingLeft, [Next]_vars
  PROVE  DrainedFirst' /\ NothingLeft'
<1> USE DEF Inv
<1>0. Rpc \subseteq Clients /\ Main \in Clients /\ Main \notin Rpc
  BY DistinctAssumption DEF Clients, Callers
<1>1. ASSUME UNCHANGED <<inst, local>>,
             daemon' = daemon \/ daemon' = "failed" \/ (daemon = "stopping" /\ daemon' = "exited")
      PROVE  DrainedFirst' /\ NothingLeft'
  BY <1>1 DEF DrainedFirst, NothingLeft, Drained, Live
<1>2. CASE UNCHANGED vars \/ Exit
  BY <1>1, <1>2 DEF vars, Exit
<1>3. CASE Shutdown \/ ServeFails
  BY <1>3 DEF Shutdown, ServeFails, DrainedFirst, NothingLeft
<1>4. CASE CallStopAll
  <2>1. local'[Main] = Waiting /\ \A c \in Rpc : local'[c] = local[c]
    BY <1>0, <1>4 DEF CallStopAll, IInv, TypeOK
  <2> QED BY <1>4, <2>1, Locals DEF CallStopAll, DrainedFirst, NothingLeft, Drained
<1>5. ASSUME BeginStopAll \/ CancelCollected(Main)
      PROVE  DrainedFirst' /\ NothingLeft'
  <2>1. daemon' = daemon /\ local'[Main].pc # "idle" /\ \A c \in Rpc : local'[c] = local[c]
    <3>1. CASE BeginStopAll
      <4>1. daemon' = daemon /\ local'[Main] = Working("stopAll", apps) /\ \A c \in Rpc : local'[c] = local[c]
        BY <1>0, <3>1 DEF BeginStopAll, Working, IInv, TypeOK
      <4>2. Working("stopAll", apps).pc = "collected"
        BY Collected DEF Operation, IInv, TypeOK
      <4> QED BY <4>1, <4>2
    <3>2. CASE CancelCollected(Main)
      BY <1>0, <3>2 DEF CancelCollected, IInv, TypeOK, Local
    <3> QED BY <1>5, <3>1, <3>2
  <2> QED BY <2>1 DEF DrainedFirst, NothingLeft, Drained
<1>6. CASE FinishStopAll
  <2>1. local' = [local EXCEPT ![Main] = Idle] /\ daemon' = daemon
    BY <1>6 DEF FinishStopAll, Return
  <2>2. \A c \in Rpc : local'[c] = local[c]
    BY <1>0, <2>1 DEF IInv, TypeOK
  <2>3. \A l \in Labels, g \in Gens : inst'[l][g].env = inst[l][g].env
    BY <1>6, Flags DEF FinishStopAll, Settle, IInv
  <2> QED BY <1>6, <2>1, <2>2, <2>3, StopAllLeavesNothing DEF DrainedFirst, NothingLeft, Drained, Live
<1>7. ASSUME NEW l \in Labels, NEW g \in Gens, InstanceEnds(l, g)
      PROVE  DrainedFirst' /\ NothingLeft'
  <2>1. UNCHANGED <<local, daemon>> /\ Live(l, g)
    BY <1>7 DEF InstanceEnds
  <2> QED BY <2>1 DEF DrainedFirst, NothingLeft, Drained
<1>8. ASSUME NEW c \in Clients, Call(c) \/ Follow(c) \/ HangUp(c) \/ Acquire(c) \/ Proceed(c)
      PROVE  DrainedFirst' /\ NothingLeft'
  <2>1. CASE daemon \in {"stopping", "exited"}
    BY <1>5, <1>8, <2>1, OnlyMain
  <2>2. CASE daemon \notin {"stopping", "exited"}
    BY <1>8, <2>2, ClientStep DEF DrainedFirst, NothingLeft
  <2> QED BY <2>1, <2>2
<1> QED BY <1>2, <1>3, <1>4, <1>5, <1>6, <1>7, <1>8 DEF Next, ShutdownSteps

\* daemon.Run "gracefully stops everything": where every caller of the manager is
\* an RPC that GracefulStop waits for, no instance outlives the daemon.  The memory
\* guard and git deploys are no RPCs, and with them it fails.
THEOREM ManagerNoneOutlivesDaemon ==
  ASSUME Background = {}
  PROVE  Spec => []NoneOutlivesDaemon
<1>1. Init => DrainedFirst /\ NothingLeft
  BY DEF Init, DrainedFirst, NothingLeft
<1>2. Inv /\ DrainedFirst /\ NothingLeft /\ [Next]_vars => (DrainedFirst /\ NothingLeft)'
  BY ExitStep
<1>3. Inv /\ NothingLeft => NoneOutlivesDaemon
  BY DEF Inv, MainKnows, NothingLeft, NoneOutlivesDaemon
<1> QED BY <1>1, <1>2, <1>3, AlwaysInv, PTL DEF Spec
=============================================================================
