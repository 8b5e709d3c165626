--------------------------- MODULE Notifications ---------------------------
(***************************************************************************)
(* The Notifications page (web/src/Notifications.tsx) and the store behind  *)
(* it (internal/notify/store.go).  The page shows the configuration as it   *)
(* was when a reload was served; each section writes on its own and asks    *)
(* for a reload afterwards.  Nothing locks the page, so writes and reloads  *)
(* run side by side and may be lost, refused or answered in any order.      *)
(* Definitions headed "Slip" are plausible mistakes; nothing uses them.     *)
(***************************************************************************)
EXTENDS Integers, Sequences, FiniteSets, FiniteSetsExt, Functions

CONSTANTS
  Channels, Rules,  \* the names a user gives
  Types,            \* channel types
  Secrets,          \* whether secrets are filled in
  Cooldowns,        \* what is typed as cooldown
  DefaultCooldown,
  MaxReloads,       \* bound: reloads under way
  MaxWrites,        \* bound: writes under way, abandoned ones included
  NoCfg, Waiting, Failed, NoSecret

VARIABLES
  mounted,
  cfg, err,    \* the configuration on display, and whether an error is
  chans,       \* the channels picked in the rule form
  cooldown,    \* the settings form; its other fields are kept the same way
  testing,     \* "send test notification" is under way
  reloads,     \* getNotifications calls, in the order they were made
  writes,      \* put and delete calls, each with what its form sent
  late,        \* history: the answer shown last was overtaken by a newer one
  untold,      \* history: since the last reload was asked for, the store changed
               \* by a write after which the page does not reload
  config       \* the server's store

page == <<mounted, cfg, err, chans, cooldown, testing>>
calls == <<reloads, writes>>
vars == <<page, calls, late, untold, config>>

IsConfig(c) ==
  /\ DOMAIN c.channels \subseteq Channels /\ DOMAIN c.rules \subseteq Rules
  /\ \A n \in DOMAIN c.channels : c.channels[n].type \in Types
  /\ \A n \in DOMAIN c.rules : c.rules[n] \subseteq Channels
  /\ c.cooldown > 0

Puts == {"channel", "rule", "settings"}
Deletes == {"delete channel", "delete rule"}

\* Every variable has its type.
TypeOK ==
  /\ mounted \in {"here", "away"}
  /\ cfg = NoCfg \/ IsConfig(cfg)
  /\ err \in BOOLEAN /\ testing \in BOOLEAN /\ late \in BOOLEAN /\ untold \in BOOLEAN
  /\ chans \subseteq Channels
  /\ cfg # NoCfg => cooldown \in Cooldowns \cup {DefaultCooldown}
  /\ \A w \in writes : w.form.op \in Puts \cup Deletes /\ w.live \in BOOLEAN
  /\ IsConfig(config)

-----------------------------------------------------------------------------
(* The store. *)

\* A name bound to a value, or unbound.
With(f, n, v) == [x \in DOMAIN f \cup {n} |-> IF x = n THEN v ELSE f[x]]
Without(f, n) == Restrict(f, DOMAIN f \ {n})

\* PutChannel without secrets keeps the secret that is there, of whichever type.
SecretOf(f) ==
  IF f.secret THEN f.type
  ELSE IF f.name \in DOMAIN config.channels THEN config.channels[f.name].secret ELSE NoSecret

Stored(f) ==
  CASE f.op = "channel" ->
         [config EXCEPT !.channels = With(@, f.name, [type |-> f.type, secret |-> SecretOf(f)])]
    [] f.op = "rule" -> [config EXCEPT !.rules = With(@, f.name, f.chans)]
    [] f.op = "settings" ->
         [config EXCEPT !.cooldown = IF f.cooldown > 0 THEN f.cooldown ELSE DefaultCooldown]
    [] f.op = "delete channel" -> [config EXCEPT !.channels = Without(@, f.name)]
    [] f.op = "delete rule" -> [config EXCEPT !.rules = Without(@, f.name)]

-----------------------------------------------------------------------------
(* The page. *)

Init ==
  /\ mounted = "here" /\ cfg = NoCfg /\ err = FALSE
  /\ chans = {} /\ cooldown = NoCfg /\ testing = FALSE
  /\ reloads = <<[reply |-> Waiting, late |-> FALSE]>> /\ writes = {}
  /\ late = FALSE /\ untold = FALSE
  /\ config = [channels |-> <<>>, rules |-> <<>>, cooldown |-> DefaultCooldown]

Reload ==
  /\ Len(reloads) < MaxReloads
  /\ reloads' = Append(reloads, [reply |-> Waiting, late |-> FALSE])
  /\ untold' = FALSE

Leave ==
  /\ mounted = "here" /\ mounted' = "away"
  /\ cfg' = NoCfg /\ err' = FALSE /\ chans' = {} /\ cooldown' = NoCfg /\ testing' = FALSE
  /\ reloads' = <<>> /\ late' = FALSE /\ untold' = FALSE
  /\ writes' = {[w EXCEPT !.live = FALSE] : w \in {w \in writes : w.reply = Waiting}}
  /\ UNCHANGED config

Return ==
  /\ mounted = "away" /\ mounted' = "here" /\ Reload
  /\ UNCHANGED <<cfg, err, chans, cooldown, testing, writes, late, config>>

Shown == mounted = "here" /\ cfg # NoCfg

ToggleChannel ==
  /\ Shown
  /\ \E n \in DOMAIN cfg.channels : chans' = SymDiff(chans, {n})
  /\ UNCHANGED <<mounted, cfg, err, cooldown, testing, calls, late, untold, config>>

TypeCooldown ==
  /\ Shown /\ cooldown' \in Cooldowns
  /\ UNCHANGED <<mounted, cfg, err, chans, testing, calls, late, untold, config>>

\* What the forms of the sections write, and the delete buttons of their lists.
ChannelForm == {[op |-> "channel", name |-> n, type |-> t, secret |-> s] :
                  n \in Channels, t \in Types, s \in Secrets}
ChannelRows == {[op |-> "delete channel", name |-> n] : n \in DOMAIN cfg.channels}
RuleForm == {[op |-> "rule", name |-> n, chans |-> chans] : n \in Rules}
RuleRows == {[op |-> "delete rule", name |-> n] : n \in DOMAIN cfg.rules}
SettingsForm == {[op |-> "settings", cooldown |-> cooldown]}

Write ==
  /\ Shown /\ Cardinality(writes) < MaxWrites
  /\ \E f \in ChannelForm \cup ChannelRows \cup RuleForm \cup RuleRows \cup SettingsForm :
       writes' = writes \cup {[form |-> f, reply |-> Waiting, live |-> TRUE]}
  /\ UNCHANGED <<page, reloads, late, untold, config>>

\* A write is refused or stored; the answer may be lost, and a store that cannot
\* be saved answers a put with an error although it changed.
ServeWrite ==
  \E w \in writes, stored \in BOOLEAN, reply \in {"ok", "error", Failed} :
    /\ w.reply = Waiting
    /\ reply = "ok" => stored
    /\ reply = "error" /\ w.form.op \in Deletes => ~stored
    /\ config' = IF stored THEN Stored(w.form) ELSE config
    /\ writes' = (writes \ {w}) \cup IF w.live THEN {[w EXCEPT !.reply = reply]} ELSE {}
    /\ untold' = (untold \/ (config' # config /\ (reply # "ok" \/ ~w.live)))
    /\ UNCHANGED <<page, reloads, late>>

\* Slip: a section does not reload after a delete.
ReloadsAfterPut(w) == w.form.op \in Puts /\ w.reply = "ok"

\* After a put that is answered with ok, and after a delete that is answered.
ReloadsAfter(w) == IF w.form.op \in Puts THEN w.reply = "ok" ELSE w.reply # Failed

WriteDone ==
  \E w \in writes :
    /\ w.reply # Waiting
    /\ writes' = writes \ {w}
    /\ chans' = IF w.form.op = "rule" /\ w.reply = "ok" THEN {} ELSE chans
    /\ IF ReloadsAfter(w) THEN Reload ELSE UNCHANGED <<reloads, untold>>
    /\ UNCHANGED <<mounted, cfg, err, cooldown, testing, late, config>>

SendTest ==
  /\ Shown /\ ~testing /\ DOMAIN cfg.channels # {}
  /\ testing' = TRUE
  /\ UNCHANGED <<mounted, cfg, err, chans, cooldown, calls, late, untold, config>>

TestDone ==
  /\ testing /\ testing' = FALSE
  /\ UNCHANGED <<mounted, cfg, err, chans, cooldown, calls, late, untold, config>>

-----------------------------------------------------------------------------
(* Reloads. *)

ServeReload ==
  /\ \E i \in DOMAIN reloads, reply \in {config, Failed} :
       reloads[i].reply = Waiting /\ reloads' = [reloads EXCEPT ![i].reply = reply]
  /\ UNCHANGED <<page, writes, late, untold, config>>

RemoveAt(s, i) == SubSeq(s, 1, i - 1) \o SubSeq(s, i + 1, Len(s))

\* The settings form takes its values from the first configuration shown.
Reloaded ==
  \E i \in DOMAIN reloads :
    LET r == reloads[i] IN
    /\ r.reply # Waiting
    /\ reloads' = RemoveAt([j \in DOMAIN reloads |->
                     IF j < i THEN [reloads[j] EXCEPT !.late = TRUE] ELSE reloads[j]], i)
    /\ late' = r.late
    /\ err' = (r.reply = Failed)
    /\ cfg' = IF r.reply = Failed THEN cfg ELSE r.reply
    /\ cooldown' = IF cooldown = NoCfg /\ r.reply # Failed THEN r.reply.cooldown ELSE cooldown
    /\ UNCHANGED <<mounted, chans, testing, writes, untold, config>>

Next ==
  \/ Leave \/ Return \/ ToggleChannel \/ TypeCooldown
  \/ Write \/ ServeWrite \/ WriteDone \/ SendTest \/ TestDone
  \/ ServeReload \/ Reloaded

Spec == Init /\ [][Next]_vars

-----------------------------------------------------------------------------
\* A page at rest that shows no error shows the store, unless an old answer came
\* in after a newer one, or a write ended in a way that makes it no reload.
CfgCurrent ==
  Shown /\ reloads = <<>> /\ {w \in writes : w.live} = {} /\ ~err /\ ~late /\ ~untold =>
    cfg = config
=============================================================================
