# A TLA+ model of marshal-pm

Marshal is a process manager: a daemon keeps apps running on one machine, and
agents (daemons) connect to a central server that shows and controls a fleet,
also through a web dashboard. This directory holds TLA+ specifications of the
daemon's core and its saved list of apps, of the link between agent and server, and of the dashboard's
pages; TLC configurations that check them on small instances; and proofs that
TLAPS checks for every value of the constants. Every definition follows the Go
or TypeScript code; `PROJECT.json` ("map") names the lines of each.

## Inventory

| Component (source) | State it keeps | Operations | What is hard, and what makes it correct |
|---|---|---|---|
| Instance supervisor (`internal/supervisor`) | state, pid, restarts, unstable, last exit | `Run` (spawn, watch, `handleExit`, back off, `stop`), `ResetCounters`, `Snapshot` | A stop request, a crash, a counter reset and a timeout meet in any order. Never two processes; crash-loop budget; truthful snapshot; every stop ends |
| Spawning (`internal/proc`) | process group, output pipes | `Start`, `Wait`, `Signal`, `Kill` | `Wait` waits for the holders of the pipes, signals reach the group: the two sets differ |
| App manager (`internal/manager`) | apps, their instances, ids | `Add`, `Stop`, `Restart`, `Reload`, `UpdateEnv`, `ResetCounters`, `Delete`, `StopAll` | Long waits under `opMu` with `mu` released. No orphaned goroutine, no slot run twice, stable ids, rolling reload |
| Daemon (`internal/daemon/server.go`) | the RPC server, background goroutines, the saved list | RPCs, resurrection, shutdown | Who is waited for at shutdown; concurrent saves |
| Git deployer (`internal/deploy`) | phase per app name, a checkout per name | `Start`, `Redeploy`, `Commit`, `Forget`, `runDeploy` | Checks against the manager before the lock; goroutines that nobody cancels. Exclusive checkout; swap only on success |
| Fleet commands (`daemon/command.go`) | none | one handler per command | Two connections may execute commands at once; several calls per command |
| Memory guard (`internal/memguard`) | limits, breach streaks | `SetLimit`, `Remove`, `Check` | Restarts run asynchronously; "consecutive" across missing samples |
| Fleet agent (`internal/fleet`, `daemon/fleetsupervisor.go`) | watermarks, tokens, the runner | connect, push, execute commands, reconnect | Lost connections, watermarks, an old runner that is not waited for. No row skipped |
| Central server streams (`internal/server`) | registry, sessions, pending commands, stores | `Connect`, `dispatch`, `deliver`, `Evict` | Overlapping streams of one agent, timeouts against late results, duplicates. A caller gets its own result, and returns; an agent that is there is shown |
| Server authentication (`server/auth.go`) | `auth.json` and its copy | enrol, save, `Reload` | Lost acknowledgement, whole-file updates, modification times |
| Notifications (`internal/notify`) | buffered alerts, cooldowns, previous snapshots | detect, coalesce, flush, drain, dispatch | Alerts that replace each other, flush against recovery, failed deliveries |
| Logs (`internal/logs`) | ring, files, followers | write, rotate, subscribe, `RingSince` | Slow followers, limits, shipping from the ring |
| Saved apps (`internal/store`) | `dump.json` and settings | `Save`, `Load` | Concurrent saves, crash, partial starts |
| Rate limiter (`internal/ratelimit`) | failures, locks | `Fail`, `RetryAfter`, `Reset` | Backoff, pruning, check apart from the attempt |
| File browser (`web/src/FileBrowser.tsx`) | directory, entries, open file, draft, dialog, busy | list, open, save, create, rename, delete | Answers for a directory already left, commits under way. One commit at a time; the listing shown is current |
| Live logs (`web/src/hooks/useLogStream.ts`) | lines, cursor | ticks, selection, pause | Ticks that overlap, lost and late answers. Lines of the selection, once and in order; catches up |
| Errors page, badge (`Errors.tsx`, `AppShell.tsx`) | range, data, badge | load, acknowledge, poll | Answers overtaken by a change of range or an acknowledgement. What is shown is current |
| Notifications page (`Notifications.tsx`, `notify/store.go`) | configuration on display, forms | write, delete, test, reload | Forms write whole entries back; writes and reloads side by side. A page at rest shows the store |
| Credentials page (`Credentials.tsx`, `StatusMessage.tsx`) | list, form, status and its timer | list, create, delete | A timer of an earlier success against a later error |
| Session and routing (`App.tsx`, `Login.tsx`, polls of `Overview`, `ProcessDetail`) | signed in or not, page | load, sign in and out, poll | A failed poll ends a login, which must be the one it belongs to |
| Overview, charts, controls, modals, dashboard API, databases, samplers, configuration, CLI | - | - | Mostly I/O, formatting and views; see `PROJECT.json` |

Interactions: an RPC or a fleet command calls the manager; the manager starts
`Instance.Run` goroutines and stops them by cancelling their context and waiting
for `done`; the deployer, the memory guard and the fleet client call the manager
from goroutines of their own; the sampler feeds the guard; the fleet client
ships snapshots, metrics and logs to the server, whose registry feeds the
notifications. A page of the dashboard calls the server's HTTP handlers, which
read its stores, or dispatch a command down the agent's stream.

## Modules

| Module | Models | Runs |
|---|---|---|
| `InstanceLifecycle` | abstract: what an instance promises to the manager | refined in `supervisor` |
| `Supervisor` | `supervisor/instance.go`, `proc/proc.go` | `supervisor`, `supervisor_leftovers`, `supervisor_escaped` |
| `SupervisorProofs` | theorems about `Supervisor` | - |
| `MCSupervisor` | instance for TLC | |
| `Manager` | `manager/manager.go`, the shutdown in `daemon/server.go`, the followers of `daemon/logs.go` | `manager`, `manager_background` |
| `ManagerProofs` | theorems about `Manager` | - |
| `MCManager` | instance for TLC | |
| `Deployer` | `deploy/deployer.go`, `deploy/mutate.go`, its commands in `daemon/command.go` | `deployer`, `deployer_delete`, `deployer_duplicate` |
| `DeployerProofs` | theorems about `Deployer` | - |
| `FleetLink` | `fleet/client.go`; `server/server.go`, `registry.go`, `broker.go`; the metric store | `fleetlink` |
| `FleetLinkProofs` | a caller's own result, for every `FleetLink` | - |
| `FleetStoreProofs` | the store without gaps, and the types, for every `FleetLink` | - |
| `SavedApps` | `store/store.go`, its callers in `daemon/server.go` and `daemon/command.go` | `savedapps`, `savedapps_meeting` |
| `SavedAppsProofs` | theorems about `SavedApps` | - |
| `MCSavedApps` | instance for TLC | |
| `FileBrowser` | `web/src/FileBrowser.tsx`, its dialogs, `deploy/browse.go`, the commits of `deploy/mutate.go` | `dashboard` |
| `LogStream` | `web/src/hooks/useLogStream.ts` and its views, `logstore` `Since` | `dashboard` |
| `Errors` | `web/src/Errors.tsx`, the badge in `AppShell.tsx`, `dashboard/errors.go` | `dashboard` |
| `Notifications` | `web/src/Notifications.tsx`, `notify/store.go` | `dashboard` |
| `Credentials` | `web/src/Credentials.tsx`, `components/StatusMessage.tsx` | `dashboard` |
| `Session` | `web/src/App.tsx`, `Login.tsx`, `router.ts`, the fleet polls of `Overview` and `ProcessDetail` | `dashboard` |
| `Dashboard` | the pages, each for any number of instances of its parameters | `dashboard` |
| `MCDashboard` | instances for TLC | |
| `PagesProofs` | theorems about session, credentials, errors and notifications in `Dashboard` | - |
| `DashboardProofs` | theorems about file browser, live log and types in `Dashboard` | - |

Definitions under a comment that begins with *Slip* are plausible programming
mistakes with the parameters of the definition that follows. No specification
uses them. `PROJECT.json` ("mutants") says which property notices which of them
when it takes the place of the correct definition: each property checked by a
passing run notices at least one.

### Supervisor

`pc` is the place of the goroutine running `Instance.Run`; a step is what it
does between two points where another goroutine or the kernel may intervene.
`Account` is the critical section of the stability accounting, `Judge` the hook
and the crash-loop check on the copy taken there, so that `ResetCounters` may
come between. Both cases of each `select` are enabled when both are ready.

Processes are sets. `tree` is what lives of the current spawn: the leader, a
descendant in the group that shares its output ("sharing"), one in the group
with redirected output ("detached"), and one that left the group with `setsid`
and kept the output ("escaped"). `Terminate` and `KillGroup` act on the group,
`WaitReturns` looks at the holders of the pipes. A member may exit or fork at
any time. Members of earlier spawns are `strays`.

Abstracted: time (a run was short or not, `KillTimeout` passed or not: a choice),
the backoff's length, exit codes (ok or failed), pids (known or not).

Bounds: `MaxRestarts = 2`, which lets the budget be used, exceeded and reset;
the total number of restarts saturates at `RestartCap = 4`. All three modes.

Fairness: `WF_vars(Run)`: the goroutine runs when it can and timers fire.
Processes owe nothing: they may ignore SIGTERM and live for ever.

What the runs show:

* `supervisor`: a process holding the instance's output lives only while `Run`
  watches it (`LeaderWatched`); proc.Start is never reached beyond the
  crash-loop limit (`SpawnBudget`); a pid exactly while online, a terminal state
  exactly when `Run` returns (`PublishedTruth`); an instance that ends unasked
  ends as its policy says (`EndVerdict`); one hook call per respawn
  (`HookPerRestart`); a stop request that finds a process, or an exit not yet
  looked at, ends as a stop whichever case of the `select` is taken (`StopWins`);
  every stop request ends (`CancelEnds`) unless an escaped
  descendant holds the output; crash loops end when nobody resets the counters
  (`CrashLoopEnds`); and `Run` implements `InstanceLifecycle` with
  `over <- (pc = "done")` (`LifecycleSpec`).
* `supervisor_leftovers`, `supervisor_escaped`: two claims of the README that the
  code does not keep; see Findings.

### Manager

`apps` is `m.apps`; `slot[label]` and `inst[label][generation]` separate what an
app's `insts` list from the goroutines that exist, so that an orphan is a live
generation nobody lists. A client is an RPC handler (`Rpc`), a goroutine that
nobody waits for (`Background`) or the goroutine of `daemon.Run` (`Main`). An
RPC handler may also be a streaming `logs -f` (`Follow`), which lasts until its
client hangs up (`HangUp`). A step is one critical section of `m.mu`, one wait,
or the cancelling of the collected instances; `opMu` is a variable, `m.mu` is
not, as no step waits inside it.

`Begin...` takes `opMu`, resolves the selector and collects; `CancelCollected`
and the `Finish...` actions are `stopInstances` and what follows; `Reload...` go
slot by slot. `Settle` drops the cancelled mark of instances whose end has been
waited for, by a stop, a restart or `StopAll`: nothing reads it again, and fewer
states differ. `ReturnUnchanged` stands for every return that changed nothing, an
error or `ResetCounters`. Of an instance only its end matters (`InstanceEnds`,
the abstract lifecycle): `waitInstanceOnline` gives up after a timeout and so
promises nothing that a property could use.

Shutdown: a signal cancels the manager's context, the Kill RPC does not;
`GracefulStop` waits for RPC handlers, followers among them (`Drained`); then
`StopAll`, then the exit (`exited`). When `Serve` returns an error of its own
(`ServeFails`, `failing`) `StopAll` follows at once, beside handlers that are not
waited for, and the exit is `failed`; `NoneOutlivesDaemon` says nothing of it.

Bounds: an app with two instances and one with one; two RPC handlers; two
generations per label, which is one more than correct code needs; two environments;
ids 1 and 2, restored or assigned (the third is not admitted), so that an app can
have an id above the number of apps. 136 thousand states; with ids up to 3 the
safety properties were checked as well (386 thousand).

Fairness: clients holding `opMu` go on (WF); the mutex starves nobody (SF on
acquiring, also for `StopAll`); a cancelled instance ends, which is `CancelEnds` of
`Supervisor` with its condition: with an escaped descendant it would not hold. No
client has to hang up.

What the runs show: `manager` checks that no slot runs twice
(`OneLivePerLabel`), that every live goroutine is listed or about to be stopped
by the holder of `opMu` (`NoOrphanGoroutine`), that an id selects one app
(`UniqueIds`), that instances run with their app's environment (`SpecCurrent`),
that a reload has one slot down at a time (`RollingReload`), that nothing
outlives a shutdown that was asked for when only RPC handlers call the manager
(`NoneOutlivesDaemon`), that calls return (`CallsReturn`), and that a shutdown
ends once no log is being followed, or after an error of `Serve`
(`ShutdownEnds`; without that premise it does not hold, see Findings).
`manager_background` adds a background caller and loses `NoneOutlivesDaemon`.

### Deployer

One app name; names do not interact. `phase` is `d.states[name]`, `tree` the state
of the checkout, `jobs` the `runDeploy` goroutines, `desk` what each receiver of
fleet commands is doing. The checks against the manager (`Check`) and the check
of `d.states` (`Refuse`, `Accept`) are two steps, as in `Start`, `Redeploy` and
`Commit`; `Manager.Delete`, the removal of the entry and `os.RemoveAll` are three.
The command gives its selector to `Manager.Delete`, which resolves it, and to
`Forget`, which takes it for a name: `Delete` is the delete by name,
`DeleteBySelector` the one by id or of all, for which `Forget` finds nothing. Apps
whose name is another app's id, or "all", are left out. A checkout is *lacking* when
it is without a file that its commit has: the rollback of a create or rename
removes the path also where a tracked file is (`RolledBack`).
The daemon's own RPCs start and delete an app of that name without looking at
`d.states`. A command that fails its check changes nothing and is not a step.

`torn` records that a `Forget` met work in flight (or an app launched since the
delete began); the safety properties of the passing run are about behaviours
where it did not, everything else is free: two handlers, stale checks, local
RPCs. `dropped` records a successful delete since the last accepted deploy: of the
app, or of the app, its entry and its checkout.

Bounds: two handlers, one deploy goroutine at a time. A second goroutine of the
same name needs a Forget that met work in flight, after which the properties
promise nothing but `PhaseEnds`. 82 thousand states; the theorems are for any
number of goroutines.

Fairness: jobs and handlers go on (WF). `runDeploy` uses
`context.Background()`, so nothing bounds git or the build; that they end is an
assumption on them, and `PhaseEnds` is worth as much.

What the runs show: `deployer` checks that the entry in `d.states` is a lock on
the checkout (`Exclusive`), that apps are started and restarted from completely
built checkouts only (`SwapOnSuccess`), that a commit leaves no uncommitted edit
behind and a failed fetch an entry that says so (`TreeSettled`), that a deleted app
stays gone for commands whose check came before the delete, with its checkout if
the delete named it (`DeletedIsGone`), and that no entry stays in flight
(`PhaseEnds`). `deployer_delete` and `deployer_duplicate` show two ways in which the
entry is not enough.

### FleetLink

One agent, its streams numbered in the order they are opened. A connection is
whole or `cut`; the agent notices with `StreamError` and opens the next stream,
the server's `Connect` handler of the old one notices later (`RecvError`), so
that handlers of several streams run side by side over one registry entry, one
session and one store. What was on its way up may still be read after a cut,
what is sent afterwards goes nowhere although `Send` may succeed.

`handler[s]` is the place of a stream's handler: `Hello` (open, register) and
`Ack` (read `MaxTs`, send) are two steps, as a command of the new session may
get in between; `storing` appends group by group, each of which may fail;
`closing` lies between the registry's `Close` and the deferred teardown. A row
is its number: the store's time stamps, distinct and increasing. A call goes
through `got`, `send`, `waiting`, as `dispatch` does without a lock held
throughout. `RecvAck` takes the first message for the ack, whatever it is.

Left out: the log watermark (same path, another store), `Evict`, backoff,
certificates, the commands themselves.

Bounds: one caller, two streams, two rows and commands together: an old handler
beside a new one, an id used on both, a batch re-sent while it is stored (about
60 thousand states). Deadlock is not checked: the agent stops when its streams
are used up.

Fairness: goroutines that can run do, the push ticker fires, both ends of a
broken connection notice some time: the agent because it keeps sending, the
server by gRPC's default keepalive (hours; the code sets none). Nobody has to call and no deadline has to
pass: `CallsReturn` must not depend on it.

What the runs show: `fleetlink` checks that below the newest stored row none is
missing unless an append failed (`PrefixStored`), that a result reaches only the
call it belongs to (`ResultOfOwnCommand`), that a call returns when its stream
answers or goes (`CallsReturn`, except for a command that overtook the ack), and
that an agent whose stream holds is shown as connected again although an old
handler has closed its entry (`ShownConnected`).

### SavedApps

`apps` is the manager's list, `dump` and `tmp` are the inodes that have the names
`dump.json` and `dump.json.tmp`, `file` what is in them: a list, nothing yet, or
parts of two lists. A saver is a handler or goroutine inside `Save`: `Take` copies
`mgr.Specs()`, then each system call is a step (`OpenTmp`, `WriteTmp`, `Rename`,
and in `Return` the deferred remove with the answer). Whoever has the temporary
file open writes into it also when another save has renamed it, as nothing
serialises the callers: the RPCs `Save` and `UpdateEnv`, fleet starts and deletes
and the deployer's `Launch`. A shorter list written over a longer one leaves its
end behind (`Overwritten`). `LocalChange` is what changes the list and saves
nothing: the daemon's own start and delete, and a fleet start that failed at a
later app. `Crash` kills the daemon between any two steps, `Boot` adds the saved
apps.

History: `promised` remembers what the answer to an operation has made the caller
believe; a later change of the app releases it. `sound` says that the save
`dump.json` comes from met no other. `Crash` is a kill of the process, not a loss
of power: nothing is synchronised in `Save`, and no disk error is modelled. An
operation changes one app; one that changes several is a `LocalChange` before it.

Bounds: two savers, two apps, one spec, three inodes (a name each and one that is
open without a name): every way in which two saves can meet, with kills among
them (2 million states under symmetry).

What the runs show: `savedapps` checks that a kill at any point leaves a list that
can be loaded (`Restorable`), and that what a finished operation has saved is in
it and comes back at the boot (`PromiseKept`), unless saves met in the one the list
comes from; the next save that meets no other makes up for it. `savedapps_meeting`
shows what becomes of the list when they meet.

### The dashboard's pages

Six modules, one per page, each with the part of the server it talks to. A call
is asked, served and answered in three steps, so that anything may happen in
between; a served call may lose its answer, a lost request changes nothing. What
a handler closed over when the user clicked (path, draft, selection) is in the
call's record. An effect's cleanup flag (`stop`, `live`, `cancelled`) drops the
calls of the earlier run; calls without such a flag survive a page that is left
(`mounted = "away"`) and still change the server. History variables (`listed`,
`disturbed`, `loaded`, `aside`, `late`, `untold`, `trouble`) record what the
properties except, and no guard reads them.

* `FileBrowser`: a path is the sequence of its names. `tree` is the checkout;
  `ServeListing`, `ServeCommit` and the reads are the agent's; a commit is
  carried out, refused, or rolled back. An empty directory is answered with
  null, on which rendering throws: the error boundary replaces the page.
* `LogStream`: a row is its number; `Shows` says which tags a selection has.
  `Since` is the query. `disturbed` records overlapping ticks or a pause since
  the reset, after which lines may be shown twice.
* `Errors`: occurrences of a signature are counted; an acknowledgement holds up
  to the count at which it was made, or further, for one that recurs in the same
  second (`dashboard/errors.go` compares whole seconds).
* `Notifications`: the store is read under several locks one after the other
  (`getNotifications`); here it is read at once. Of a channel there is the type
  and whether, and of which type, a secret is kept; of the settings the cooldown.
* `Credentials`: the set of names, the form's lock, and the status with its timer.
* `Session`: whether the client believes to be signed in, whether the server does.

`Dashboard` explores the pages one at a time, as the router shows one at a time
and they share no state. `Checkouts`, `ErrorLists` and `Forms` are functions
whose values are the parameters of a file browser, an errors page and a
notifications page; `onScreen` says which page, and which of these, is shown.
`MCDashboard` gives the three functions their values, and with the other pages
there are twelve instances, as some pages have parts that are independent of
each other (a checkout with directories, one whose files are edited, and one
whose page is left with a commit under way; the errors page, an error that
recurs, and the badge; channels, rules, and settings). Bounds of each, in the
module: two calls of a kind under way, so that one may overtake the other; two
or three names, rows or signatures; an error that recurs has an instance of its
own. Together about 466 thousand states. There is one client: what a second
browser changes on the server is left out.

A few operators are defined here although the community modules have them
(`IsPrefix`, `RemoveAt`, and `OldestFirst` of `LogStream`, which sorts rows by the
number of those before them): theirs rest on recursive definitions, out of the
reach of the proofs.

Deadlock is not checked: a paused log whose rows are all logged stops.

Fairness: intervals fire (WF). Requests are sent again at every tick, so of
those sent again and again one is served and of the answers one arrives (SF).
Nothing is assumed about any one request.

What the run shows: `busy` is a lock on commits (`BusyIsLock`, checked with
`Listed`); a listing shown is that of the directory in the crumbs, commits
included (`Listed`); the lines of a log belong to its selection, each once and
in order (`LogShown`), and a watched log catches up (`CatchesUp`); the errors
page shows what the server has, its own acknowledgements included
(`ErrorsCurrent`), and the badge converges (`BadgeConverges`, checked with
`CatchesUp`); the notifications page at rest shows the store (`CfgCurrent`); an
error message is not taken away by an older timer (`ErrorStays`); a login ends
for a reason of its own (`LoginHolds`).

## Findings

1. `supervisor_leftovers`: once the leader and the holders of its output have
   gone, `stop` returns and sends no SIGKILL (`instance.go:224`); README 219-220
   promises SIGKILL to survivors and no orphans.
2. `supervisor_escaped`: after SIGKILL `stop` waits for `cmd.Wait` without bound
   (`instance.go:228`): a descendant in another session that holds the output
   keeps `Run`, and with it `opMu`, for ever.
3. `manager_background`: callers that `GracefulStop` does not wait for may start
   instances after `StopAll` (`server.go:480`); they outlive the daemon.
4. `deployer_delete`: `Forget` does not stop a deploy in flight, which launches
   the deleted app afterwards; `command.go:84` calls it cleared.
5. `deployer_duplicate`: `Start` checks for a duplicate before it takes the lock
   (`deployer.go:153`): a second deploy may wipe a running app's checkout.
6. `savedapps_meeting`: `store.go:66` calls `Save` atomic, but two saves at once
   share `dump.json.tmp` (`store.go:75`): one renames what the other has just
   truncated. `dump.json` is empty for a moment or, after a kill, for good; when
   both write it may keep parts of two lists until the next save.

Behaviours of the models that contradict a text, kept without a run of their own:

* a hook without a restart (`Supervisor`, `owed = 1` when `errored`): `onRestart` is
  called before the crash-loop check gives up (`instance.go:198`); the comment at
  `:54` excludes no-restart paths;
* a kill that does not end (`Manager`, `draining` with a follower for ever):
  `GracefulStop` waits for a `logs -f` (`server.go:475`) before any app is stopped;
  the design of m2 lets `marshal kill` stop the apps and exit
  (`docs/superpowers/specs/2026-06-16-marshal-agent-core-m2-daemon-design.md:134`);
* a file lost in a rollback (`Deployer`, `tree = "lacking"`): that of a create or
  rename removes the path after `reset --hard` (`mutate.go:167`), also a tracked
  file; the design of commits promises a tree that "always matches origin"
  (`docs/superpowers/specs/2026-06-20-commit-push-design.md:196`);
* a delete that leaves the checkout (`Deployer`, `dropped = "app"`): by id or of all,
  `Forget` gets the selector for a name (`command.go:82`); the design of git deploys
  has entry and directory removed
  (`docs/superpowers/specs/2026-06-19-git-deploy-design.md:181`);
* a commit beside a deploy (`Deployer`, where `torn`): once `Forget` has dropped the
  entry of a deploy in flight, a commit is accepted, which the comment on `Commit`
  excludes (`deployer.go:200`);
* two rows the same (`FleetLink`): a new stream reads the store's maximum
  (`server.go:119`) while the old stream's handler still stores a batch; the agent
  ships those rows again and both are kept. The design of m8 promises that no
  duplicate rows result;
* an operation answered and not saved (`SavedApps`, where `sound` does not hold): the
  save of a fleet start fails, because another has taken its temporary file, or is
  overtaken by one with an older list; `command.go:45` drops the error.
  `command_test.go:66` tests the list without a second save.

Seen while reading, without a run:

* a redeploy's `failed` entry stays until a delete, though the design note calls
  it transient (`docs/superpowers/specs/2026-06-19-git-deploy-design.md:205`; the
  handoff of M22 knows it);
* the first message is taken for the ack (`client.go:190`): a command that
  overtakes it is lost, and a minted token too; a token minted with an ack that
  never arrives leaves the agent refused as already enrolled (`auth.go:232`);
* a failed `Append` leaves a gap that is not shipped again (`server.go:168`);
* signing out tells the server nothing (`AppShell.tsx:116`); any failed fleet
  poll ends the login (`Overview.tsx:43`, `ProcessDetail.tsx:78`);
* an empty directory ends in the error boundary (`FileBrowser.tsx:51`); entries
  of the previous directory are joined with the new path until its listing comes
  (`:57`); the answer to a save replaces a file opened since (`:73`);
* pausing and resuming a log, and ticks that overlap, show lines twice
  (`useLogStream.ts:32`);
* "acknowledge all" stops waiting at the first failure (`Errors.tsx:58`);
* a channel written without secrets keeps those of another type
  (`notify/store.go:116`); the settings form is not refreshed by a reload
  (`Notifications.tsx:426`); reloads are shown in the order of their answers
  (`:56`);
* `control` and `addApp` are said never to throw (`api.ts:146`, `202`), but
  `fetch` rejects, and the flag of the caller stays set (`AddAppModal.tsx:86`,
  `RestartAllButton.tsx:13`, likewise `Credentials.tsx:53`); a list of
  credentials that is refused is shown as empty (`api.ts:250`).

## Theorems

`SupervisorProofs` proves, for every set of modes and every `MaxRestarts`:
`SupervisorTypes`, `SupervisorWatched`, `SupervisorSpawnBudget`,
`SupervisorPublishedTruth`, `SupervisorEndVerdict`, `SupervisorAccounts`,
`SupervisorHookPerRestart`, `SupervisorStopWins`, and
`SupervisorImplementsLifecycle` (`Spec => LifecycleSpec`).

Assumptions: `ModesAssumption`, `MaxRestartsAssumption`, and
`RestartCapAssumption`, which places the bound of the total above the limit.

The argument: the properties are not inductive, because they say nothing of the
places between two published states. `StateAt` says what is published at each
place of `Run`; `Decided` says what `handleExit` has established on its way: a
restart is wanted from `account` on, the copy judged is the counter or the
counter was reset since, and outside the accounting the budget is not exceeded.
With them the conjunction `IInv` is inductive (`InitIInv`, `StepIInv`: one step
per action, one leaf per conjunct). The refinement is a case split on the
actions from `IInv`. `SupervisorAccounts` says that the counters agree although both
are reset from outside. `StopWins` follows from a second invariant: once the request has
found a process or its exit, no step leaves the places of a stop (`BeingStopped`).

`DeployerProofs` proves, for any number of handlers and deploy goroutines:
`DeployerTypes`, `DeployerExclusive`, `DeployerTreeSettled`,
`DeployerDeletedIsGone`, and `DeployerSwapOnSuccess`. The run has one goroutine;
the theorems cover those that a Forget left behind as well.

Assumption: `NoJobAssumption`, that `NoJob` is not a job.

The argument: what `Exclusive` says of the entry in `d.states` makes the one
goroutine at work the owner of the checkout. `JobKnowsTree` says how far it has
got, `PartialExplained` who is to blame for a half written tree, `EditOwned` that
an uncommitted edit is that of the commit under way, which knows what to return
to, and `NothingComesBack` that after a delete, by whichever selector, no
goroutine but a redeploy's is at work, which finds no app to restart. All hold where no Forget broke into work in flight, so that the conjunction
`IInv` is inductive (`InitIInv`; `JobStepIInv`, `AcceptIInv`, `CommitStepIInv`,
`ForgetStepIInv` and `StepsAside`, one per kind of step, put together in
`StepIInv`). TLC checked `IInv` before the proof.

`ManagerProofs` proves, for any apps, numbers of instances, environments and
callers: `ManagerTypes`, `ManagerOneLivePerLabel`, `ManagerNoOrphanGoroutine`,
`ManagerSpecCurrent`, `ManagerStableIds`, `ManagerUniqueIds`, `ManagerRollingReload`, and, where
`Background = {}`, `ManagerNoneOutlivesDaemon`; without that condition `manager_background` refutes it.

Assumptions: `DistinctAssumption` (callers, `Main`, generations and environments
are not `NoOne`, `Main` is no caller) and `MaxIdAssumption`.

The argument: `opMu` is a lock, held by whoever is past its acquisition
(`Mutex`). A live goroutine is in its slot or among those the holder has collected
and not yet replaced (`LiveListed`, the inductive form of `NoOrphanGoroutine`,
which alone would allow a client to keep a list it has finished with); the same
goes for environments (`CurrentOrStopping`). `RestartKnows` and `ReloadKnows` say
that what the holder collected covers the slots it will fill, and `MainKnows`
that `StopAll` runs after the draining and has collected everything listed. What
is true when the holder has waited (`DoneMeansListed`) and what a start makes of
it (`Replaced`) are the two lemmas behind every way of giving the lock back. For
the exit, `DrainedFirst` leaves `Main` as the only client with a step, and
`NothingLeft` follows from `MainKnows` when `StopAll` returns. For the reload, an
instance in a slot is marked cancelled only while the holder of `opMu` stops it
(`CancelledStopping`): every way of finishing a stop takes the marks away, empties
the slots or fills them anew, which needs that a restart stops nothing but what it
starts again (`RestartOwn`) and that no listed slot is empty (`ListedRuns`). A
reload stops the slots of one label at a time (`ReloadOneSlot`), so two marks in
listed slots are two of that label. For the ids, the one `Add` assigns is in use by
no app (`AssignIdTypes`), no other step adds one, and none changes one
(`ManagerStableIds`). TLC checked the invariants
first.

`FleetLinkProofs` proves `FleetResultOfOwnCommand` for any number of callers,
streams, rows and commands, cuts and timeouts: a command id is drawn once, a
message or a result in flight carries the id and the argument it was sent with,
and a pending entry belongs to the call that drew its id.

`FleetStoreProofs` proves `FleetPrefixStored` and `FleetTypes`. For the first, that the store has no gap
below its newest row is not inductive: one has to say what is below the rows under
way. `StoreInv` says that a batch, queued or being stored, is an interval, that
every row below one of its rows is stored, in the batch being stored on the same
stream, or ahead of it on its way up (`BatchFits`, `MessagesFit`), that the same
goes for the rows up to the agent's watermark (`WatermarkFits`), and that what an
ack covers is stored (`AcksFit`). TLC had met no violation of `StoreInv` after ten
million states of an instance with three streams and three rows, a search that was
not completed. Both modules use `LinkAssumption`.

Two conjuncts of `TypeOK` make `FleetTypes` more than bookkeeping: a row is stored
at most once per stream, and the ids of a session stay within the commands called.
A stream *owes* a row that it has still to send, has under way, or is storing.
Copies stored and streams that owe one are together at most `MaxStreams`
(`Copies`): a stream sends a row once, because its watermark only rises and one
batch at most is under way (`SentOnce`, `OneBatch`), and a stream that has yet to
open owes every row and carries none (`ToCome`). The ids drawn in a session, with
the callers that hold it and have not drawn theirs, are at most the commands called
(`IdsFew`). TLC checked the invariant first (1.5 million states with three
streams).

`PagesProofs` and `DashboardProofs` are about every choice of `Checkouts`,
`ErrorLists`, `Forms` and the constants of the other pages. A page moves only
while it is on screen, so each invariant is one of a page's own steps (`OnePage`
and its companions say that an instance is on screen alone). Assumptions, all in
`Dashboard`: what the parameters of the pages are (`CheckoutsAssumption`,
`LogAssumption`, `ErrorListsAssumption`, `FormsAssumption`, `MaxTimersAssumption`)
and that markers differ from the answers they stand beside
(`MarkersAssumption`).

`PagesProofs` proves

* `DashboardLoginHolds`: an answer that ends a login was asked for in that login,
  because polls are thrown away with the page that started them (`LoginInv`);
* `DashboardErrorStays`: no timer of an earlier success runs while an error shows
  (`NoTimerOnError`);
* `DashboardErrorsCurrent`: unless an acknowledgement was served that is followed
  by a reload, and is still to be answered, both the page and what it loads are
  as the server has them (`ErrorsInv`, in it `Current`);
* `DashboardCfgCurrent`: reloads that may be shown out of order are older than
  one that may not (`LateFirst`); unless a write is about to start a reload, or
  will never tell the page, the last reload will show the store, or the display
  does (`StoreShown`).

`DashboardProofs` proves

* `DashboardListed`: commits exclude each other (`OneCommit`), a listing under way
  is for the directory in the crumbs (`ListsPath`), and unless a pushed commit is
  about to make the browser list again, the listing under way and the entries are
  those of the checkout (`ListingCurrent`);
* `DashboardLogShown`: the calls and answers of a log belong to its selection
  (`Asked`), and while ticks do not overlap the lines are a gapless stretch of its
  rows, up to the cursor, which the answer under way continues (`InStep`). It
  needs that `OldestFirst` sorts (`OldestFirstSorts`), that a sorted list is the
  only one (`AscendingIsOldestFirst`), and what joining and capping keep
  (`SegmentJoined`, `CappedKeeps`);
* `DashboardTypes`: the types of every page on screen.

TLC had checked these invariants on small instances before the proofs.

`SavedAppsProofs` proves, for any number of savers, apps, specs and inodes:
`SavedAppsTypes`, `SavedAppsRestorable`, `SavedAppsPromiseKept`. Assumptions:
`NoneAssumption`, `OpenAssumption` and `ContentAssumption`, that the markers are
neither names nor lists.

The argument: a save that has met no other owns the temporary file, which is never
the file `dump.json` (`TmpApart`): it is the one the save opened, then holds its
list, then is `dump.json` (`OwnFile`). Its list has all that was promised before
(`ListKeeps`): a promise is for what the app is now (`AppsKeep`), and nobody else
answers meanwhile. `SoundAlone` says that while `sound` holds every save under way
is such a one, `AloneMeets` that there is then only one. TLC checked `IInv` first
(383 thousand states, one app of two specs).

Only model-checked: all liveness, which is out of the prover's reach (`CancelEnds`
and `CrashLoopEnds` of `Supervisor`, `CallsReturn` and `ShutdownEnds` of `Manager`,
`PhaseEnds`, `CallsReturn` and `ShownConnected` of `FleetLink`, `CatchesUp`).

## Not modelled

* Wording, formatting, layout, logging, configuration parsing, cryptography,
  SQL beyond the queries named above, samplers, generated code.
* Crashes of the daemon outside `SavedApps`: of the other modules' state only
  checkouts survive one. `fleet.json`, written the same way by one command at a
  time. Loss of power and disk errors.
* Detection, coalescing and cooldown of alerts, the memory guard, the login
  limiter: arithmetic over the clock more than interleaving. Notifications are
  modelled as far as their store and page.
* Rings, files and buffers of instance logs; that a follower holds up the shutdown
  is in `Manager`.
* `m.mu` of the manager is held within a step only, so that one left locked by an
  early return is not a behaviour of `Manager`.
* Of `FleetLink`, the next push while messages of the last are on their way; of
  `SavedApps`, a kill between two apps that a boot adds; of `FileBrowser`, that a
  commit removes one of the empty directories a build has left.
* Authentication files and enrolment, beyond the refusal of a second enrolment.
* Of the web client: charts, filters, the modals that start an app or print a
  command for connecting an agent, and the restart buttons, each one call behind
  a flag that disables it.

## What could come next

That `opened` connections and the registry entry agree, as a theorem of
`FleetLink`; a crash in `Deployer` composed with `SavedApps`; the alert pipeline
over discrete time.
