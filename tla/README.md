# PrismPanel: specifications, checks and proofs

PrismPanel manages Minecraft servers on many machines. A *panel* (web server
and database) talks to a *daemon* on every machine; the daemon supervises
*instances*, the game processes, through a local service, *prism-sessiond*,
that owns them so that they survive the daemon. This directory holds TLA+
specifications of the parts of that system where interleavings, failures and
restarts make correctness hard, the TLC configurations that check them, and
proofs checked by TLAPS. Source paths below are relative to the repository.

`PROJECT.json` lists the components, the runs, the mutants (for every checked
property a plausible bug it catches), the source lines each definition stands
for, the known disagreements between code and documents, the hazards and the
theorems.

## 1. Inventory

### Components

| component | state | operations | talks to |
|---|---|---|---|
| prism-sessiond, `sessiond/internal/service`, `host` | map of sessions, per host: process, socket, state file, clients, backlog of 256 lines | session.start, inspect, kill; attach, input, output; orphan watch; restore | daemon, over local sockets |
| instance supervisor, `daemon/internal/supervisor` | per instance: state, session, operation mutex, reservation flag, restart history; map of instances | Start, Stop, Kill, Restart, DeployInstance, file mutations, ReserveDeployment, automatic restart, RecoverSessions, StartAuto, Shutdown | sessiond; called by API, deployments, files, plugins |
| console, `supervisor/types.go`, `daemon/internal/api/console_snapshot.go`, `ConsoleOutput.vue` | per stage: numbered lines, a backlog, a queue per reader | output, subscribe, replay, snapshot, drop of a slow reader | sessiond, daemon, browser |
| mirror deployments, `daemon/internal/deployment` | tasks, active task per group, image locks, directories | Start, StartImageSyncBack, Cancel, WithImageMutation | supervisor, file system |
| server registry, `daemon/internal/server`, `store`, `supervisor/manager.go` | configurations in memory, on disk, and per instance | Create, Update, Delete, load at start | supervisor |
| plugin link, `supervisor/plugin.go`, `daemon/internal/api/plugin.go`, `DaemonBridge.java` | connection of an instance, pending requests, worker of a request | register, replace, request and answer | in-game plugin |
| operator lists, `supervisor/operators.go`, `panel/internal/store/operators.go`, `api/operator_handlers.go` | a panel's list and revision; the daemon's sources and revision, in memory and in a file; the plugin's revision | change, activate, reconcile, merge, save, apply, report | plugin link, control link |
| proxy synchronisation, `supervisor/proxy.go`, `panel/internal/api/proxy_sync_handlers.go` | rules, catalogue with its revision, status | select, sync, apply, restore | plugin link, control link |
| control connections of the daemon, `daemon/internal/api`, `eventbus` | clients with queues of 256 messages | request, broadcast, console snapshot | panel |
| daemon connections of the panel, `panel/internal/daemon`, `nodes` | connection, pending calls, status per node; table of nodes | Run, Call, Upsert, Remove; Create, Update, Delete of nodes | daemon |
| scheduled tasks, `panel/internal/schedule`, `store` | tasks with a due time, runs with targets | CreateTask, UpdateTask, Delete, RunNow, processDue, execute, recovery at start | daemon connections, database |
| file service, `daemon/internal/files` | upload sessions, recycle bin | chunks, status, cancel, expiry; copy, move, delete, archives | supervisor, deployments |
| daemon plugins, `daemon/internal/plugins` | queue of pending operations per instance, jar files, baseline hashes | deploy, enable, disable, uninstall, apply at start, scan | supervisor |
| firewall, `daemon/internal/firewall` | rules, applied hash and grants in memory; file; kernel table | rules, system access, grants, drift check | nftables |
| tickets, `daemon/internal/ticket` | tickets by id and token | create, consume, revoke, expire | API, firewall |
| operations on files, `panel/internal/api/file_handlers.go`, `store/file_operations.go` | row per operation, audit log | authorise, close by message, close when overdue | daemon, browser |
| accounts and permissions, `panel/internal/auth`, `store` | users, groups, overrides, sessions, keys, login attempts | initialise, login, logout, change, delete, grant | handlers |
| file synchronisation, `panel/internal/api/file_sync.go` | tasks with items | start, cancel, retry | several daemons |
| network game collector, `panel/internal/netgames` | account, runs, games | collect, refresh, purge | external API |
| plugin repository, `panel/internal/plugins` | release directories, index, catalogue rows | upload, delete, scan, import | database, file system |
| client releases, metrics, handlers, configuration | files, rows, samples | uploads, listings, sampling | |
| in-game plugins, desktop client, web frontend | | | daemon, panel |

### What is hard, and what correctness means

* **prism-sessiond.** The check and the insertion of session.start are two
  critical sections; four goroutines of an ended session run in any order; the
  service may die while its children live. *Correct*: one process per instance,
  no process it owns is lost, nobody's process is killed in the end, a dead
  session does not block the next start, a restart finds the sessions again.
* **Supervisor.** Operations hold a mutex, but the goroutines that notice an
  exit, the restart timers and the boot sequence do not. The daemon may exit
  between any two steps, the link to a host may break. *Correct*: operations
  exclude each other and end, the shown state agrees with the processes, a stop
  is never taken back, one consumer per process, every process has an owner or
  ends, files are replaced only under a stopped instance.
* **Console.** Three stages number, keep and forward lines, each with a queue
  that drops a slow reader; replay and live lines meet. *Correct*: what a
  browser shows has no hole and no repetition, and catches up.
* **Deployments.** A directory is replaced by a sequence of renames, each of
  which may fail, be cancelled or be the last thing the daemon does. *Correct*:
  a whole copy exists at all times, the recycle bin moves along, tasks of a
  group exclude each other and file operations on the image, a final status is
  true and final, everything reserved is given back.
* **Registry.** Three copies of a configuration are changed one after the
  other with rollbacks, while requests hold pointers to instances. *Correct*:
  the copies agree between requests, the saved files can be loaded, nothing
  changes under an operation, no running instance is forgotten.
* **Plugin link, operator lists, proxy synchronisation.** A plugin reconnects
  while commands run and answers travel; answers carry numbers that begin anew
  on every connection; what was sent to the old connection is not repeated.
  Lists of several panels are merged, saved and sent on. *Correct*: a revision
  has one content wherever it is, and once links hold everyone has the newest.
* **Scheduled tasks.** A task is listed, then claimed; a run outlives the
  request that made it but not the process. *Correct*: at most one command per
  due time and target, recorded runs tell what happened, none stays open.
* **Daemon connections.** A node may be changed or deleted while it connects;
  answers come late, events in any order. *Correct*: the connection and status
  of a node are those of its row; each call gets its own answer or an error.
* **Files, plugin files.** An upload is many requests, with a timer that forgets
  it; a file is replaced by way of the recycle bin while the server writes
  beside it; plugin operations wait in a queue on disk for the next start.
  *Correct*: what nobody meant to destroy can be recovered, an upload ends, an
  installed plugin stays, the last request wins.
* **Firewall, tickets.** The kernel's table outlives the daemon and belongs to
  nobody; scripts, inspections and writes fail separately. *Correct*: what the
  service calls its own is what it shows, and a session's source stays open.
* **Operations on files.** A result is told once, over a link that may break,
  and a job closes what is overdue. *Correct*: every operation is audited, and never as two things.
* **File synchronisation.** A retry starts beside a cancelled walk.
  *Correct*: it ends, and what is shown as completed has arrived.
* **Accounts.** A request decides on what an earlier statement read.
  *Correct*: somebody can administrate, and ended sessions stay ended.
* **Collector, repository.** Work is dropped when a worker is busy; writes are
  cut by errors and stops, files changed by hand. *Correct*: every game gets its
  turn; after a clean scan releases, manifests and index agree.

## 2. Modules

| module | lines of the system it stands for |
|---|---|
| `SessionManager` | prism-sessiond |
| `Supervisor` | supervisor on top of prism-sessiond: it EXTENDS `SessionManager` and its callers are the daemon's goroutines |
| `Lifecycle` | what the supervisor promises of an instance to those who look at it; `Supervisor` implements it |
| `Console` | the lines of one instance from the process to the browser |
| `Deployment` | the tasks of one mirror group and its directories |
| `ServerRegistry` | configurations, instances as objects, requests and deployments that hold them |
| `PluginLink` | the connection between a daemon and the plugin of an instance, with its requests |
| `OperatorSync`, `ProxySync` | what goes over that connection, from the panel to the plugin: both EXTEND `PluginLink` |
| `ControlLink` | the control connection: the panel's Client with its calls, the daemon's handler, queue and hub |
| `RemoteCall` | what a call promises its caller; `ControlLink` implements it |
| `NodeConnections` | one node: its row, the requests that change it, the Manager's map and status, the life of its Clients |
| `Schedule` | scheduled tasks |
| `Accounts` | users, groups, sessions and keys as rows, requests as statements and transactions |
| `FileService` | one root of files: operations, recycle bin, one upload with its frontend |
| `PluginFiles` | one plugin of one instance: direct and queued operations, starts, scans |
| `Firewall` | rules, system access, grants and tickets of a node, and the kernel |
| `FileOperations` | a user's operation on files from the browser to the audit log |
| `FileSync` | one synchronisation task with its walks |
| `Collector` | collection runs and detail refreshes |
| `PluginRepository` | one plugin of the panel's repository |
| `SessionManager_proofs`, `Supervisor_proofs`, `Deployment_proofs`, `Schedule_proofs`, `ServerRegistry_proofs` | theorems about the module of that name (section 4) |
| `PanelConnections_proofs` | theorems about `NodeConnections`, and `ControlLink` with `RemoteCall` |
| `PanelServices_proofs` | theorems about `Accounts`, `FileOperations`, `FileSync`, `PluginRepository` |
| `DaemonServices_proofs` | theorems about `Firewall`, `Console`, `FileService`, `OperatorSync`, `PluginFiles` |
| `MC...` | model values and bounds for the runs |

**SessionManager.** `sessions`, `listening`, `stateFile` are the service's map,
the owner of each socket path and of each state file. `phase`, `inst`, `alive`,
`doomed`, `watchers`, `cleaners`, `clients` are the parts of a SessionHost and
its pending goroutines. `cpc`, `cinst`, `chost` are the handler of a
session.start between its two critical sections. `stuck` are the hosts that keep
their mutex: a write to a process that does not read (`StdinBlocks`), or a
subscription that came after the exit and fills its own channel (`SubscribeBlocks`).
Nobody attaches to such a host and its end is not published. Actions are stretches of code
between two points where another goroutine can run: `StartRequest`, `Spawn`,
`Insert`, `Watch`, `FinishExited`, `FinishDone`, `OrphanKill`, ... A host
identity is reused when nothing refers to it any more.

**Supervisor.** `state`, `session`, `expectedExit`, `op`, `deployLocked`,
`restarts` are the fields of an instance; `pc`, `job`, `target` the goroutine of
a request; `open`, `done`, `waiting`, `connHost`, `connInst` the control
connections. An attempt that finds the mutex taken or the instance reserved
answers INSTANCE_BUSY and changes nothing, so it is no action. Start, stop,
kill and restart share their steps as the code shares startLocked, stopLocked
and forceKillAndWait.

**Lifecycle.** The life of an instance without goroutines, connections and
prism-sessiond: the phase of the daemon, who holds an instance, what it shows and
the link to its process ("none", "open", "ended" and not yet noted). There is an
action per fact a user can observe: an operation is taken and released, a start
begins, runs or fails, a stop begins or finds nothing, files are deployed, a process
ends and the end is noted, a recovery takes over what still runs, a shutdown lets go.
`Supervisor` maps `holder` to `op`, `shown` to `state`, `link` to `session` and `open`,
and the phase to `daemon` and the place of main. What this forbids is what a late
waitSession, a timer or a recovery could do to an instance behind an operation:
open a second process over an open one, show an end before it came or while a new
process runs, leave an instance starting or deploying with nobody at work, take a
stop back.

**Console.** `host` and `feed` are SessionHost.lines and the daemon's
subscription, `link` and `dconsole` the daemon's attachment and
instance.consoleLines, `watch` a subscriber of the daemon, `term` a
ConsoleOutput component. A line is its number at the host; the daemon gives it
one of its own, and a boot of the daemon begins at one again. A queue is
merged with the socket it feeds.

**Deployment.** A directory is a record of the task that built its content (or
"part") and whether it holds the recycle bin; `live`, `temp`, `back` are the
directory in place, the one being built and the one moved aside. Each rename,
copy and removal of deployFiles and syncInstanceBackToImage is an action with a
failing variant; leftover temporary directories and backups refuse the next
task. An instance is `running` or not, and `adrift` if it runs and the daemon has
lost the link to it: DeployInstance and a stop then take it for stopped
(`Attached`), and the files are replaced under the process. How a stop ends a
process is Supervisor's.

**ServerRegistry.** A configuration is the sequence of its ports. `servers`,
`disk` and `inst` with `obj` are the three copies; an object has a generation,
because a request that looked an instance up keeps its pointer while the map
goes on to another object. Requests to the service are serialised (`svc`).

**PluginLink.** `gen`, `linked`, `conns`, `seq` are the daemon's side, `sock`,
`authed`, `platform` the plugin's (DaemonBridge and the platform's scheduler),
`plWire` and `answers` what travels, `plWork` the goroutines that wait for an
answer. A command is answered over the connection the plugin has *then*, with
the number the request had on *its* connection. What a command carries is left
to the modules that extend this one.

**OperatorSync.** `panel` is a panel's database, `task`, `opMu`, `calls` its
handlers, its lock per node and the calls on their way; `operators`, `disk`,
`opLock`, `opSync`, `restoring` the daemon's registry, its file and the status
of the instance; `plugin` and `actual` SpigotOperatorRegistry and the server's
list. A list is identified with its revision at its panel. The daemon's own
revision is given when a source changes (`SavesSources`, then `Installs`).

**ProxySync.** `rules`, `port`, `pxUp` are what the catalogue is computed from,
`sync`, `syncMu`, `pxCalls` the panel's requests, `proxyCatalog`, `proxySync`
the daemon's side and `backends` the plugin's. A revision is a moment of the
panel's clock.

**ControlLink.** `call`, `via`, `box`, `pending` are a Call, the connection it
writes to, its channel and the pending map; `runner`, `local`, `conn`, `watcher`,
`ctxDone` are the two goroutines of Client.Run and the fields they share;
`server`, `done`, `hub`, `queue`, `work` are handleControl, controlClient and
controlHub; `up` and `wire` are what the network holds, `shut` and `broken` the
sockets the panel closed and the network lost. A disconnect is two steps, as it
takes two locks one after the other. A message that is sent is "auth", "event"
or the call it answers. `RemoteCall` has one action per fact a caller can learn;
the mapping takes `outcome` from `call` and `effects` from `effect`.

**NodeConnections.** `row` is the node in the table, `req` a request of
nodes.Service between its reads, writes and the critical sections of the
Manager, `managed` and `shown` the node's entries in Manager.connections and
Manager.statuses, `client` the Clients with the place of Run in `at`. A version
stands for a connection setting, so a client, a status and the runtime columns
can be told to belong to an old one. `races` remembers that two requests
overlapped or that a client which had been replaced reported, the two things
nothing in the code orders; properties name them where they are an exception.

**Schedule.** `task` and `run` are the tables; `loop` the tasks a cycle listed
and has yet to claim; `exec` and `part` the goroutines of a run and of its
targets; `saving` a request between prepareTask and its UPDATE; `sent` counts the
commands daemons received. A version per save tells edits apart.

**Accounts.** One variable per table (`account`, `override`, `sessionRow`,
`apiKey`, `staff`, `steward`), `rowLock` the row locks of open transactions,
`misses` the login limiter, `web` the requests with what they have read.
`age` counts what ends a user's sessions, so that a session can be told to be
older. A request may end between any two statements.

**FileService.** `file`, `bin`, `temp`, `session`, `expiring` are the root, its
recycle bin, the partial file, the session in memory and the timer that took it;
`op` the one operation that holds the root; `chunks` and `upload` the requests
under way and fileApi.js with its retries. `upload.may` are the contents the upload
may find at its target and replace: none, what its expected_version names, or
anything (overwrite); `LooksAtTarget` checks it before the publication. A resumption
asks for a grant and for the status and may fail at either (`ResumeFails`), which
nothing tries again. `kept` is what nobody meant to destroy. The server process
writes beside all of it.

**PluginFiles.** `jar`, `backup`, `pending`, `bundles` are what is on disk, `job`
what holds the instance's reservation, step by step, `baseline` and `told` the
hashes a start left, those a scan has read and the flags shown; `server` the process,
which may hold its file open. A deployment is two renames: the second may fail
(`SwapFails`), and so may the one that undoes the first (`RollbackFails`, whose error
the code ignores); on a running server either may be an error for which the
deployment is queued instead (`SwapIsQueued`). `asked` remembers the last request and
what was left aside.

**Firewall.** `fw` is the state in memory and file, `kernel` the table with the
sources it lets in, `seen` the flags of the last inspection, `grants`, `tickets`,
`ask`, `login` the way of a direct ticket. A table is named by what it enforces
and who wrote it; time passes in ticks.

**FileOperations.** `opRow`, `audits`, `noted` are the panel's rows and the audit
that is still to be written, `granted`, `browser`, `daemonWork` the ticket, the
browser's use of it and the work, `message` what the daemon tells.

**FileSync.** `walks` are the goroutines of a task, one more for every retry,
with the items each is for; `syncTask` and `item` what is shown; `arrived` what
the targets have.

**Collector.** `savedAs` is the account in file and memory, `runs` and `detail`
the rows, `collecting` and `refresh` the one worker of each kind, `delayed` the
refreshes that wait their ten seconds.

**PluginRepository.** `repo` is the plugin's directory (releases with manifests,
the index), `imports` the import directory, `catalogue` the rows; `repoTask` what
a request has still to do on disk, so that an error or a stop may cut it after
any write. `sound` is history: no cut and no change by hand since a scan without
a warning.

## 3. Runs

| run | what it asks |
|---|---|
| session_not_restored | does a restarted prism-sessiond find its sessions (it does not) |
| supervisor_safety | exclusion, reservations, shown state, the promised life, with two callers, main and every operation |
| supervisor_crash | daemon exit, broken links and a restart of sessiond: one process, one consumer, each watched |
| supervisor_liveness | operations and stops end, exits are noticed, processes are owned or end, the promised life through exits of the daemon |
| restart_goes_on | does a restart whose stop succeeded start again (not always) |
| no_process_while_applying | are files only replaced under an exited process (not after the link broke) |
| deployment | directories, locks, statuses |
| registry | the three copies, loading, what is in use |
| reservation_returns | does a deployment always give its reservation back (not after a leaked mutex) |
| panel | safety of six parts: schedule, node, link, accounts, repository, firewall |
| liveness | what ends or settles in seven parts: deployment, link, node, operations, sync, games, proxy |
| daemon_services | safety and liveness of four parts: operators, files, plugins, console |

The last three runs check parts that share no variable. A behaviour chooses in
`moves` which part moves and the others stay where they began, so such a run
visits the sum of the parts' states, not their product; fairness is asked of the
part that moves. A part may really stop (no task is due and the panel is down,
all calls ended, no request comes), so these runs do not check for deadlock;
a part that should go on and does not fails one of the liveness properties.

**What the properties conjoin.** A property is stated in parts, each with its
comment, and checked as one:

| property | its parts |
|---|---|
| `OperationsExclude` | types, `LockDiscipline`, `ReservationExcludes` |
| `StoppedIsQuiet` | `QuietWorkspace`, `StoppedIsStopped` |
| `ProcessIsKnown` | `AtMostOneProcess`, `NoLostProcess` |
| `OneWatcher` | `SessionIsWatched`, `OneConsumer` |
| `OperationsSettle` | `OperationsEnd`, `StoppingEnds`, and `ExitsAreNoticed`: `ExitFreesEntry` (sessiond), `ExitIsNoticed` (daemon) |
| `DeploymentsExclude` | `OneTaskPerGroup`, `ImageExclusive`, `NoProcessInSwap` |
| `DirectoriesSurvive` | `AlwaysWhole`, `BinSurvives` |
| `RegInv` | types, `MemoryIsDisk`, `RegistryIsConfig` |
| `WorkIsSpared` | `BusyKeepsConfig`, `RunningStays` |
| `RunsAreTrue` | types, `SentIsShown`, `CompletedHasNoFailure`, `OpenRunIsWorkedOn` |
| `ClientsAreRows` | types, `ManagedIsLive`, `OneLiveClient`, `ConnectionIsRow` |
| `WaitersAreServed` | types and limits of queues, `OneResult`, `HubIsServed`, `NobodyIsForgotten` |
| `AccessIsKept` | `LastSuperAdminStays`, `SessionsEndTogether` |
| `RequestsAreKept` | `InstalledStays`, `LastRequestWins` |
| `ConsoleIsContiguous` | `StreamInOrder`, `TerminalIsContiguous` |
| `OperatorsConverge` | `OperatorsSettle`, `StatusGoesForward` |

`KeepsPromise` is the refinement of `RemoteCall` by `ControlLink`, `KeepsLifecycle`
that of `Lifecycle` by `Supervisor`; it has `ShownIsTrue` and `StoppingNeverResumes` in
it, which section 4 states by themselves. Alone stand `ProcessIsOwned`, `CompletedIsDone`, `TasksEnd`,
`DaemonRestarts`, `CommandOnce`, `CallsEnd`, `Converges`, `RepositoryIsSound`,
`KernelFollowsState`, `GrantsSurvive`, `AuditIsTrue`, `EveryOperationIsAudited`,
`CompletedItemsArrived`, `FileSyncEnds`, `EveryGameIsTried`, `ProxyKeepsUp`,
`RevisionMeansContent`, `FilesRecoverable`, `UploadEnds`, `FlagSettles` and
`TerminalCatchesUp`. Liveness is stated as `[]<>` or `<>[]` of a state, never of
a request, so that it also speaks of what nobody asked for.

**Bounds and why they are enough.**
Identities of hosts and connections are recycled, so two or three of them give
the old session, the next one and one more that overlaps. One instance is enough
for the supervisor: instances share only the reservation, which Deployment and
ServerRegistry look at with several. Two callers make every pair of operations
meet (main is a third goroutine); `RestartLimit = 1` reaches the limit that is
3 in the code. `MaxLoss`, `MaxCrash`, `MaxServiceCrash` of one put the event
between any two steps; a second daemon exit meets the same states as the first
because everything in memory is gone. With `MaxLoss = 1` and `MaxServiceCrash = 1`
`supervisor_crash` loses a link or lets something crash, not both, save that a daemon
which was restarted may find its list of sessions failing (`LossAlone`);
`supervisor_liveness` has one host that keeps its mutex (`MaxStuck`), since every
liveness property of the supervisor has that as its exception and a second one shows
the same; in
`supervisor_safety` the third connection is made while one goroutine works at most
(`ThirdAlone`). Two deployment tasks are a task and its
rival or successor; two slots a target in work and one waiting; trouble comes once, and
a second one is a rollback that fails as well (`OneTrouble`). `liveness` has one slot: with two its tableau takes five times
as long, and a slot adds no way to keep a reservation. The registry has a group
of up to two instances and a single server on two ports, so that conflicts,
growth and shrinking happen; the generations tell an old object from its
successor; the requests of the run are about the instance that the smaller group
loses (`MCOperated`). A task with a version before and after an edit, two runs and three
moments (`MaxTime = 2`, due at each) contain a run on time, a missed one, a
repeated one and a manual one beside a scheduled one; with `Period = 1` the kind
"daily" differs from "interval" only in its formula, and the run has the latter. With one target
"completed_with_errors" is modelled and not reached by the run; the theorems of
section 4 hold for any number.

A call meets a connection that ends and its successor with two sockets
(`panel`), or with one whose identity comes back (`liveness`); a queue of one
message makes it overflow at the second. Waiters do not share anything but the
map, so one call shows what may happen to each. Two saves of a node are a client
and its successor, each save starts at most one client (`NodeConstants`); two
requests at a time overlap in `panel`, where safety is checked, and one runs in
`liveness`, because overlapping requests do not converge (section 5).
One outage or refusal gives each place of a client's life a failure.

Two users, two sessions and two requests are the smallest instance in which
requests demote, disable or delete each other's user; `LoginLimit = 1` blocks at
the first failure. The repository has a scan, an upload and one of either more,
one cut by an error, one by a stop and one change by hand. The firewall has one
rule, one address and two sessions, so that one may end while the other's grant
for the same source stands; there is one lifetime in `Ttls`, so that changing
the TTL is in the model and not in the run. Two troubles are a failure and what a
stranger does with the state it leaves.

A plugin has two connections and the daemon two workers: an answer of the old
connection meets a request of the new one. One panel with two revisions, one
handler and one trouble of any kind, or one expired request; the merge of several
panels is in `OperatorSync` with `Panels` and only one of them is in the run. The
upload is three bytes in chunks of two, so there is a short last chunk; all
kinds of mishap together are three (`MaxMishaps`), of one sort (`FewMishaps`); two
lost answers and a crash are one more than the frontend has retries. Three plugin
requests, two builds and three starts are a queue of two and its successor, a start
that crashes within a queued deployment and the one after it (`FewRequests`). The console's
buffers hold one line and the daemon's two, so each overflows on its own.
Two file operations, two stops and one failing statement; two items and a
retry make two walks overlap; two games and batches of one let a game that
fails stand before one that waits.

Some bounds are on steps instead of numbers; each keeps two hazards apart that a
smaller run shows together, or that a proof covers for every number of both:

| bound | module | what it says |
|---|---|---|
| `EditsOrTrouble` | `MCPanel` | with trouble a task is saved once, and a statement fails only while there is one run |
| `RequestsOrOutages` | `MCPanel` | requests overlap before an outage; run `liveness` has one beside it |
| `CancelsAlone` | `MCPanel` | the panel gives a client up while one connection at most is in use |
| `TicketsOrTroubles` | `MCPanel` | after a trouble of the firewall one session has done something, after two none |
| `OneTrouble` | `MCDeployment`, `MCLiveness` | a failing file operation or an exit, once; in `MCDeployment` also a rollback that fails |
| `LostInTime`, `EndedByTask` | `MCDeployment` | the link that breaks is the last instance's, as a task comes to stop or restart it; no process ends by itself while a task waits to stop it |
| `OneTrouble` | `MCDaemonServices` | a crash or a failure of the plugin files, once, or a failed rename with its rollback |
| `FewRequests` | `MCDaemonServices` | five plugin requests and starts together, six after trouble; with the third request no trouble but in a start |
| `FewMishaps` | `MCDaemonServices` | three mishaps of an upload are losses, cleanups and crashes, or operations, writes and failures of the disk; two are any |
| `OneLoss` | `MCDaemonServices` | a connection of the console is lost or the daemon restarted, once |
| `ThirdAlone`, `LossAlone` | `MCSupervisor` | as said above |

The safety properties of these runs are proved without any of these bounds (section 4,
with the hypotheses it names); liveness is checked within them.

**Fairness.** Go runs every goroutine that can run, so every goroutine has weak
fairness on its own steps, and none has it on a step of a user, of the game, of
a link or of a disk. In the supervisor, deployments, the control link and the
nodes it is one condition per goroutine, so that they could starve each other;
in file operations, synchronisation, proxy and the parts of `daemon_services`
it is one for the part, which is weaker; the collector has one for collections,
one for refreshes, one for the ticker and one per delayed refresh. A process that
was sent SIGKILL exits, and the orphan timer fires while nobody is attached. A
call to a daemon has no deadline of its own and needs none (`CallsEnd`): a
connection that is over is noticed, by a read that fails, by the write deadline
or the ping of the daemon, or by the keep-alive that Go's dialer sets, and
commands end (the other modules). No outage lasts for ever. The waits of
`lifecycle.go`, of hooks and of file copies have a timeout or are local. The calls
to sessiond and to a host have one for the dial only (`session_manager.go:31`), so
that their replies come is assumed while no host keeps its mutex (`stuck = {}` in the
fairness conditions) and of nobody after that; `OperationsEnd`, `StoppingEnds`,
`ExitFreesEntry`, `ExitIsNoticed` and `ProcessIsOwned` name it as their exception, and
fail without it. A daemon or panel that is down is started again (they run as
services), a plugin dials again (`DaemonBridge.java`), a terminal reconnects
(`ConsoleOutput.vue`). `ServerRegistry` has strong fairness on the release of a
deployment: its lock attempt is repeated by the Go mutex, which does not starve a
waiter. `Schedule` needs no fairness: that a run is not left open is stated as an
invariant, an open run has a goroutine.

Where a property has an exception, it is a state the code can reach and nothing
repairs; each is named in the property and described in section 5.

**Assumptions of the supervisor runs.** `SerialStarts`: one session.start per
instance at a time, which the operation mutex gives within a daemon; the
supervisor runs find no further state without it. `SlowBoot`: a new daemon boots
after sessiond has served what the old one asked. `QuietBoot`: no request
arrives while RecoverSessions runs. The code enforces neither of the last two. Without
`SlowBoot` a start that was under way when the daemon exited and the start of
the next daemon both pass the check of session.start, and `ProcessIsKnown`
fails; without `QuietBoot` a request and the recovery attach to the same session
and `OneWatcher` fails. Both can be seen by changing the constant in
`SupervisorCrash.cfg`.

## 4. Proofs

Eight modules hold theorems, each for any values of the constants that meet the
assumptions named at the end.

`SessionManager_proofs` (any sets of instances, hosts and callers, any number of
clients and crashes of the service):

* `SessTypeCorrect`: the type invariant. It is not inductive alone:
  a handler about to insert must hold a host (`InsertHasHost`), or `watchers`
  loses its type.
* `SessAtMostOne`, `SessNoLost` and together `SessProcessIsKnown`: under
  `SerialStarts`, an instance never has two processes of the running service, and
  each process the service owns is in its map, or about to be, and described by
  its state file. The inductive invariant `SerialInv` says where the one host of
  an instance is: a host with a pending watch is in the map (`WatchedInMap`), the
  map holds only such hosts (`MapIsWatched`), a handler between check and
  insertion works on a free entry (`StartsOnFreeEntry`) and is alone (`OneStart`,
  from `SerialStarts`) with its own host (`InsertsItsHost`), and every host that
  is not done is one or the other (`OpenIsTracked`). Two processes of an instance
  would be two tracked hosts, which `TrackedUnique` excludes.

`SerialStep` and `SerialConsequences` state this for any caller that serialises
the starts of an instance; the supervisor's proofs reuse them.

`Supervisor_proofs` (any number of instances, goroutines, connections, lost links,
exits of the daemon and of prism-sessiond):

* `SupTypeCorrect`. A goroutine inside an operation has an instance
  (`HoldsInstance`), one about to bind a connection (`BindHasConn`).
  `SessPartStep` says what a step of the supervisor may do to prism-sessiond.
* `SupLockDiscipline`, `SupReservationExcludes`, together `SupOperationsExclude`:
  the invariant `OpInv` adds that a daemon that is down has no goroutine and that
  nobody works while RecoverSessions runs, if requests stay out.
* `SupSessionIsWatched`: a connection about to be bound belongs to nobody else
  (`BindIsNew`), a session is bound, watched and not detached (`SessionTracked`).
* `SupStoppingNeverResumes`, under `QuietBoot`: between the check of startLocked
  and the bind an instance is not stopping (`NotStopping`), because only the
  holder of the mutex makes it so, and a stopping instance expects the exit of
  its session (`StoppingExpectsExit`), so waitSession does not call it failed.
* `SupShownIsTrue`, under `QuietBoot`: starting and deploying have somebody at work, an
  open session shows as running or stopping. `ShowInv` says for each place of a
  goroutine inside an operation what its instance may show (`Fits`), and that an
  instance which nobody holds is neither starting nor deploying.
* `SupKeepsLifecycle`, under `QuietBoot`: the refinement of `Lifecycle`. The initial states
  map to its initial state, and each action of the supervisor maps to one of its
  actions or to a stutter (`LifeEveryStep`, with a lemma for each group of actions).
  The guards of the abstract actions are the invariants: `Fits` for what is shown,
  `ReadyIsClosed` and `RestIsClosed` below for the link, `BindIsOpen` that what is bound
  is open, `OpenIsSession` and `OpenNotDone` that only the session's end is noted, and
  `RecoverFree`, `RecoverIsUp` and `RecoverFindsNoStop` that a recovery takes over what
  shows stopped or failed and has no link. In the mapping the place of main decides
  only while the daemon is up (`RecoverIsUp`), so its cases do not overlap.
* `SupOneConsumer`, and with it `SupOneWatcher`, under `QuietBoot`: an open,
  watched connection is the session of its instance (`OpenIsSession`). A second
  one could only be bound over it: startLocked begins where the state says that
  none is open (`RestIsClosed`, `ReadyIsClosed`), a stop ends when its session is
  closed (`WaitsForSession`), and RecoverSessions attaches each instance once
  (`RecoverFree`), because prism-sessiond's map names hosts of their own instance
  (`MapInv`).
* `SupProcessIsKnown`, under `SlowBoot`: what `SessProcessIsKnown` assumes of
  callers (`SerialStarts`) holds of the supervisor. A session.start under way
  belongs to a goroutine that waits for it inside an operation (`StartIsAwaited`),
  and the mutex allows one.
* `SupQuietUnlessClosing`, under `QuietBoot`, `SlowBoot` and `MaxLoss = 0`: what shows
  stopped, and what an operation on files takes for stopped, has no process the
  daemon could reach, through every crash of prism-sessiond and every exit and boot of
  the daemon, except while a shutdown has begun (section 5). The invariant says for
  each such process who has it in hand (`ReachableIsHeld`): it is the session of its
  instance, or a goroutine waits for its start, was told of it or is about to bind
  the connection to it, or RecoverSessions still has to come to it. A stop, an exit
  and a deployment end the first; the others hold the mutex, so the instance shows
  neither stopped nor free. What listens and lives serves (`ListenersServe`), so
  nothing slips by the recovery, and a mutation of files works beside no session
  (`MutatesClosed`). `SupStoppedIsQuiet` is the property of the run: with
  `MaxCrash = 0` there is no shutdown, and no exception.

`Deployment_proofs` (any number of instances, tasks, faults and exits of the
daemon) proves every property of the run `deployment` and two more, in layers:

* `TypeInv`: types, and that the slot in work is a target that is not still to do
  (`DepTypeCorrect`).
* `ControlInv`: who holds what. A task in the active map is alone, a reservation is
  kept until the task ends (`ReservationHeld`), so are the image lock and its
  writer (`ImageHeld`, `WriterAlone`), and the instance of the slot in work is
  stopped (`SlotIsStopped`). Gives `DepOneTask`, `DepImageExclusive`,
  `DepNoProcessInSwap`, together `DepExcludes`, and `DepFinishedIsFinal`. What is
  proved of the processes is what the code gives: none the daemon is linked to runs
  in a directory that is replaced. One whose link broke may (finding 3); the model
  has it, `adrift`, and the theorem says so.
* `DirInv`: for each program counter of deployFiles, which of the directory, the
  new one and the old one exist and are whole. Gives `DepAlwaysWhole`, and with the
  place of the bin (`BinIsMoved`) `DepBinSurvives`: `DepDirectoriesSurvive`.
* `DoneInv`: the slots a task has finished hold its content (`SlotIsDone`,
  `TargetsAreDone`) and nothing else replaces them, since they stay reserved. Gives
  `DepCompletedIsDone`.

`Schedule_proofs` (any tasks, targets, runs, edits, failing statements and exits
of the panel): `SchedCommandOnce` and `SchedRunsAreTrue`, from `SchedInv`:

* `DuesOK`: no two runs have the same task, version and due time, and every due
  time that has a run is past (`IsPast`): the task's next one, as long as its
  version is the same, lies behind it, since `NextDue` of a moment is later than
  the moment. `PlansOK` says that what a cycle of the loop has still to claim is
  not ahead of the cycle.
* `RunOK`, for each run and target (`PartOK`): before the call nothing was sent,
  after it one command, `results` is "running" in between and "completed" only
  after it. A run without a goroutine of its own has no target at work.
* `OpenRunIsWorkedOn`, and that a panel that is down has no goroutine: what a start
  finds open is nobody's, so closing it takes nothing from anybody.

`PanelConnections_proofs`, about NodeConnections (any number of requests, clients, saves
and outages): `NodeClientsAreRows`, from `NodeInv`:

* `OldOK`: what a request has taken out of the map was started, is not in the map
  and cannot come back, since InsertClient takes a new client. So the client in
  the map is never the one about to be cancelled, also when requests overlap
  (`ManagedIsLive`).
* `OneAtATime`, as long as no two requests have overlapped: one request is under
  way, and `Phase` says how far it has brought table and map; with none they
  agree (`MatchesRow`), and a client that goes on is in the map or in the hands of
  that request.
* What clients, outages and reports do is one lemma (`MovesInv`): nothing in the
  invariant depends on it but the types.

`PanelConnections_proofs`, about ControlLink (any calls, connections, sizes of queues and
outages):

* `LinkWaitersAreServed`, from `LinkInv`: a waiter is in the map until it has its one
  result (`WaiterOK`), and while it waits its request or its answer is on its
  connection, or that connection is ending, or somebody is about to drain the map
  (`OnItsWay`). `RunnerOK` and `HubOK` say which connection Run works with and which
  clients the hub knows.
* `LinkKeepsPromise`, the refinement of RemoteCall: the initial states map to its
  initial states, and each step of the detailed specification is one of its steps for
  one call or leaves all calls as they are. `OneEffect` makes the mapping hold: a
  request is in one place until it is executed, and an answer is about an executed
  request.

`ServerRegistry_proofs` (any servers, counts, ports, requests, deployments, failed
writes and restarts): `RegistryIsInOrder` (`RegInv`), `RegDaemonRestarts` and
`RegWorkIsSpared`, from `RegIInv`. Between two steps memory is what the disk says
(`ServersOK`), the managed instances of a server are those of the configuration that
was applied last, saved or not (`MatchesOK`), and two managed instances have two
ports, those of servers whose rollback failed included (`PortsOK`). An object that
has left the map is unmanaged and has no port (`UnlistedOK`), so that a request
which still points to it (`PointersOK`) does no harm.

`PanelServices_proofs`, about Accounts (any users, tokens and requests):
`AccAccessIsKept`, from `AccInv`:

* `HoldsRows`: a request that is about to commit holds the row of its target and,
  if it takes a super administrator away, that of another one who can sign in; a
  row that somebody holds is changed by nobody else. Hence `AdminStays`.
  `LocksExist`: only rows that exist are held.
* `SessionsOK`: a live session belongs to a user that exists and is as old as the
  user's last change; every transaction that ages a user ends its sessions.
  `KnowsItsUser` says what a request has read of its session and its target.
* `FoundersOK`: initialisation creates a user in an empty table only.

`QuietStep`, `EndsStep` and `ChangesStep` say what the requests beside the one that
moves may rely on, so that each action needs only its own part.

`PanelServices_proofs`, about FileOperations (any number of operations, stops and failing
statements): `FoAuditIsTrue`, from `FoInv`. `WorkIsAskedFor`: the daemon works for an operation
whose grant the browser has used, and its message says what it did. `RowIsTrue`:
a row closes as succeeded only when the work was done, and the audits written or
still owed say what the row says; a row never leaves its final status, so they
cannot contradict each other.

`PanelServices_proofs`, about FileSync (any items, cancels and retries): `FileSyncArrived`,
from `SyncInv`. A walk works on items of its own list, and one that has uploaded an
item has its file at the target, whatever other walks do to the item's status:
nobody takes a file away.

`PanelServices_proofs`, about PluginRepository (any JARs, releases, failed writes, stops and
changes by hand): `RepRepositoryIsSound`, from `RepInv`. An upload or import that comes to
its end leaves a sound repository sound, and one that is cut ends the claim until the
next scan (`UploadOK`, `CutTyped`). The scan is a loop over the releases, and `RunOK` its invariant: the next id is above all others, and as long as there was no warning
what is on disk is what was kept, with manifests that match, and what the loop has
not looked at. The loop is a recursive function; that it exists and that the
invariant holds along it are shown by the least counterexample (`LoopExists`,
`RepairRunOK`), which needs no induction rule.

`DaemonServices_proofs`, about Firewall (any rules, addresses, sessions, lifetimes and
troubles): `FwKernelFollowsState`. The invariant `HashMeansState` says what the hash in the
state stands for: if it names a table, it is the table of the state's rules, unless
the script that made it met a table the service had not seen (`blind`). When an
inspection then finds no drift, the kernel has what the hash names.
`FwGrantsSurvive`: a source that a session which goes on may use stays open. The kernel
is told of a source for as long as the longest of its grants lasts, which exists as
lifetimes are bounded (`GrantsOK`), so ending one session, a new ticket or a change of
rules takes away only what no other grant holds.

`DaemonServices_proofs`, about Console (any terminals, sizes of buffers, sessions, lost
connections and restarts): `ConsoleHasNoHoles`, from `ConInv`. Each queue continues
the numbers of what stands behind it: the feed those the daemon has (`FeedOK`), the
ring is a run of numbers up to the last one, with the reset of a session at its first
entry at most (`RingOK`), and a terminal's queue goes on where its screen ends and,
while it is live, up to the ring's end (`TermOK`). What is asked for after a drop is a
suffix of the ring (`PickedSuffix`).

`DaemonServices_proofs`, about FileService (any paths and contents): `FsFilesRecoverable`,
from `FsIInv`: what is kept is at a path or in the bin (`Found`), and what a rename is
about to replace is not (`TargetIsFree`): the operation has moved it to the bin, and
the server, which may write in between, has taken the responsibility for what it
wrote over. An extraction that fails leaves the old file in the bin, every other
replacement puts it back.

`DaemonServices_proofs`, about OperatorSync (any panels and goroutines, lost connections,
failed saves and restarts): `OsRevisionMeansContent`, from `OsIInv`. There is an
archive of catalogues, one per revision and none newer than the registry
(`Archive`), and everything on its way to the plugin and in it is from the archive
(`Travels`); the file is the registry or one change ahead (`FileIsAhead`).
`OsStatusGoesForward` is the action part of `OperatorsConverge`: the revision shown as
applied does not go back.
`OsAuthComesFirst` states `AuthComesFirst` of `PluginLink`: what a connection that is
not authenticated has to read begins with the answer to the authentication
(`AuthIsAhead`), so no catalogue is dropped on the way. No run checks it.

`DaemonServices_proofs`, about PluginFiles (any builds, requests, starts and crashes):
`PfRequestsAreKept`, from `PfIInv`. `QueueLeads`: there is a way from the file through the
operations in the queue to what was asked for last, and every start goes a part of it;
`JobInOrder` says where on it the step in work is. A file that is left aside breaks
the way: for a deployment done at once, of which the queue knows nothing, altogether
(`asked.hurt`), for a queued one as to whether the plugin is enabled (`asked.woken`);
so does an operation done at once before older ones (`asked.early`). The proof needs
these exceptions (section 5), and the run reaches each.

**Assumptions.** `SessionConstants`, `SupervisorConstants`, `DeploymentConstants`,
`ScheduleConstants`, `NodeConstants`, `AccountConstants`, `RepositoryConstants`,
`PfConstants` and their like say that the "nothing" values are no identities, that main is
a goroutine, that periods and limits are not zero and that bounds are numbers;
`FsConstants` that the root has a path beside the upload's, `FwTtlAssumption` that a
grant lasts at least a tick. TLC evaluates each in a run. Theorems of the supervisor have
hypotheses besides: `SerialStarts` (proved of the supervisor itself), `QuietBoot` and
`SlowBoot` (section 3; the code does not enforce them), `MaxLoss = 0` (no link breaks while
both ends live; one that does is finding 3) and `MaxCrash = 0`.

Every safety property of the passing runs has its theorem. **Only model-checked** is
liveness (`OperationsSettle`, `ProcessIsOwned`, `TasksEnd`, `CallsEnd`,
`Converges`, `EveryOperationIsAudited`, `FileSyncEnds`, `EveryGameIsTried`, `ProxyKeepsUp`,
the convergence in `OperatorsConverge`, `UploadEnds`, `FlagSettles`, `TerminalCatchesUp`):
the prover does neither fairness nor ENABLED. So `ProxySync` and `Collector`, whose
properties are of that kind, have no theorem. Findings are shown by TLC's
counterexamples.

## 5. Disagreements found

Those with a run, in `PROJECT.json` under "findings":

1. A restarted prism-sessiond reads the wrong directory and restores nothing
   (`sessiond/internal/service/service.go:67`).
2. A restart may answer INSTANCE_BUSY to itself (`supervisor/lifecycle.go:41`).
3. After the control link broke, a deployment replaces files under a running
   process (`supervisor/deployment.go:34`).
4. `ApplyServer` returns without unlocking (`supervisor/manager.go:126`).

Seen in the models, without a run of their own. Where a property has an
exception, this is the list of them.

*Processes and consoles*

* the two boot races of section 3;
* a shutdown takes every session out of its instance (`supervisor/session_detach.go:3`)
  while requests of the control connection, for which http.Server's Shutdown does not
  wait, and deployments go on; only startLocked asks whether the daemon is closing. A
  stop then shows stopped (`supervisor/lifecycle.go:226`), and a deployment or a change
  of files takes a running process for none (the exception of
  `SupQuietUnlessClosing`);
* subscribe sends up to 256 lines and the exit frame into a channel of 256 while it
  holds the host's mutex (`sessiond/internal/host/host.go:297`): a full backlog of
  an exited process blocks it for ever, and so does WriteStdin
  (`host.go:158`) as long as a process does not read. The daemon hears of no exit from
  that attachment and no later one is served; `State` waits for the mutex inside
  List, inspect and start with sessiond's own mutex held
  (`sessiond/internal/service/service.go:141`), and an operation of the daemon that
  waits for a reply keeps its instance, because a call has no read deadline
  (`stuck` in SessionManager, `host.stuck` in Console);
* a daemon that restarts numbers console lines from one again: a terminal that
  kept its last number misses or repeats lines (`TerminalIsContiguous` holds
  within one boot);
* a browser whose queue overflows is dropped and asks again; the gap event of
  `docs/守护进程设计.md:526` is not sent, and what has left the backlog meanwhile
  shows only in that the screen is cleared.

*Deployments and registry*

* a forced cancel followed by an ordinary one is not forced any more
  (`deployment/manager.go:250`; `docs/守护进程设计.md:879`);
* deleting a server does not wait for the operations of its instances
  (`supervisor/manager.go:171`; `docs/守护进程设计.md:413`): a start under way
  ends in a process that is in no list;
* Create may leave instances behind when its rollback is refused, Update may
  leave file and registry apart when its rollback fails (`lost` in
  ServerRegistry): `RegInv` and `DaemonRestarts` exclude these servers;
* a recycle bin is lost when moving it back fails as well (`rolledBack`);
* the directory of an instance whose link broke is replaced under its process
  (finding 3; `adrift`).

*Schedule and nodes*

* a scheduled task edited between listing and claim, with the same due time,
  gets its next due time from the old schedule; a once task saved again that way
  runs again;
* a run of which a target was never started, because its statement failed or the
  panel was being stopped, is recorded as completed when no other target failed:
  FinishTaskRun counts only "failed" (`store/task_runs.go:242`);
* a node is removed or replaced while its client waits for auth.result: the
  watcher has disconnected already, connect then stores the connection
  (`panel/internal/daemon/client.go:188`) and the client stays connected and
  reports until the daemon closes; so may a callback that had begun. Either
  overwrites the status and the runtime columns of the successor ("late report");
* two updates of a node overlap: both remove the old client and both insert one,
  the first is never cancelled, and the one that stays may have the older
  setting; an update that overlaps a deletion connects to a node that is not in
  the table ("overlap", `panel/internal/daemon/manager.go:83`);
* UpdateNode writes back runtime columns it read before (`store/nodes.go:58`);
* handleControl adds a client to the hub before it is answered
  (`daemon/internal/api/server.go:213`): a broadcast that comes between is the
  first message the panel reads, which takes it for a failed authentication and
  dials again after a second (`AuthFails`).

*Plugins, operators, proxies*

* the numbers of plugin requests begin anew on every connection and an answer goes
  over the connection the plugin has by then: a late answer can complete the
  request of the same number on the new connection (`supervisor/plugin.go`;
  `docs/代理服与插件多平台设计.md:324` says a request_id completes once).
  `AnswersMatch` in `PluginLink` states the promise; nothing checks it, as it is
  not kept;
* the answer to an older catalogue is written into the status of a newer one
  (`supervisor/proxy.go:133`), so that a revision can be shown as synced that the
  proxy never confirmed;
* a backend that starts again on its new port synchronises nothing: the proxy keeps
  the old port until the next change, reconnection or node that comes online
  (`BackendStarts`; `docs/代理服与插件多平台设计.md:145`);
* a list of operators that the daemon could not save is sent again only after the
  next change or connection; a third concurrent change of a list waits behind two
  reconciliations of up to 20 seconds each with a context of 30;
* a plugin operation that is done at once, because the file is free, comes before
  older ones that are still queued; the next start applies those on top
  (`asked.early`; `docs/面板设计.md:488`);
* a deployment moves the old file aside before the new one is in place
  (`plugins/operations.go:279`) and ignores the error when it cannot put it back
  (`operations.go:286`). After that, or a crash in between, the old file stays under a
  name that no scan and no deployment takes for a plugin: a deployment done at once has
  removed the plugin (`asked.hurt`); a queued one is repeated by the next start, which
  finds no file and deploys under the plain name, so that a disabled plugin comes back
  enabled (`asked.woken`; by `docs/面板设计.md:488` enabling is a request of its own);
* the bundle of a queued operation is removed before the queue is saved
  (`plugins/pending.go:88`): after a crash in between the operation cannot be
  applied and the queue waits behind it. `LastRequestWins` speaks of a start that has
  come through the queue, so it does not exclude this;
* a scan compares the files with the baseline it read before, and tells the result of
  whatever runs by then (`plugins/service.go:306`); the next one corrects it
  (`FlagSettles`).

*Files, firewall, accounts and the rest*

* after a change whose first inspection failed, the script may have met a table
  somebody else had made, and the service takes the result for its own
  (`fw.blind`; `firewall/service.go:359`; `docs/网络白名单实现设计.md:127` promises
  drift is reported);
* a ticket that expires between its two critical sections is dereferenced as nil
  (`ticket/manager.go:93`): the request ends, its grant stays until it expires
  (`FillPanics`);
* an upload that a disk error, its expiry or a write of the server to the same
  path meets is not published, and a crash of the daemon leaves its partial file;
* the frontend asks for a grant and for the status of an upload once after each
  failure (`frontend/src/fileApi.js:70`): a second answer that is lost then, or a daemon
  that is not back, ends the upload ("abandoned" in FileService);
* an upload that may not replace its target and whose session was lost after the
  publication, by a crash or by the cleanup, meets its own file and is answered
  FILE_EXISTS ("conflict"; `files/service.go:560`);
* a login whose password check came before the change of the password inserts its
  session afterwards (`panel/internal/auth/service.go:52`), and SetUserPermissions
  decides on what it read before its transaction (`store/access.go:413`);
* a cancel that comes before the walk it is for has begun is overwritten by the
  walk (`early` in FileSync);
* operations that the panel had closed but not yet audited when it stopped, or when
  its job met a failing statement, and those whose audit the database refused
  (`writeAudit` logs it), are not in the audit log (`foCount.lost`);
* a collection that began before the collector's account was deleted saves the
  account again (`netgames/service.go:440`);
* a scan after the index was lost, or after a deletion that was cut, can bring back
  an older release or the whole plugin.

## 6. Not modelled

Contents and formats: configuration fields, jar descriptors, archives, nftables
text, metrics, HTTP encoding, the user interfaces. Of the components,

* *desktop client releases* are file I/O and version formats under one mutex, with
  one request at a time;
* *metrics* are sampled and aggregated numbers, without a protocol;
* the *desktop client* is a client of the panel and a game launcher for one user;
* of the *HTTP handlers*, those that decode, check a permission and call a service;
  those that keep state or call in several steps are in the modules of what they
  call.

Where a component is "partly" modelled, `PROJECT.json` says what of it is left out.
Several instances of a thing that share only a map (terminals, uploads, panels,
proxies, plugins) are one in the runs.

## 7. Plan

What would add most next:

1. The order in which a proxy confirms catalogues, as an action property of
   `ProxySync` beside `ProxyKeepsUp`, and what a collection may overwrite in
   `Collector`, each with its theorem.
2. Two panels in `OperatorSync` and two backends in `ProxySync`, which need a run
   of their own, and a TTL that changes in `Firewall`.
3. `restart_goes_on`, `no_process_while_applying`, `reservation_returns` and
   `session_not_restored` remain only as long as the code has the defects.
