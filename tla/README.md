# Outpost: a verification development

TLA+ models of the Outpost VPN server (the control plane under `src/server`, the
root agent under `agent`, the scripts under `infra/scripts`, the owner's panel
under `src/web`), checked with TLC on small instances and proved about with
TLAPS for all values of their constants. `PROJECT.json` names, for every
definition, the lines it translates; paths below are relative to `src/`.

## 1. The system

One Bun process (the control plane) owns a SQLite database and serves the API.
It is unprivileged: whatever touches an engine, a unit or a release goes as one
JSON request over a UNIX socket to the root agent, which starts a script.
Engines (Xray, Hysteria, sing-box...) serve the users.

| Component | State | Operations | Talks to | Hard behaviour | What makes it correct | Module |
|---|---|---|---|---|---|---|
| ConnectionService (`connections.ts`) | rows of `connections`, `credentials` | create, rotate, suspend, resume, archive; `prepare...` and `complete...` | the outbox, the journal | requests during a run; late completions | rows agree; one accepted generation; archived is final | `ConnectionSync` |
| ConnectionSyncService (`connection-sync.ts`) | `connection_sync_jobs`, the lock, the drain timer | `run`, `drain`, `retry`, `recoverInterrupted` | the two services around it | a claim and the lock are apart; cancelled runs go on; crash between two transactions | every job ends; a run acts on the newest generation | `ConnectionSync` |
| EngineRuntimeService (`engine-runtime.ts`) | none | `add`, `rotate`, `revoke`, `syncOptional`, `reconfigure` | agent | a snapshot goes stale at each await | engines serve exactly what is settled | `ConnectionSync`, `EngineConfig` |
| Root agent | installed files, running engines | hot add and remove, scripts, rollback | systemd, engines | answer lost, half a change; a script goes on after its timeout | what was answered is so | each of the above |
| AuthService (`auth/webauthn.ts`) | owner, passkeys, challenges, sessions, invitations, grants | registration, login, revocations | `outpostctl bootstrap-reset` | verification is awaited between check and write | one owner; an authority is spent once; no session outlives its passkey | `OwnerAuth` |
| OperationService (`operations.ts`) | `operations`, confirmations, journal, archives | preview, confirm, execute, reconcile | agent | the update stops the process that waits for it; timeouts; exports of one name | a final status is true and journalled | `Operations`, `AppUpdate`, `EngineInstall`, `Diagnostics` |
| The agent's policy (`policy.go`), the panel's and the scripts' | none | admit a domain, a version, a passphrase | operations, setup | three languages, limits of their own | what one admits the next admits | `Admission` |
| `apply-update` | releases, link, units, a snapshot, the database | install, migrate, restart, roll back | systemd, SQLite, operations | failure of each command; reboot; two at once | either the new release or the previous one | `AppUpdate` |
| ApplicationUpdateService (`application-updates.ts`) | setting, staged archives | check, prepare, channel | network | awaits overlap; an archive published anew | only verified, newer releases are offered | `Releases` |
| Engine installation (`update-engine`, `engine-inventory.ts`) | version directories, link, recorded version | install, switch, roll back | agent | killed half way; given up and still running | link and record agree | `EngineInstall` |
| EngineConfigService, ConnectionMethodService | methods, template revisions | save, publish, compensate | agent, the snapshot lock | compensation that fails; late answers | stored = installed = loaded | `EngineConfig` |
| Connection methods (`connection-methods.ts`, listeners, catalog) | setting, installed engines | save, remove, reorder, suggest | catalog, profiles | a chain of edits; ports of installed and missing engines | what is offered is served; no port twice | `ConnectionMethods` |
| Presets and templates (`engine-presets.ts`, `engines.ts`) | revisions, the preset each descends from | three-way merge, apply, roll back, reconcile | YAML, the agent | items with and without keys; chains of edits, upgrades and rollbacks | no edit lost, no guard either | `PresetMerge`, `Templates` |
| TrafficService (`traffic.ts`) | cursors, samples, presence | collect, compact | collectors | counter resets; crash in compaction; suspension during a poll | nothing counted twice or lost; absence is observed | `Traffic`, `Presence` |
| MonitoringService | service states | probe, refresh | journal | probes finish out of order | one incident, one recovery | `Monitoring` |
| RouteService, RuleSetService | drafts, revisions, active bundle | edit, publish, refresh, restore | geodata | switch during publication; damaged directory | published rules name known sets | `RuleSets`, `GeoSite` |
| Client profiles (`subscriptions.ts`) | none of their own | four renderers | routes, settings | order, overlap and catch-all of rules | every application routes alike | `Profiles` |
| DiagnosticService (`diagnostics.ts`) | reports, operation rows | run, claim, report, cancel | `outpostctl`, timers | cancel races the report; lost answers | one final status; whole evidence | `Diagnostics` |
| Connection events (`connection-diagnostics.ts`, `diagnostics.go`) | the engine's log | read the last hour | agent | errors that only follow; a clock set back; limits | each disconnect once, with its errors | `ConnectionEvents` |
| SetupService, `finalize-domain` | nginx, env, engine files | finalize, roll back | agent, systemd | failure at each command; scheduled restart | all of one domain or none | `Setup` |
| `restore-backup` | everything on disk | check, apply, roll back | systemd | owner registers meanwhile; failure on the way back | old or restored, never a mixture | `Restore` |
| JournalService and its page | `events`, rows shown | record, list, load more, filter | the panel | answers out of order; events dated back | no event twice, none left out | `Journal` |
| DashboardEvents, `/dashboard`, Store | revision, snapshot | publish, load, stream, poll | the browser | a change between snapshot and revision; reconnects | a quiet panel is current | `Panel` |
| Links and profiles (`/s/...`, `connections.ts`, `connection-sync.ts`) | `subscription_token_hash`, `first_used_at` | give a link, page, profile, mark as fetched; what the panel shows | devices | an answer is computed while the connection is rotated or archived | what is shown is so; used means used | `Delivery` |
| HTTP and MCP (`http.ts`, `mcp.ts`, `mcp-tools.ts`, `api-scopes.ts`) | API tokens | route, authenticate, authorise, call a tool | every service | a token revoked between the check and the handler; tools that come back through the table | nobody gets what the documentation keeps from them | `Gateway` |
| Database (`database.ts`, `schema.ts`) | the SQLite file | migrate, seed, open | control plane, `outpostctl` | two processes open at once; killed between statements | opened is complete, nothing of an owner overwritten | `Database` |
| Localisation, configuration, installation | - | render, install | services | - | - | section 5 |

The full list with the status of each is under `components` in `PROJECT.json`;
what in this code is hard to test, and at which line, is under `hazards`, with
the properties that cover it.

## 2. Modules

`ConnectionSync`, `OwnerAuth` and `AppUpdate` are the core: each composes
several components that interact through shared state, has an MC module and a
proof module of its own. `ConnectionAccess` is the abstract specification that
`ConnectionSync` implements. The other modules are one component each, with the
actors around it (agent, script, systemd, browser, runner) as actions; those of
one area are run together by a composing MC module, in which a variable `part`,
chosen at the start, says which one moves: they share no state, and interleaving
them would only multiply states.

| MC module | Composes |
|---|---|
| `MCConnectionSync`, `MCOwnerAuth`, `MCAppUpdate` | one core module each |
| `MCTelemetry` | `Traffic`, `Presence`, `Monitoring`, `Panel`, `GeoSite`, `ConnectionEvents`, `Database` |
| `MCConfig` | `EngineConfig`, `RuleSets`, `Profiles`, `Setup`, `Operations`, `Admission` |
| `MCServices` | `Diagnostics`, `Releases`, `Restore`, `PresetMerge`, `Templates`, `ConnectionOffers` (`ConnectionMethods` and `Delivery` over `ConnectionSync`), `Gateway`, `Journal` |
| `MCLiveness` | `ConnectionSync` and `EngineInstall`, with their fairness |
| `MCProfiles` | `Profiles` alone |
### 2.1 ConnectionSync

The control plane is one JavaScript thread over a synchronous SQLite driver, so
the unit of interleaving is the code between two awaits; a crash can also fall
between two SQL transactions of the same segment.

| State | Code |
|---|---|
| `conn`, `cred` | rows of `connections` (`status`, `generation`, `suspended_at`, `archived_at`, `activated_at`) and `credentials` (`state` of every generation) |
| `job` | the newest row of `connection_sync_jobs` of each connection; the unique index of open jobs makes the earlier ones closed |
| `queue` | the promise chain of `withLock("engine-snapshot")`, holder first |
| `call` | the request the holder awaits: which engine, which generation, which snapshot |
| `todo` | the list `drain()` selected before its first await |
| `file`, `live`, `up` | the users in the installed `xray.json`, those Xray holds in memory, and whether it runs |
| `opt`, `optLive` | the users in the installed file of one optional engine (`syncOptional`), and those it serves |
| `missed` | history: the engines that a killed `apply-config` left on an older file |

`Create`, `Rotate`, `Suspend`, `Resume`, `Archive`, `Retry` are the owner's
requests up to the wait for the lock (`Submit` inserts the job and claims it,
or the process dies after the insert); `Reconcile` is any other holder of the
lock. `Begin` is the segment that starts when the lock is granted,
`XrayReplies` and `OptionalReplies` those after an answer, `EngineFails` an
answer that is an error or never comes, with every effect the request may have
had: done, refused and rolled back (`XrayRefused`, `OptionalRefused`), or cut off
with the agent and its script (`XrayKilled`, `OptionalKilled`), between `mv` and the
restart too. A success compares the new file with the installed one alone, as
`cmp -s` does (`XrayApplied`, `OptionalApplied`). `BackoffElapses`, `DrainStart`, `DrainNext` are the timer. `Crash` and
`CrashInCompletion` end the process at an await, or between the completion of a
change and the closing of its job; the restart runs `recoverInterrupted()`.
`XrayRestarts` and `OptionalRestarts` reload the file.

A run carries the job as it was when it was claimed. It is not checked again
when the lock is granted, so a run whose job has been cancelled meanwhile still
calls the engines and still completes; most of the properties are about that.

### 2.2 OwnerAuth

Verification of a response and the making of a challenge are asynchronous. Each
request is therefore two or three actions: `RegistrationOptions` or
`AuthenticationOptions` and `StoreChallenge`; `BeginRegistration` or
`BeginAuthentication`, then `Finish...` (the transaction, with what it looks up
again) or `ResponseFails`. `bootstrap-reset` is another process: `ResetBegins`
decides and ends the sessions, `ResetIssues` writes the grant. `Expiry` lets any
grant, invitation, challenge or session expire. `key[k].by` is a history
variable: under which authority a passkey was registered.

### 2.3 AppUpdate

The control plane asks the root agent for the update and waits; the script the
agent starts stops the control plane that waits. What became of the operation is
in SQLite, written by the script (`sqlite3` commands) and by the control plane
that starts afterwards (`Reconciled`).

| State | Code |
|---|---|
| `dirs`, `link` | `/opt/outpost/releases` and `current` |
| `env` | `OUTPOST_VERSION` of `outpost.env` and the units, installed together |
| `db`, `wal` | the database as a new client reads it: migrations, operation rows, journal events; whether a log with commits lies beside the file |
| `plane` | the unit: running, crashed, stopped by systemctl, or running on a database file that was replaced (`orphan`); its version; the operations it waits for |
| `run` | the script of each operation: its next command, what it remembers (`previous`, `env`, `snap`) |
| `latest`, `disturbed`, `started`, `dirty` | history: the newest update, updates that overlapped or met a reboot, whether the new release was started, whether a log lay there when the snapshot was installed |

`Script` is the order of the commands, one action each: `Verify` ... `Complete`
and, after `RollsBack`, `RbLink` ... `RbStart`. Which way a failure goes is the
code's: before the trap is armed, inside a function and inside `rollback()` the
script ends (`Exits`); elsewhere it rolls back. `Confirm`, `ExecuteFails`,
`List`, `PlaneStarts` are the control plane; `PlaneCrashes`, `PlaneRestarts`
(Restart=always) and `Reboot` the machine. Nothing in the code keeps two scripts
apart, and neither does the model.

### 2.4 Traffic, Presence, Monitoring, ConnectionEvents

`collect()` is one cycle: `poll` (`Traffic`) and `cycle` (`Presence`) hold the
snapshots it has read and not recorded. `recordCumulative()` is the arithmetic
of one counter against its cursor; `carried` and `counted` are history variables
(what the engine really moved, what was written down). `compact()` is the
sequence of statements it is, with a crash possible between the insert of a
coarser row and the deletion of the finer ones. In `Presence` requests
(suspension, rotation, archiving) run while the collectors are awaited, and an
event and the column that deduplicates it are two statements. `Monitoring` has
two callers (`timer`, `request`) that read before they await and count towards
one state; gauges have two levels and a hysteresis. `ConnectionEvents`
is one answer of the agent as a function of the engine's log: what a line says,
which errors belong to which disconnect, what the limits leave out. Lists that
are "these elements, in that order" (the rows of a query, the records that stay)
are `InOrder` and `Ascending` of `Lists`.

### 2.5 Delivery, Panel and Journal

`Delivery` extends `ConnectionSync` with the columns of a connection that the
outbox does not read (`subscription_token_hash`, `first_used_at`) and with the
device: the newest link it was given, the generation it has imported, and one
request, which is in two steps since the digest of the answer is awaited. The
steps of the lifecycle are those of `ConnectionSync`, each with what it writes to
these columns; `Shown` is the state `connection()` puts together.

`Panel` is three parties: the server (`DashboardEvents`, the handler of
`/dashboard` cut at its awaits), the stream with its messages on their way, and
the `Store` of one browser with its load, its flags and its poll timer. What a
snapshot shows is two counters: `early` stands for what the handler reads before
or during the await, `late` for what it reads with the revision. `Journal` is
`record()` and `list()` with cursor and filter, and the page that adds pieces,
changes the filter and keeps several requests in flight.

### 2.6 EngineConfig, ConnectionMethods, PresetMerge, Templates

`EngineConfig` relates four copies of one configuration: what SQLite stores, the
snapshot file, the installed file, and what the engine has loaded. `request` is
the holder of the lock (preview, apply, publication of the methods,
compensation), `script` two slots of `apply-config`, command by command; a
request that was given up leaves its script running. `ConnectionMethods` is the
life of the setting: `methodSetting` and `enginesHere` change by `SaveNew`,
`SaveAgain`, `RemoveMethod`, `ReorderMethods`, `InstallsEngine` and
`MissesEngine`; the listeners `renderEngine()` makes, the ports `runtimePorts()`
opens, the outbounds of each profile and the entries of the catalog are operators
over the two. A selection of the list is the set of its places, so that a method
is one row whatever is filtered. `ConnectionOffers` is these methods beside the
links of `Delivery`: what a device is offered, and what leads it there. `PresetMerge` is
`mergeEnginePreset()` and `syncYamlArray()` for one path of a template: the
merge is computed, the document is rewritten item by item. `Templates` merges a
whole template path by path, from every preset Outpost has shipped, along the
revisions of one engine: what the owner edits, `apply()`, `rollback()` and
`reconcilePresets()`, each behind `validateTemplate()`.

### 2.7 RuleSets, GeoSite, Profiles

`RuleSets`: drafts, revisions, the active bundle and its directory, the cache; a
refresh awaits index and archive, everything else is one turn of the event loop
cut only by a crash. `GeoSite` is parsing, filtering and the merge of the
Chinese categories as functions, with the cache as state. `Profiles` is the
draft (order, actions, enabling), the published revisions, the network settings,
and per renderer the list of rules it writes; `Decision` is the reference
definition, read off the published list itself: where rules and settings send
a destination. Two networks stand for the three of `localNetworks`.

### 2.8 EngineInstall, Setup, Restore, Releases, Diagnostics

`EngineInstall`: the operation, the agent's wait and `update-engine` with its
ERR trap; `updater` has two slots since a script that was given up goes on. `root`
is the directory of the engine, which a failed first installation leaves without a
link; `LinkRead` is what `readlink -f` prints then, the path of the link itself
(`Current`), which the test of line 91 and the rollback take for a directory. `Setup`:
`finalize()`, `finalize-domain` with its rollback and the restart it schedules.
`Restore`: the service's lock, the agent's check, `restore-backup` part by part
in the code's order, and `cleanup()` in its own order. `Releases`: `check()` and
`prepare()` cut at their awaits, both joined by later callers; versions are
compared as `compareVersions()` does. `Diagnostics`: the task in the control
plane with its timer, the claim by token, and runners whose requests or answers
are lost.

### 2.9 Operations, Admission, Gateway, Database

`Operations` is a confirmation from its preview to the last event of the
journal: the row, the request, what the agent does for it (`jobs`, command by
command where files are left behind: `export-backup`, `export-backup-plain`) and
the answer that may come after everybody stopped waiting. The row of an ended
operation and its event are two commits: `Ends` is both, `EndsUntold` the first
alone. `Admission` writes a
text character by character and puts it to the panel's, the agent's and the
script's check; the limits of the code are scaled to the length of the texts. The
agent's loop over the characters of a domain (`scan`) goes along with the writing;
what the panel and the scripts `split` is the set of the places of the parts
(`Parts`). `PanelRequests` lists every request the control plane sends, by the
service that sends it.
`Gateway` is the table of `registerRoutes()` in its order, the search in `fetch()`,
`authorized()`, the rules of `api-scopes.ts` and the tools of the MCP server; a
call is authenticated, read and handled in separate steps, with another that may
revoke its token in between; a token remembers the calls that `fetch()` had not
authenticated when it was revoked (`waiting`), which must not be served, also after
`handleMcp()` has authenticated them. What the documentation promises (`Documented`) is
stated apart from the tables and compared with them, and so is the one permission
the code asks for beyond it (`Undocumented`). `Database` is
`openDatabase()` statement by statement, for two processes.
## 3. Runs

| Run | Instance | Checks |
|---|---|---|
| `conn_wide` | 2 connections, 2 generations, 3 jobs each, 1 fault | `AccessIsCurrent`, `LifecycleConsistent`, `QueueMatchesOutbox`, `ServedWhenSettled`, `CutOffWhenSettled` |
| `liveness` | 1 connection, 3 generations, 5 jobs, 3 faults; 3 engine versions, 2 faults; both fair | `ArchivedIsFinal`, `JobsSettle`, `ImplementsAccess`, `RecordIsLinked`, `InstallationsEnd` |
| `auth` | 3 challenges, 3 passkeys, 3 sessions, 1 invitation, 2 grants | `OneOwner`, `SessionsHaveKeys`, `AuthoritySpentOnce`, `OwnerCanReturn` |
| `update` | 2 updates, 2 releases after the installed one, 1 fault | `CompletedMeansInstalled`, `RollbackRestores`, `JournalIsTrue`, `HistoryKept` |
| `telemetry` | see below | `NeverOvercounted`, `TotalsKept`, `EventsMatchState`, `AbsenceIsObserved`, `IncidentsMatchState`, `PanelIsCurrent`, `CategoriesAreExact`, `EventsAreGrouped`, `OpenedIsComplete` |
| `config` | see below | `RunsWhatIsStored`, `RoutesAreServed`, `SetupIsWhole`, `ProfilesAgree`, `CompletedIsDone`, `AdmittedAlike` |
| `services` | see below | `OffersAreServed`, `ResultsAreFinal`, `OfferIsSound`, `RestoreIsWhole`, `UpgradeKeepsEdits`, `CallsAreAuthorised`, `JournalIsWhole` |
| `conn_suspend`, `conn_archive` | 1 connection | findings 1, 2 |
| `update_error`, `update_snapshot` | 1 update, 1 fault | findings 3, 4 |
| `profile_block` | 2 conditions, 2 edits | finding 5 |

Each core module and most others define a type invariant (`TypeOK`,
`...TypeOK`). Those of the core are theorems, so that no run repeats them.

### Bounds

`conn_wide`: connections meet only in the lock, in a snapshot (`Others`) and in
the engines, which are relations between two connections; three jobs are what
"open, cancelled by a second while it runs, cancelled by a third" needs; one
fault leaves a half-applied request behind for a run of the other connection to
repair. `liveness` goes further along one connection: five jobs and three faults
reach a replaced generation, a suspension cancelled by a resume and cancelled
again, and an archive, with crashes in between; and an engine with three
versions, two scripts (one given up, one later) and two failures. It has one connection because
liveness excludes symmetry. `MaxJobs` disables requests that would insert a job;
`JobsSettle` says that every job which was inserted ends.

`auth`: two registrations under one authority and one login in between are the
largest overlaps the properties relate; two grants give a claim and a recovery,
or two claims of which the first was replaced; the limits 2 and 1 are both met.

`update`: two updates overlap, follow each other or are the same version twice;
a third release would repeat these relations. One fault puts a failure, a crash
or a reboot at every command; what a failed script leaves is then met by the
other update without a further fault (a refused directory, a stopped control
plane, a stale row).

`telemetry`: a counter that ends with its session and one that restarts with its
engine, two bytes (count, and a reset to, below or above the cursor), three moments
with fine rows older than "48 hours" and hourly ones older than "90 days"
(`KeepFine`, `KeepHourly`), one crash; one user on one engine that reports
sessions (`EventsAgree` and `AbsencesObserved` are proved for any number of users and
engines, reporting or not); both probes on one service, since services do not meet;
two changes and two mishaps of the panel;
sites of at most two entries over four bases, enough for a base, its negation,
its attribute and the Chinese merge; two categories asked for together; four lines
of an engine's log, of which an answer reads three and shows two, of one client
or of no address, with a clock that may be set back; two processes that open the
database, two deaths, two publications, and a database of every older release.

`config`: two templates and two sets of methods (the old one and the new one),
one stored revision, one mishap, which is any failing command, any failing
transaction or any lost answer, so that a compensation or a script that outlives
its request meets a later one (`EngineRunsStored` is proved for any number of
mishaps); two categories, two bundles of which the one left goes (`Retain = 0`), two
revisions, one crash or damaged directory; two conditions besides the local networks and the
catch-all, three edits, two revisions; two domains, two scripts, three faults;
two confirmations of one name of a backup and two faults; every text of seven
characters over the classes the checks tell apart, against limits of 3, 7 and 6
for 63, 253 and 40.

`services`: two diagnostics and two runners, two methods to measure; a
prerelease, a prerelease after it that only differs by an identifier, and the
final release, each in two editions; two restores and two failures (one on the
way, one on the way back); arrays of at most two items with two keys and two
bodies; a first template that differs from any preset of any engine in at most
two paths, and two revisions after it; two edits of methods or engines after a first set with Mihomo or
sing-box, ports 443 (privileged and taken by a default), 1443 (free) and 8443
(reserved), two names besides the protocols', and what the server suggests; one
connection with two generations, three jobs and a fault, one request of its
device at a time; three events, pieces of one (so that the third is recorded, or dated back, between
two pieces), three requests of the journal's page; one token
with any scopes, revoked at any time, since tokens do not meet, and every endpoint, tool and caller.

Deadlock is not checked: at the bounds on jobs, grants, names and faults nothing
is left to do, and an idle control plane is a legal state. `conn_wide`, `auth`
and `update` are reduced by symmetry: their names are compared only for
equality, and these runs check safety only.

### Fairness

`ConnectionSync!Fairness`, used by `liveness`. The event loop runs a granted
lock (`Begin`); the agent answers a request - the socket has a timeout, so an
answer or `EngineFails` always comes, and failures are bounded by `MaxFaults`,
without which an agent that always fails would keep every job open; the
five-second timer and the backoff elapse (`DrainStart`, `DrainNext`,
`BackoffElapses`). Owners, crashes and restarts of the engines are not fair. Fairness of
`Begin` and the replies is weak, since the head of the queue stays enabled until
it is served.

`EngineInstallFairness`, used by `liveness`. The continuation of an operation
whose answer is there runs, a script goes on to its next command or is ended,
and `callAgent()` gives up after its timeout when neither happens; weak fairness
throughout. Requests and the death of a process are not fair. `MCLiveness`
explores the two modules one beside the other, and the fair actions of one are
never enabled in the other. No liveness is claimed of the remaining modules.

### What the checks show

* The door and the rows: whichever requests overlap with runs, retries and
  crashes, an active connection accepts exactly its newest generation
  (`AccessIsCurrent`), rows and job agree (`LifecycleConsistent`), no run is
  orphaned and none follows a revoke (`QueueMatchesOutbox`).
* The engines: when the job that opens (closes) a connection is completed, the
  files of all engines hold, and the engines serve, its newest generation only
  (no generation). Both are relations with the *completed* job: while one is open,
  an engine may be ahead or behind. `CutOffWhenSettled` carries two exceptions, which
  are the findings. Both properties set aside (`missed`, in `Held`) what an engine
  serves after `apply-config` was killed between `mv` and the restart
  (`apply-config:71,88`): the retry of the job finds the file unchanged (line 59) and
  completes, and until something restarts the engine a connection may not be served
  after its activation, or still be served after its suspension or archive. Its
  file is right even then.
* The outbox implements `ConnectionAccess`: nobody sees a retired connection
  open again, or a replaced edition accepted.
* What the panel says of a connection is so in every state: `ready` means that
  the link just given is accepted and its profile can be rendered, what is in
  progress has a run, what is retried a failed job (`ShownIsSo`). One state is set
  aside: an archived connection whose cancelled activation completes late is
  `active` until its revoke ends (`connections.ts:248`). A connection counts as
  used when a device has its newest profile and not before (`UseIsReal`), except
  for an answer overtaken by a rotation (`raced`): `markFetched()` marks the row
  as it is by then.
* Registration and login are safe under every overlap of awaits, because each
  transaction checks its authority again (`Recheck`, `StillThere`).
* An update reported as completed is installed, and one that was rolled back to
  the end left the previous release, whatever the control plane, its timeouts
  and its reconciliation do meanwhile. Updates that overlapped another or met a
  reboot (`disturbed`) are excepted from both: two scripts do undo each other's
  work, and nothing resumes a script after a reboot. The journal is true for
  them as well (`JournalIsTrue`), because every script stops the process that
  waits for it before it can complete. A rollback before the new release started
  loses no status and no event (`HistoryKept`): the snapshot is taken while
  nobody writes. The model has no such promise for a rollback after the start;
  the new release may have committed by then.
* Traffic is never counted beyond what a counter carried, unless a session went
  on after 48 unreadable hours dropped its cursor (`forgotten`). Compaction keeps
  the totals unless the process dies inside it (`torn`): then the rows are
  counted twice, although `docs/ARCHITECTURE.md:39` says that restarting the
  panel creates no repeated consumption (`traffic.ts:142-145` inserts and
  deletes in separate statements).
* Presence: no absence without a successful answer of every engine, no event
  twice, no row of a suspended user brought back by a collector that was asked
  before (`EventsMatchState`, `AbsenceIsObserved`); events and incidents
  alternate up to a crash between event and column.
* A panel that is quiet and does not call itself stale is current, up to what
  the handler reads before its await, and up to revisions that restart at 0 with
  the process (`misjudged`).
* The journal's page shows no event twice and leaves none out, also with
  answers out of order and events dated back, except that a piece asked for
  after a *failed* change of the filter is added to the rows of the old one.
* Installed and loaded configurations are the stored one as soon as everything
  was answered, through failures and compensation. Two exceptions are in the
  code: `apply-config` killed between `mv` and the restart leaves a file that a
  repeated call takes for unchanged (`missed`), and an unanswered request leaves
  the outcome open until the next one (`doubt`).
* Domain, environment and engines agree after every ending of `finalize-domain`.
  Two scripts that both pass the check of line 20 are excepted (`blurred`),
  although `docs/ARCHITECTURE.md:7` calls the finalisation single.
* Published routes always name categories of the active bundle; a category
  cached by parts equals the one read as a whole. Mihomo, sing-box and Xray
  profiles send every destination the same way, and the limited profile's
  groups hold every enabled rule under its own action.
* Methods: everything a client file offers is served by a listener on an open
  port, catalog and files agree, no two listeners share a port whatever comes and
  goes, and the suggested method is always accepted.
* Recorded and linked engine versions agree unless an installation ended
  unanswered (`apart`), also when a first installation is tried again after it
  failed, which may leave a link to itself (no version, in the property and in
  `reconcilePins()`); the link never dangles unless a second script ran
  beside one given up; every installation ends or is cut by a death of the
  control plane.
* A release that is offered as ready has an archive and a signature of the same
  edition, and is newer and of the right channel, through republication, change
  of channel, failed update and restart.
* A restore leaves old or restored parts only, never both, unless it was killed
  when armed or its rollback failed too.
* The upgrade of a template is the three-way merge, and the rewritten document
  equals it item by item. Every revision after the first has all that protects
  the server, and one made of an earlier revision keeps each of its edits
  (`UpgradeKeepsEdits`).
* Diagnostics: a cancelled one is final, a completed client one has a report of
  every method, although reports and answers are lost and retried
  (`ResultsAreFinal`).
* Each disconnect in the engine's log that the answer has room for is reported
  once, with the errors that follow from it and nobody else's
  (`EventsAreGrouped`).
* Operations: one that is called completed has been done, once, and the archive
  an export reports is whole and of its own request (`CompletedIsDone`). The
  converse is not promised: an operation given up after thirty seconds, or whose
  journal could not be written, is called failed though it was done. One end is set
  aside (`untold`): row and event are two commits (`operations.ts:225` and `228`, `237`
  and `241`), and after a death between them the row is final and the journal never
  tells it, although `docs/ARCHITECTURE.md:31` says that a transaction helper
  writes change, audit and event atomically.
* What the panel lets through the agent and the scripts admit, apart from the
  texts of `Apart` (`AdmittedAlike`): a domain of three characters, a version of
  more than forty, a passphrase of at most 200 characters and more than 200 bytes
  are accepted by the panel (`setup.ts`, `operations.ts`) and refused later.
* Endpoints, scopes and tools agree with what `docs` and `api-scopes.ts` promise,
  for every caller and every order of the table, but for one call: `docs/MCP.md:47`
  names `operations:write` for `operation_preview`, and the preview of
  `connection.rotate` asks for `connections:rotate` as well (`http.ts:421`, which
  `api.test.ts:297-312` relies on); the property states it as `Undocumented`. A token
  revoked before `fetch()` authenticates a request serves it no more, also between
  the two authentications of a tool's call; one revoked after that is served to its
  end, since nothing asks again (`CallsAreAuthorised`).
* A database that has been opened is complete, whichever of the two processes
  opened it, and what an owner set before is kept (`OpenedIsComplete`). It sets
  aside one write: a process that read "no methods" before the other wrote the
  first list may overwrite it (`connection-methods.ts`).

Observed in the code while modelling, within the exceptions above or outside
what a run states: `reorder()` of routes accepts a list with an id twice, so that
an unlisted rule ends behind the catch-all (`routes.ts:145,149`); a timer's
report of a diagnostic that has ended can set its status back to running
(`diagnostics.ts:96-98`), which is harmless to a cancelled one; `setup.ts:50` issues
the claim before the script runs; `update-engine`, killed, leaves a directory
that refuses every later attempt at that version; a first installation that failed
has no link but leaves the directory, where `readlink -f` prints the path of the link
(`update-engine:24,73`), so that the next attempt does not take the first way: it
completes without starting the engine (line 91), and when it fails it links `current`
to itself (line 76), where the comment of lines 30-31 expects no previous link; operations of services,
backups and rotations that a restart of the control plane cuts stay `running`,
since only updates and diagnostics are swept (`operations.ts:81-82,326`), the
restart of the service `outpost` itself among them; a `.tmp` file left by a
killed export makes an encrypted export of that name fail, and two exports of one
name at once may mix their archives (`export-backup-plain:22`).

### Findings

1. `conn_suspend`. `prepareSuspend()` cancels a resume that is running, but the
   run goes on and `completeResume()` clears `suspended_at` unconditionally: the
   connection opens while its suspension is still being carried out, where
   `docs/ARCHITECTURE.md:25` keeps it blocked.
2. `conn_archive`. `revoke` calls no engine when the connection has no *active*
   credential. An activation that failed after Xray took the user leaves one
   pending, so archiving completes with the user still served until another
   snapshot is installed; `docs/SECURITY.md:20` says archiving ends only after
   the engines are clean.
3. `update_error`. The ERR trap of `apply-update` is not inherited by shell
   functions, so `mark_progress` failing at line 131 ends the script without
   `rollback()`: new link, migrated schema, control plane stopped.
   `docs/ARCHITECTURE.md:73` says that on an error the previous release and
   snapshot are put back.
4. `update_snapshot`. `rollback()` installs the snapshot over `outpost.sqlite`
   but leaves `outpost.sqlite-wal` of the release it replaces, which the next
   process to open the database may replay; `docs/DEPLOYMENT.md:122` says that
   the snapshot of before the migrations is restored. `restore-backup` removes
   the log in the same situation.
5. `profile_block`. A catch-all rule BLOCK makes `block` the final outbound of
   the sing-box profile (`subscriptions.ts:266`), which defines no such outbound
   (`:154-165`); `catalog.ts:372` says of the profiles that all rules are
   preserved.

Each property of a passing run has a mutation of a mapped definition, kept
beside the original in the module, that breaks it (`mutants`).

## 4. Proofs

For all constants that satisfy the named assumptions of the modules: besides
ranges (bounds and intervals are naturals) they ask that the default template and
method exist (`EngineConfigAssumption`), that "no domain" is not a domain
(`SetupAssumption`), that there is a method to diagnose (`DiagnosticsAssumption`), that counters are
finitely many (`TrafficAssumption`), that a name has a character
(`MethodsAssumption`), that the keys of a document include `direct`
and `block` and not the empty one (`TemplatesAssumption`,
`PresetMergeAssumption`), and that the published versions are finitely many, not none, and made of a
positive core and a sequence of identifiers that are texts or numbers
(`ReleasesAssumption`). No proof uses the size of an instance.

| Module | Theorem | Says |
|---|---|---|
| `ConnectionSync_proofs` | `TypeCorrect` | `Spec => []TypeOK` |
| | `AccessCurrent` | `Spec => []AccessIsCurrent` |
| | `Consistency` | `Spec => []LifecycleConsistent` |
| | `QueueAgrees` | `Spec => []QueueMatchesOutbox` |
| | `ArchiveIsFinal` | `Spec => ArchivedIsFinal` |
| | `Refinement` | `Spec => ImplementsAccess` |
| `ConnectionEngines_proofs` | `ServedSettled` | `Spec => []ServedWhenSettled` |
| | `CutOffSettled` | `Spec => []CutOffWhenSettled` |
| | `LinksServed` | `DeliverySpec => []LinksAreServed` |
| | `MethodsServed` | `MethodsSpec => []MethodsAreServed` |
| | `OffersServed` | `OffersSpec => []OffersAreServed` |
| `OwnerAuth_proofs` | `AuthTypeCorrect` | `Spec => []TypeOK` |
| | `SingleOwner` | `Spec => []OneOwner` |
| | `SessionsBacked` | `Spec => []SessionsHaveKeys` |
| | `AuthCorrect` | `Spec => []AuthoritySpentOnce` |
| | `OwnerKept` | `Spec => []OwnerCanReturn` |
| | `CallsAuthorised` | `GatewaySpec => []CallsAreAuthorised` |
| `AppUpdate_proofs` | `UpdateTypeCorrect` | `Spec => []TypeOK` |
| | `JournalHonest` | `Spec => []JournalIsTrue` |
| | `CompletedInstalled` | `Spec => []CompletedMeansInstalled` |
| | `RollbackComplete` | `Spec => []RollbackRestores` |
| | `HistoryPreserved` | `Spec => HistoryKept` |
| `Records_proofs` | `AccountingCorrect` | `TrafficSpec => []NeverOvercounted` |
| | `CompactionExact` | `TrafficSpec => []TotalsKept` |
| | `PageWhole` | `JournalSpec => []JournalIsWhole` |
| | `EventsGrouped` | `ConnectionEventsInit /\ [][ConnectionEventsNext]_eventVars => []EventsAreGrouped` |
| | `UpgradesRebase` | `PresetMergeSpec /\ TemplatesSpec => []UpgradeKeepsEdits` |
| | `ProfilesCorrect` | `ProfilesSpec => []ProfilesInv` |
| | `RenderersAgree` | `ProfilesSpec => ProfilesAgree` |
| `Telemetry_proofs` | `IncidentsAgree` | `MonitoringSpec => []IncidentsMatchState` |
| | `EventsAgree` | `PresenceSpec => []EventsMatchState` |
| | `AbsencesObserved` | `PresenceSpec => AbsenceIsObserved` |
| | `PanelCurrent` | `PanelSpec => []PanelIsCurrent` |
| | `CategoriesExact` | `GeoSiteSpec => []CategoriesAreExact` |
| | `OpenedComplete` | `DatabaseInit /\ [][DatabaseNext]_databaseVars => OpenedIsComplete` |
| `Config_proofs` | `RoutesServed` | `RuleSetsSpec => []RoutesAreServed` |
| | `EngineRunsStored` | `EngineConfigSpec => []RunsWhatIsStored` |
| | `SetupWhole` | `SetupSpec => []SetupIsWhole` |
| | `CompletedDone` | `OperationsInit /\ [][OperationsNext]_operationsVars => []CompletedIsDone` |
| | `AdmittedByAll` | `AdmissionSpec => []AdmittedAlike` |
| `Jobs_proofs` | `EngineRecorded` | `EngineInstallSpec => []RecordIsLinked` |
| | `RestoreAtomic` | `RestoreSpec => []RestoreIsWhole` |
| | `DiagnosticsFinal` | `DiagnosticsSpec => ResultsAreFinal` |
| | `OfferSound` | `ReleasesSpec => []OfferIsSound` |

Next to them `ScriptCorrect`, `SetupCorrect`, `OperationsCorrect`,
`InstallationCorrect`, `RestoreCorrect` and `DiagnosticsCorrect` state the
inductive invariants themselves. The runs check the theorems' properties on the
instances of section 3; the proofs of one module about several components only
share lemmas on sequences and numbers, as the components share no state.

ConnectionSync. None of `AccessIsCurrent`, `LifecycleConsistent` and
`QueueMatchesOutbox` is inductive alone: a stale run can only be kept from
activating an old generation by knowing that a run is always about the newest
one, and that holds because `Rotate` refuses while a job is open, which is a
statement about rows (`RowsAgree`). Conversely the rows agree after a late
completion only because no run but a revoke is left once a connection is
archived, which is a statement about the queue (`RunAgrees`, and the order of
runs of one connection). The three together with `TypeOK` are inductive; the
proof has one lemma per action, and facts on the mapped helpers (`Closed`,
`Claim`, `Recovered`, `Submit`) are lemmas cited by name. `ArchiveIsFinal` and
`Refinement` are proved from the invariant step by step: an archived connection
has at most a revoke run, which changes nothing the second time; every step is a
step of `ConnectionAccess` or leaves `door` and `edition` alone.

The engines of ConnectionSync. What the users files and Xray's memory hold of a
connection is fixed only once its job is completed; before, it depends on how
far which run came. `EInv` says it at each moment: `RowsFit` and `EnginesFit` of
each connection by its newest job, `RunFits` of each waiting run, `CallFits` of
the call that is awaited: its snapshot may have been taken for another
connection, and may reach an engine after an error was answered for it. It
speaks of `Known`, what the next `apply-config` takes Xray to serve: its memory, or
the file where a killed script left them unlike. What the properties look at is
exactly that and the files (`HeldIsKnown`), with `OptionalInStep`: an optional engine
no killed script left behind serves its file. The
lemmas on `AskedFor`, `HolderAsked` and `Newest` say what a call can still write.
What the panel shows follows from this for each state of the newest job. What a
link opens needs `LinkInv` besides: until a connection is archived its hash
accepts the newest generation and no other, a device holds no later one, no
request was made by a later one, and a connection is marked as used exactly when
a device has the profile of the newest, unless a rotation overtook the answer.

ConnectionMethods. `MethodsAreServed` speaks of listeners, files, catalog and
sockets, which are all made of one list, so its invariant (`MethodsInv`) is about
the list: each stored method fits (`MethodFits`: a protocol its engine speaks, a
port and a path validate() takes) and every two are apart (`Apart`: names, ids,
the one place of Hysteria, AmneziaWG and the managed edge, ports per network).
It must hold of the methods of the migration too, which nothing validates: their
protocols and their ports are pairwise different in the tables
(`DefaultsApart`). That an enabled
method is answered then holds engine by engine, also while its engine has been
missing and returned; that sockets are apart, against the fixed ones of host and
engines as well (`SocketKinds`). That a suggestion is accepted needs a count: no
more ports are taken than there are methods and reserved ports
(`OccupiedBounded`), so that one in the range the search goes through is free
(`FirstFree`). `OffersAreServed` adds `LinksAreServed`: the two share no state,
and `OffersServed` is the theorem of both beside each other.

OwnerAuth. The four properties are inductive together once the numbering of
grants is added (`Numbered`: no grant, and no passkey's authority, carries a
number that has not been issued), without which a grant issued next could equal
one already spent.

Gateway. The endpoints are compared row by row, as sets (`AuthTable` and the
others): their first segments keep the groups apart, and within a group no other
path fits a sample of a path with the same method (`Apart`), but for
`operations/:`, which `operations/events` precedes (`EventsFirst`); so the first
endpoint that fits is the one meant (`EndpointFound`). A token can be given
neither a scope that implies others nor one to create tokens (`NeverGiven`);
hence what `authorized` and the handler ask for of a tool is what is documented
(`ToolServed`), and only a session creates tokens (`TokensNeedSession`).
`GatewayInv` adds that a call which waits for its handler has been authorized:
scopes never change and a revocation is final (`TokensKeep`), so the answer still
says what the check did; and that a call that got past `fetch()` had done so before
its token was revoked (`InTime`).

AppUpdate. `JournalIsTrue` is not inductive: a rollback brings a snapshot back,
so every snapshot must be true too; a timeout overwrites a status, so nobody may
be waiting for a script that can complete (`WaitedForEarly`: the wait ends with
the stop of the control plane); a rollback marks its update failed, so no
database, in use or kept, may call an update completed before its script ended
(`NoneTooEarly`). `Frame` reduces each step to these three; the lemmas `Sound...`
say that the databases a command can leave satisfy them, and there is one lemma
per action, or per group of actions that touch the same state. The properties of
the script need more, while nothing disturbed it: that it is the only one, what
each command has put in place so far and, in a rollback, has put back, that
nobody writes to the database between the snapshot and the start, and a floor on
what is installed that a completed update has set (`ScriptInv`).

Traffic. A counter, its cursor and the snapshots on their way are three readings
of one quantity at three moments, and a reset may fall between any two.
`AllCovered` says for each counter that what was recorded, plus what recording
its snapshot would add, plus what the next reading would add after that, never
exceeds what it carried; the lemmas take one counter at a time, and
`RecordCumulative` and `Collect` move the three readings forward.
For the rows, `RowsInv` says at every moment what they hold together: what was
counted and, between a roll-up and the deletion that follows it, what stands in
two tables (`Doubled`). A sum is the size of a set of units, so that no induction
is needed: a table whose rows grow by the sizes of disjoint sets grows by the size
of their union (`GrownBySets`), which is what `RollAdds` and `DropTakes` use.

Journal. The rows of the page are a `Piece` of the journal: what matches the
filter, in order, once, and all of what was known between its ends. `JournalInv`
says so of the page, up to pieces of two filters that were joined, and of the
newest request's answer, which starts at the page's cursor as it is; two pieces
of which one starts where the other ends are one (`PiecesJoin`), and a piece stays
one as the journal grows. That a list in an order holds each element once rests on
`RanksAreOnto`: in a strict total order of a finite set, elements are told apart
by how many come before.

Connection events. The agent groups by counting connects, the property speaks of
the records between two; `EpochIsSession` shows that these are the same session, by
comparing the sets counted. An error has one root or stays, a root is never merged
itself (`MergedHasRoot`), so that two events share no record (`EventsApart`).

Presets and templates. `MergeRebases`: `mergeValue()` is the three-way merge, for
arrays by what they contain (`ArrayMerged`) or by key (`KeyedArrayMerged`). While the document
is rewritten, what is before `target` is as it is wanted (`Written`): removing an
item behind it and inserting one at it leaves that alone (`RemovalKeeps`,
`InsertionKeeps`), and at the end the rest is cut off. `TemplatesInv`: every
template of an engine has the paths of its presets, which all versions share
(`PresetsShaped`), a revision is made of an earlier one, and history is only
added to (`HistoryGrows`).

Monitoring and presence. `IncidentsMatchState` is inductive with the types: one
lemma takes a service, another the gauge, through one observation. Presence needs
to know what a row remembers of its engine: a row says online or offline only
while that engine's last answer was one (`AnswersCounted`, where no crash and no
change of credentials fell between), and a time of activity is kept only with the
first one (`ActivityKept`).

Panel. `PanelInv`: a snapshot of the running process is not newer than it and, at
its revision, shows all that was announced (`Fits`); the messages on their way
are consecutive and lead from the "ready" to the newest revision (`Consecutive`);
what the data or the answer under way lacks is still announced, or the panel
says so (`Covers`, `Caught`); an answer is not older than the data it replaces
(`AnswerFits`). Each way to lose a message (a stream that closes, a restart, a revision judged
against another process's) is shown to leave one of them.

GeoSite. What is said of a code depends on its base alone, attributes and their
negations included (`CodesLocal`, `FilteredLocal`), so reading some bases says of
them what reading the whole database would; what was read for "cn" holds all that
is merged into it.

Database. Two processes are at any two statements of the opening. The invariant
says how far the migrations have come (`MigrationsFit`), what each statement of a
process relies on having been read or written (`Reads`), and what no step, of
either, takes away (`Grows`).

RuleSets and EngineConfig. The directory of the active bundle is there and whole
(`ActiveIsWhole`), also while a refresh that may be interrupted replaces it. `EngineConfig` follows one request through the agent: its shape at each step,
that one script works at a time, that the installed file, the one kept and the
temporary one follow the request and the way back (`FileFollows`,
`FileReturns`), and that the engine has loaded the file or somebody will know it
has not (`LoadedOrTold`).

Setup and Operations. `SetupInv` says, as long as no script was killed or passed
the check beside another, what each command of the one armed script has changed,
that what it keeps for the way back is the installer's or that of the domain
before, and that without a script all is of one domain. `OperationsInv` says of
each operation which confirmation it owns and what its row and its events tell, of each name of
a backup which operation writes it; exports that did not overlap are followed
command by command, so that a completed one has its whole archive and a leftover
`.plain` belongs to a running or a killed one.

Admission. The agent reads a domain in a loop, the panel splits it and matches every
part. `Scanned` ties the two at every length: the loop has not refused anything
exactly while every part that has ended is a label and the one being read could
become one, and its counters are the dots and the length of that part
(`ScanDot`, `ScanOther`, on what a further character does to the parts). At the end
"could become" and "is" differ by the last hyphen, which both look at
(`ReadToItsEnd`, `DomainsAlike`). A passphrase is at least as long in bytes as in units
(`PassphrasesAlike`), and the requests are gone through one by one (`RequestsKnown`).

Profiles. `ProfilesInv` is inductive: a list names a condition once and holds the
rule for everything else, switched on. Every edit keeps it (`EditsKept`); for
`reorder()` with a rule given twice it takes that the rule goes to the last of
its places and that the one not given is put behind, so that each is still there
once (`ReorderKept`). Each profile is a concatenation of three pieces whose answer is that of
the first piece with a match (`AnswerOfPieces`), and what a filter leaves of a list is in its
order (`ThoseLeft`), so that the first rule left is the first of the owner's that
matches (`ThoseFirst`, `LinesAnswer`); the guards and the rule for everything
else follow (`GuardsAnswer`, `CatchAllAnswers`), also where that rule is behind others
in the list or has become the final outbound (`DecidedAlike`).

Installation, restore, diagnostics. `InstallInv` follows the script that an
operation awaits: what it has linked and what it has told the control plane after
each command, unless two overlapped or an answer was given up; its way back leads to
the version that was linked, or to none, whichever path `readlink -f` had printed
(`NamedPaths`). `RestoreInv`: one
request holds the lock; what each command leaves behind, in the script and in its
rollback; all parts alike when none is armed. `DiagnosticsInv` (task, job and
status of a diagnostic agree) carries the action property: a late sample or
report meets a status it may not change.

Releases. `compareVersions` decides a strict total order (`CompareDecides`,
`NewerTransitive`, `NeverNewerThanItself`, by the first place at which two
versions differ), and a finite set of
versions has a newest and an oldest. `ReleasesInv`: what is stored is sound, with
every release it calls available newer than the running one; nothing is shown as
ready while a preparation still holds a state it has read; what is ready, also
under the version being tried, has its files; what is being tried is newer than
what it replaces.

Only model-checked, beside the findings: `JobsSettle` and `InstallationsEnd`;
liveness under fairness is out of the prover's reach. Every other property of a
run that passes is the property of a theorem.

## 5. Not modelled

* Text. Of the implementation's lines nearly half carry no behaviour of the
  server: `public/app.js` is the compiled bundle of `src/web`, and `raw.ts`,
  `semantic.ts` and `i18n.ts` are catalogs of locales. The rest of the web
  interface presents what the API answers; its Store and the journal's page,
  which keep state across requests, are in `Panel` and `Journal`.
* Rendering and parsing: the text of configurations, subscriptions and YAML, the
  protobuf of GeoSite, `/proc`, certificates, user agents, redaction. What a
  rendered file contains is modelled where a property is about it
  (`Profiles`, `ConnectionMethods`, `ConnectionSync`), how it is written is not.
* HTTP: headers, limits on bodies, presentation, static files. What a
  route adds to its service (the lock, the order of checks and awaits, the
  announcement of a revision) is in the module of the service.
* In `ConnectionSync`, requests of the agent that take effect after a later one
  (a request that timed out and goes on): an error's effect is placed at the
  moment of the error. `EngineConfig` has them as steps.
* Hysteria: it asks the control plane at each login, so `Serving` is its view.
* In `OwnerAuth`: passkey counters, profile updates, the demo owner; API tokens
  are in `Gateway`.
* In `AppUpdate`, the checks of archives and manifests (they decide only whether
  `Verify` exits), the removal of old releases and snapshots, and the engines'
  configuration that rollback puts back besides the units.
* ResourceService: one list in memory with one writer, and the parsing of `/proc`.
* The overviews of traffic, which sum the rows that `Traffic` keeps; SystemService
  and configuration, which read; installation of a clean host, nginx and
  firewall scripts, which run once and beside nobody.

## 6. Plan

In the order of what they would add.

* `EngineConfig` inside `ConnectionSync`: the same lock and the same snapshot
  files, with requests of the agent that outlive their caller.
* An abstract specification of a script with rollback ("all, or as before") that
  `Setup`, `Restore`, `EngineInstall` and `AppUpdate` implement.
* `AppUpdate`: liveness (an operation that is still read is decided in the end).
* `OwnerAuth`: passkey counters and the signed-in sessions of API tokens.
