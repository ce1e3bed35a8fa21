# A TLA+ development for kvn

kvn keeps VPN profiles, turns the active one into a sing-box configuration and
runs `sing-box` as a child process. A headless daemon owns the state; the TUI,
the command line and a desktop plugin talk to it over a Unix socket. This
directory models kvn component by component, checks the models with TLC on small
instances, and proves with TLAPS, for every instance, the invariants of the
components that decide whether a tunnel and a configuration are right (the life of
the sing-box process, `profiles.json` with everyone who writes it, rule-sets and
subscriptions with their downloads) and of those that serve the clients (restarts of
the daemon, sessions, measurements, the tour).
Paths are relative to `src/` of the repository.

## Inventory

| Component | State | Operations | What makes it correct |
|---|---|---|---|
| Process slot, workers, stoppers, ticker (`daemon/process_slot.rs`, `daemon/connection.rs`, `singbox/runner.rs`, `singbox/process_handle.rs`) | attempt id, process handle, retired handles, coordinator; retry budget; the child | retire, stop, check, spawn, watch, retry, install, poll, report | one sing-box at a time, each with an owner; a superseded worker changes nothing newer |
| Main loop (`daemon.rs`, `daemon/effect.rs`) and connection handlers (`app/update/connection.rs`, `tick.rs`) | the `Model`, the `Msg` channel | receive, `update`, save, write attempt id, execute effects, shut down | reports of older attempts are ignored; a connect is decided; Quit leaves no process |
| `profiles.json` (`config.rs`, `config/merge.rs`, `daemon/config_io.rs`, `app/update/config_reload.rs`) | the file, its revision, the unsaved merge base | save with three-way merge, reload, editor commit | no edit is lost; Model and file converge |
| `routing.json` and its editor (`config/routing.rs`, `config/recovery.rs`, `tui_client/editor*`) | the file, drafts, snapshots, recovery files | draft, submit, edit, retry, reload, archive | what was typed is in the file or in a recovery file |
| Edited documents (`config/profile/json_schema.rs`, `config/json_pointer.rs`) | none: checks | validate, read, check, locate | a document is refused where the line shown is wrong, and only then |
| Start-up, migrations, `kvn config` (`config/profile/migrate.rs`, `cli/config.rs`) | the two files at an older version | migrate, move, reset, recover | a crash between two writes loses nothing |
| Subscriptions (`config/subscription.rs`, `app/update/subscription.rs`) | list of profiles, schedule, marks, threads | fetch, merge by identity, schedule, retry | ids survive an update; an update is never stuck |
| Rule-sets (`geo.rs`, `app/update/geo.rs`, `daemon/geo.rs`, `route_plan.rs`) | `metadata.json`, files, epochs, marks, threads | schedule, download, adopt, record, refresh, restart the tunnel | cache, Model and tunnel agree; a connection settles |
| Routing modes, DNS, sing-box configuration (`config/routing.rs`, `config/profile/dns.rs`, `singbox/config.rs`) | none: functions of the settings | plan, rules, DNS rules, resolvers | traffic goes where the mode says, lookups go with it, resolvers end |
| Profiles and share links (`config/profile/share_link/*`, `singbox/outbound.rs`) | none: conversions | import, edit, export, build | the same server with the same protection |
| Kill switch, auto-connect, settings menu (`services/killswitch.rs`, `app/update/key/settings_menu.rs`) | settings, drafts, requests in flight | draft, commit, toggle, answer | the setting follows the system; Enter applies what is shown |
| Daemon lock, `state.json`, replacement (`runtime_lock.rs`, `services/waybar.rs`, `main.rs`) | lock, socket file, recorded pid | start, clean, serve, quit, crash, replace | one reachable daemon; no orphan |
| IPC, TUI, toasts (`ipc.rs`, `daemon.rs`, `tui_client/*`) | sockets, snapshots, request ids, toasts | attach, broadcast, answer, drop, reattach | clients agree; each request gets its own answer |
| Latency tests, traffic (`daemon/profile_test.rs`, `daemon/traffic.rs`) | queue, slots; counters | start, cancel, answer; poll | no result of another run or tunnel |
| Source list (`app/model.rs`, `app/update/key/sources.rs`, `reorder.rs`) | rows, selection | select, move, paste, delete, reload | the selection stays on its source |
| Onboarding, support prompt (`onboarding.rs`, `support_prompt.rs`) | progress files, overlay | cards, pickers, deadline | the tour comes back, a closed prompt does not |
| Terminal, screen, logs (`tui_client/input.rs`, `ui/layout/*`, `services/log_tailer.rs`) | bytes, windows, buffer, cursor | decode, scroll, press, tail, copy | what is acted on is what was typed or drawn |
| Setup, integration files, `kvn doctor` (`cli.rs`, `doctor.rs`, `contrib/`) | files of root, group, session | setup, refresh, clean, fix | what is reported is true; the fixes lead somewhere |
| Output, themes, icons, the plugin | none | print, draw | — (not modelled) |

Threads interact in three ways: messages on one `mpsc` channel to the main
loop, the `ProcessSlot` under its mutex, and files. Only the main loop changes
the `Model`. Processes interact through the socket, the lock and the files. The hard
behaviours are interleavings of worker threads with the loop; results that
arrive after what they are about was replaced; retries that go on while the user
does; a shutdown or crash in the middle of any of it; files changed behind the
daemon; and pages and lists whose contents change between a drawing and a key.
`PROJECT.json` lists forty hazards with the line where each bites; the ones beyond
those are listed at the end of *Disagreements*.

## Modules

Components that are modelled on their own, with their properties at the end of
each module:

| Module | What it is | Suite |
|---|---|---|
| `SingleTunnel` | The abstract promise: one tunnel, started and published only for a request that is not superseded, none left when the daemon is down. | |
| `ConnectionLifecycle`, `ConnectionInvariant` | The daemon: main loop, handlers, slot, workers, stoppers, ticker, kernel; the refinement mapping to `SingleTunnel`; the inductive invariants `IInv`, `ServiceInv` and `DecidedInv`. | `MCConnectionLifecycle` |
| `ConfigStore` | `profiles.json`: commits of the main loop, `load_config` in reload workers and at startup, the kill switch, the external editor, other programs, a crash; the inductive invariant `StoreInv`. | `MCConfigStore` |
| `Schedule` | The daily window, its retries and its intervals; used by the next two. | |
| `Subscriptions` | What is read from a server's answer; marks, threads, results, ids, saves that fail, effects on the connection. | `MCDownloads` |
| `RuleSetCache`, `GeoUpdates` | `metadata.json` and the files; schedules, download and refresh threads, epochs, and the connection that waits for them. | `MCDownloads` |
| `Daemons` | Daemon processes and the clients that start, find, replace and lose them. | `MCClients` |
| `Session` | One daemon and its clients: commands, snapshots, answers, drops, restarts, toasts. | `MCClients` |
| `Measurements` | Latency tests and traffic polls. | `MCClients` |
| `Sources` | The source list and its selection. | `MCClients` |
| `Tour` | The first-run tour and the support prompt. | `MCClients` |
| `ShareLinks`, `Outbounds`, `LinkSharing` | Import and export of links with their `fm` parameter; the outbound of a profile; a link on its way from one kvn to another. | `MCConfiguration` |
| `RoutingModes`, `DnsPresets`, `SingBoxConfig`, `TrafficRouting` | Modes and plans; DNS settings; the generated rules; how sing-box (external) follows them. | `MCConfiguration` |
| `RoutingEdits` | Drafts, editor sessions and recovery files of `routing.json`. | `MCConfiguration` |
| `SettingsMenu` | Pages, drafts, toggles and their requests. | `MCConfiguration` |
| `Documents` | The schemas, their validator, what serde and the semantic checks add, and the line of a problem. | `MCConfiguration` |
| `StoredFiles` | Migrations at the start and `kvn config`, cut anywhere. | `MCConfiguration` |
| `TerminalInput` | The reader thread, its decoder and the pauses for an editor. | `MCTools` |
| `ListScroll`, `Screen` | The wheel; what is drawn where and what a press hits. | `MCTools` |
| `LogView`, `LogFiles`, `LogCopy` | The log buffer with cursor and selection; the files and their tailer; copying by mouse. | `MCTools` |
| `Integrations`, `Doctor` | Scripts of setup, refresh and clean command by command; the checks and fixes of `kvn doctor`. | `MCTools` |

The modules named `..._proofs` hold the theorems, one module per component:
`ConnectionLifecycle_proofs`, `ConfigStore_proofs`, `GeoUpdates_proofs`,
`Subscriptions_proofs`, `Daemons_proofs`, `Session_proofs` and `Measurements_proofs`.
`Suites_proofs` carries the last five over to the suites `MCDownloads` and `MCClients`
and has the proof about the tour.

*Suites.* Each of `MCDownloads`, `MCClients`, `MCConfiguration` and `MCTools` checks
the components of one theme in one run: Init chooses a `part`, the suite's variables
v1, v2, ... are given to the named instance of that component, and the properties of
the suite are those of the components guarded by the part. Nothing passes between
the parts of a suite. Where components do interact, that is modelled within one
module: `GeoUpdates` has the tunnel that needs the rule-sets, `Subscriptions` the
saves that fail and the connection, `Daemons` the tunnel and `state.json`,
`TrafficRouting` the whole way from a mode to what sing-box does. A suite
instantiates a component through its `..._proofs` module, which extends it, so that
`Suites_proofs` can cite the lemmas for the very instance that TLC checks.
`MCDownloads` extends `MCClients`: the theorems about both are in one module.

*Seeded faults.* An operator named `Definition_Fault` before a definition is a
plausible bug of it. No specification uses one; `PROJECT.json` pairs each property
with a fault that violates it.

### How `ConnectionLifecycle` corresponds to the code

*Model.* `connection`, `connectingProfile`, `activeProfile`, `singboxPid` and
`attempt` are the fields of `Model`. The configuration is reduced to the set of
`profiles`, to `routingError` and to `settings`, a number that grows with every
change of what a tunnel is started with. `disk` is the set of profiles in
`profiles.json`.

*Main loop.* One turn of `run_loop` is `Receive` (one message, its handler, and
the save that goes with it), `SyncAttempt` (`process_slot.attempt_id =
model.connect_attempt_id`) and one `Execute...` action. They are three steps
since other threads run between them. A handler returns at most one effect that
touches the connection, so `effect` is one value.

*Saves.* `Persist` is `persist_config_changes`: the merge with the file replaces
the Model's profiles, or a failed save restores them. The handlers choose
whether the save succeeds. The merge is taken on ids: an id survives when both
sides kept it or one added it.

*Threads.* Connect workers and stoppers share the program counters `lock`, `take`,
`stop`; a worker goes on to `check`, `start` (config check), `spawn`, `watch`,
`install` and `report`, with `wait` for a retry, `failed` for an error and
`discard` for a process that was superseded before its install. From `take` to
`unlock` the thread holds the coordinator. `Cancelled(t)` is the
`is_current_attempt` check, made where the code makes it.

*Kernel.* A process is `free`, `up` or `exited` (a zombie not waited for yet).
`Reap` is `ProcessHandle::stop`: it returns when the child is gone.

*Shutdown.* `ExecuteQuit` ends the loop; `run` bumps the attempt id, waits for the
coordinator, stops what the slot holds and returns. All threads end with the
process.

### Abstractions

- Attempt ids are naturals; the code's `u64` does not wrap in practice.
- A retry budget counts retries instead of seconds and may give up after the
  first, so every duration is covered.
- `Threads` bounds the workers that exist at once. When all are busy the main
  loop waits for one, which it never does in the code; with more threads it
  waits less and the theorems hold for every set of threads.
- Messages that change the configuration carry their result: the new set of
  profiles and whether the connection's settings or profile differ. A reload
  reads the file when its message is sent; its two messages
  (`ConfigReloaded`, `RoutingReloaded`) are sent independently. Failed reloads
  change nothing and have no action, apart from an invalid `routing.json`.
- A rewrite of `profiles.json` by another program changes the set of profiles
  only. The merge base after a failed save, and the last connected profile, are
  in `ConfigStore`; `OnToggle` takes any last profile.
- An auto-connect that was taken back before its first tick is Idle with attempt
  1 in the code and 0 here; nothing compares ids with constants.
- Deleting a whole subscription, status lines, traffic, the kill switch and the
  overlays are left out here (see `Subscriptions`, `Session`, `Measurements`,
  `ConfigStore`, `Sources`).
- `started` in an exit message is auxiliary: the attempt of the process that
  exited, used by `StaleExitIsIgnored` only.
- Errors of `waitpid` and `try_wait` are left out.

### How `ConfigStore` corresponds to the code

*Configuration.* A kill switch and a function from the other fields to values.
The file is a text (with a configuration, and whether loading would rewrite it),
broken, or absent; the code compares bytes, the model the whole record.

*Commit.* `commit` is the `commit_config_change` that the main thread executes.
`BeginCommit` starts it; `CommitRead` reads and merges, `CommitVerify` is the
last read of `write_inner`, `CommitPublish` the rename together with what the
caller does on success. `CommitConflict`, `CommitRefused` (blocked, unreadable or
changed file) and `CommitError` (any I/O or validation error) end in
`CommitFailed`, which has one disjunct per caller: `persist_requested_change`
restores the Model, `persist_confirmed_state` keeps it and the merge base,
`commit_edited` answers, `reconcile_kill_switch_state` takes the unit's state.
The main loop does nothing else during a commit (`InLoop`); the other threads do.

*Load.* `loader[l]` is one `load_config`: read, check and rename when the text
was migrated or normalised, then `LoadHwid`, a write without a check, when the
HWID is empty. A worker reports with `LoadSend`; at startup `ModelNew` takes the
result or falls back to the defaults with saving blocked.

*Kill switch.* `helper` is the worker of `ApplyKillSwitch`, `unit` the systemd
unit; they live on opposite sides of a crash.

*Editor.* `session` is `edit_until_saved`: the base, the document, what the user
touched. A conflict puts the user back into the editor with one of
`ConflictDocuments` and the current configuration as base. `opened` is the text
the session began with, which alone ends it as unchanged. The answer carries the
id of its request; after a timeout it is dropped.

*Auxiliary.* `own` and `touched` (fields a change is about), `confirmed` (fields of
confirmed state not saved yet) and `reconciled` (startup learned the unit's
state) are read by no action.

Abstractions: recovery files (see `RoutingEdits`, `StoredFiles`), status lines and
the effects of a reload on the connection are left out; so are the reset of `last_connected_profile` when the
merge loses its profile, the move of old overrides to `routing.json` at startup (see `StoredFiles`),
and the reconciliation of auto-connect. A field is merged as a whole: the order
of the arrays is not modelled. A helper that is running when the daemon dies has
no effect. `ReloadConfig` is accepted over IPC at any time, as the code does.
`RenameRaces` says whether another writer may come between a writer's check and
its rename, and `Hwid \notin Fields` that the HWID was generated long ago; both
are needed for `OwnFieldsOnly`.

### How the other modules correspond to the code

An action is a handler with its early returns and the save that follows it, or one
step of a thread between two points where others can act. Every definition is
mapped to its lines in `PROJECT.json`.

*Subscriptions.* `marks` is `subscription_updates`, `inFlight` the fetch threads,
`results` their messages. A handler edits `config` and saves it; a failed save
restores it and drops the other effects. A server is what `identity` compares
(address, credential, server name, REALITY key); an answer is its status, headers,
form and lines. Time moves between the members of a set of minutes that has the
edges of the daily window, of the five retries and of a date. The texts of lines,
HTTP and names are left out. `failedToday` is auxiliary: the automatic updates that
failed on the current date, counted also when the save of the retry state fails; a
subscription that is pasted again has no past.

*Rule-sets.* `jobs` are download threads with the phases load, adopt, fetch, record and
send; `meta` and `files` are what they share on disk, guarded by the metadata lock
(each phase is one step). `states` is what the main loop was told. The threads that
only refresh the Model's view (`refreshes`) read in one step and send in another, so that what
they read may be old when it arrives. A version number
stands for bytes and ETag. `link` is the connection reduced to the plan it runs,
whether it is the fallback, and a worker; the report of a
connect that was superseded stays in the channel and is ignored when it is received.
The worker looks at the cache once (`WorkerReads`: `collect_geo_availability` reads the
metadata and the files without writing, so the look is one step) and uses what it saw
in every attempt of `start_with`. sing-box opens the files by name later, in the
attempt that succeeds (`WorkerStarts`): in between, a download thread may have removed
one, and the start fails, or have put another in its place. The plan a tunnel runs and
the addresses its files came from are kept in `link.tunnel`; `edited` is auxiliary and remembers
that `routing.json` changed while the worker was starting. `stale` is
auxiliary: addresses no longer declared that were downloaded all the same, and files
whose state was read before a download of them ended and sent after it;
`StatesMatchDisk` and `ConnectionSettles` are about behaviours without them.
`FilesAreOfTheirSource` excepts a tunnel that is `edited` (without the exception TLC
refutes it: a file is replaced by that of the new address in the window, and the reload
that brought the address reconnects unless its plan awaits a download, see the
disagreements), a `stale` file (the proof needs it; two edits of `routing.json` would
have to meet one start, more than the bounds of `downloads` have) and metadata that could
not be written.

*Daemons.* A process starts, takes the lock, cleans what `state.json` names, binds,
serves and quits, one file operation per step; a crash frees the lock only. Clients
look for a socket, ask an outdated daemon to quit, wait for it, and start another.

*Session.* `daemon` is the broadcast state with its revision and `STATUS_EVENT_CAPACITY`
status events, `wire` what a client has not read. A TUI keeps its focus, its popup
and its scroll until the answer with its request id or the expiry; a command takes
its outcome from the answer to its request.

*Measurements, Sources, Tour.* Threads, messages and files as in the code; a latency
is not modelled, traffic counts up to `MaxTotal`. An answer of the Clash API is stamped
when it arrives, in milliseconds and at any member of `Stamps`, so two samples may be
close together, at the same time, or in the wrong order when the clock was set back; the
rate is per second. That is why a rate may exceed what the tunnel has transferred (as in the
test of `compute_rate`, 100 bytes in 250 ms), and `TrafficIsOfThisTunnel` bounds it by 1000
times that: samples that count are at least a millisecond apart. In `Tour` an answer of
`check_onboarding` and a failed save are choices.

*Links.* A link is its credentials, its parameters and its `fm` document. A name and a
password are spelt as in the link, percent-encoded or not (`Encoded` has a name that needs it),
because some parsers decode them and some do not. Parameters and base64 documents are
atoms: every parser decodes them and every encoder encodes them. The last of a repeated
parameter wins. `Edit` is what a user may do in `profiles.json`. The reference is the
outbound: the profile imported from the exported link must build the same one, except
where the code loses the login (`LosesLogin`, see the disagreements); of those links
everything but the login must survive.

*Routing.* `BuildDnsRules` and `BuildRoute` yield the DNS and route rules in order; `TrafficRouting`
evaluates them for every name and address (the external reading of sing-box 1.14),
and the plan of the mode evaluates itself. One name has another address when it is
asked through the tunnel, the case that tells an address rule from a name rule. The
sniff rule is for destinations without a name (`Nameless`, the inverted `domain_regex`), and the
name a connection shows when it is sniffed may be another one than was looked up.

*Edits, settings, files.* A document of `RoutingEdits` is the rules of two modes; `view`
is what the client last heard. In `Documents` a value is a kind with what it holds, the
schemas are cut to the fields that differ in how they are checked, and the reference is
a direct statement of what is allowed. In `SettingsMenu` a page drafts values from small
sets; a save takes over what the file changed meanwhile, or fails; a reload changes
several fields at once; `workers` are the privileged calls under way. In `StoredFiles` each write to one of the two files is a step, `Interrupted` a crash
between two.

*Terminal and screen.* A byte stands for a class of characters the decoder tells
apart; a read ends after any byte. `Screen` draws every line with its width in
columns, truncates what does not fit and counts the rows a wrapped line takes; presses
and the wheel use the code's other computation of the same places. `LogCopy` has narrow, wide and combining characters.

*Setup.* A script is the list of its commands, each of which may fail; a reboot or
the end of the session may come between two. A file is absent, current or old.

## Runs

### Connection and store

`MaxChannel` limits inputs only (reports are always delivered), and
`MaxQueuedTicks = 1` loses little: a tick that finds no queued connect does
nothing, and the next may be sent as soon as one is taken. Two threads are a worker
and the worker or stopper that races it; `DistinctAttempts` and `LockInv` show why a
third only waits. `attempt < MaxLateRuleSet` bounds the reconnect that follows a
tunnel started without a rule-set that has arrived since.

| Run | Inputs and bounds | Shows |
|---|---|---|
| `inputs` | any 2 messages (commands, resume, settings, reloads, edits, updates), rewrites of the file, 2 profiles, 1 crash of sing-box | one tunnel, none forgotten, Model and slot agree, clean exit |
| `settings` | 3 of settings and profile changes, reconnect, disconnect; no writer but the daemon | a live tunnel has the current settings; Idle means no tunnel; a connection has its profile |
| `retries` | 2 of reconnect, disconnect, quit; both retry reasons, 2 ports, 2 retries | refinement of `SingleTunnel` |
| `liveness` | as `retries` with one reason and one process id, under `FairSpec` | a connect is decided, retired processes stop, Quit ends |
| `store_writes` | 1 change, 1 write of another program, 1 reload, 1 edit submitted up to twice; 2 fields, 3 values | `StoreInv`; a write keeps the fields of others, resolved conflicts too |
| `store_killswitch` | 2 changes, 1 foreign write, 1 reload, 1 error, 1 crash; missing HWID, rename races | the kill switch of Model and file is that of the unit; confirmed state is saved by the next save |

Three values are a base and two different changes, the least that conflict; two
fields are the one that is changed and one that must be kept. One foreign write
suffices, since a commit reads the file twice and a second write only repeats the
first for the next commit. Deadlock is checked in these runs.

### Suites

| Run | Part and bounds | Shows |
|---|---|---|
| `downloads` | subscriptions: 2 of them, lists of up to 2 of 4 servers and answers of every kind; or a whole day of failing updates | `MarkedIsUnderWay` (nothing is marked without a thread or result; at most five automatic failures on a date), `UpdatesKeepProfiles` (ids and order), `UpdatesEnd` |
| | rule-sets: a required and an optional one, 3 versions of `routing.json`; six sets of bounds, one per situation (edit, keys, second download, reset schedule with restart, unwritable metadata, kill switch) | `FilesAreOfTheirSource` (no two threads on a file; a tunnel routes by files of the address it was planned with), `StatesMatchDisk`, `ConnectionSettles` |
| `clients` | daemons: 3 processes, 2 clients, 2 versions; launches, quits, crashes, faults in four proportions | `DaemonRestartsAreSafe`, `ReplacementReconnects` |
| | session: 2 TUIs, or one with a drop, a restart or a command beside it | `ClientsAgree` (focus and popup; a command reports its own outcome), `ErrorIsDrawnBeforeCleared` |
| | tests, traffic: 3 profiles for 2 slots; 2 tunnels with 2 polls each, answers 0, 1, 249 or 250 ms apart in either order | `ResultsAreOfThisConnection` |
| | sources: 3 profiles in every order and subscription, 4 edited files | `SourcesStayInPlace` |
| | tour: all cards, both kinds of machine, failing saves, restarts | `TourKeepsItsPlace` |
| `configuration` | links: every scheme, names and passwords plain, encoded or missing, up to 3 parameters of the ones it knows and some it does not, 6 masks | `LinksKeepTheirMeaning` |
| | routing: up to 2 rules of 6, every presence of files, 5 DNS settings, a sniffed name that is or is not the one looked up | `RouteAsPlanned`, `LookupFollowsRoute` (lookups go with the traffic, and the chain of resolvers ends) |
| | documents: hand-written files with every kind of mistake, in two layouts | `EditsAreJudged` (a document is accepted exactly when it may be, and the line shown is that of the problem) |
| | edits: 3 changes, 1 recovery file of each kind | `EditsAreKept` |
| | settings: the connection page, interface with routing, DNS with routing; saves that merge or fail | `EnterAppliesWhatIsShown` (what Enter saves is what the page showed, unless the save failed; a page opens as saved) |
| | files: 1 region, 2 commands, starts that are cut | `MigrationsKeepSettings` |
| `tools` | input: 2 units on their way, reads that end anywhere | `DecodedAsTyped` |
| | screen: sizes where the layout changes, lists of every shape, overlays shorter and longer than the screen | `ScreenIsConsistent` |
| | logs: 4 records, 3 lines and 1 trim, 3 texts in 2 sizes | `LogsAreFaithful`, `CursorKeepsItsRecord` |
| | integrations, doctor: 2 group numbers, 3 sing-box versions | `SetupConverges` |

The bounds of a suite are sets: a behaviour picks one member and keeps to it, so that
each situation is explored deeply without their product. Parts may stop (a user who
does nothing more), so the suites do not check deadlock; what must go on is stated
as a liveness property. Every action fires in some passing run.

Some properties have a condition that marks where the code promises less. `LogFiles!NewLinesShownOnce` holds while no file was trimmed since the TUI
opened (`intact`), `DecodedAsTyped` while every pause was answered (`whole`),
`MigrationsKeepSettings` leaves out a daemon that starts while `kvn config` writes
(`overlapped`), `TourKeepsItsPlace` excepts a disconnect, `ConnectionSettles` an
address that moved during its download, `FilesAreOfTheirSource` an edit of `routing.json`
during a start, and `LinksKeepTheirMeaning` the login of `LosesLogin`. Each exception is a disagreement or a
hazard listed below.

*Fairness.* In `liveness`: weak fairness of the main loop, of each thread and of the
ticker's two sends, and of its poll while the loop runs: the operating system
schedules them, and each of their calls returns (the checks and the watch have
time-outs, the retry sleeps end, `stop` escalates to SIGKILL). In `downloads`: weak
fairness of each fetch or download thread (HTTP calls have time-outs), of the loop
that takes their messages, of the tick that starts a queued connect, and of the
connect worker, which looks at the cache and then starts the tunnel or fails (`check_config`
ends, the start watch has a deadline, the attempts are three). Nothing is assumed of clients,
editors, servers or sing-box.

### Disagreements between code and documents

Two runs end in a violation; `PROJECT.json` quotes the documents.

- `stale_exit`: an exit is stamped with the slot's newest attempt. When sing-box
  dies and a reconnect is queued (resume) before the ticker polls, the exit of
  the old process cancels the reconnect.
- `reconnect_loop`: `routing.json` moves an optional rule-set to another address
  while the old one is being downloaded. The late result marks the rule-set as
  present, the tunnel starts without it, and each start is followed by a reconnect
  that was to bring it in.

The others have no run of their own. TLC refutes the property that is named when it
is added to a configuration of the suite (for `ConnectionLifecycle` with the inputs named).

| Property | The code | Says otherwise |
|---|---|---|
| `ConnectionLifecycle!IdleRunsNoTunnel` with `Inputs <- Adoptions`, `DiskEdits <- AllDiskEdits` | `tick.rs:60`: when the profile of a queued reconnect vanishes through the merge of a save, the tick goes Idle without a disconnect; the old tunnel stays up and `kvn disconnect` does nothing | `docs/cli.md:100` |
| the same with `ResumeOnly`, `MaxExits = 1` | `process_slot.rs:73`: the exit of the old process, stamped with the newest attempt, is handled while that attempt's worker starts the new tunnel; the worker installs before the attempt id of the exit reaches the slot, so the Model is Idle with a tunnel that `kvn disconnect` leaves up (the stamp is that of `stale_exit`) | `docs/cli.md:100` |
| `ConnectionLifecycle!TunnelRunsCurrentSettings` with `ModeOnly` | `routing.rs:77`: a mode selected during a pending connect is not applied | `docs/configuration.md:433` |
| `ConnectionLifecycle!InvalidRoutingStartsNothing` with `BrokenRouting` | `tick.rs:53`: a connect queued before `routing.json` broke is started | `docs/configuration.md:577` |
| `ConfigStore!OwnFieldsOnly` with `Hwid` among the `Fields` | `config.rs:169`: loading a file without a HWID writes it back unchecked, over a save made since it was read | `docs/architecture.md:304` |
| the same with `RenameRaces = TRUE` | `config.rs`: a write of another program between the revision check and the rename is overwritten, not merged | `docs/architecture.md:304` |
| `Subscriptions!OneProfilePerServer` | `app/update/subscription.rs:66`: a fetched server whose id is reused is added without a look for it elsewhere, beside a standalone profile of the same server | tests at `app/update/subscription.rs:380`, `:897` |
| `GeoUpdates!TunnelRunsCurrentPlan` | `config_reload.rs:161`: a reload whose plan waits for a download does not reconnect, and the end of that download need not either | `docs/configuration.md:592` |
| `LinkSharing!SameConnection` without `LosesLogin` | `parse.rs:953`, `:358`: the name of an ssh or vless link is kept as it is spelt and encoded once more at the export (`encode.rs:558`, `:219`), so that `a%40b` comes back as `a%2540b`, another user. (`parse.rs:391` does the same for a VMess URI, which is exported as a document and survives.) `encode.rs:466`, `:491`, `:517`: the password of a SOCKS, HTTP or naive login without a name is not written | `encode.rs:602`, which every other login satisfies |
| `Tour!TourHasAWayBack` | `daemon/connection.rs:242`: a disconnect closes the open overlay, the tour's cards and pickers with it | `app/update/key/onboarding.rs:16` |
| `RoutingEdits!DraftsAreKept` | `config_reload.rs:100`: an edit of `routing.json` that is saved drops every draft of rules, also those of other clients and modes | `docs/configuration.md:431` |
| `StoredFiles!UsedRegionsAreKept` | `config.rs:34`: a crash between the migration of `profiles.json` and the creation of `routing.json` forgets the regions that were used | `docs/configuration.md:469` |
| `Screen!WheelAlwaysMoves` | `ui/layout/overlay/help.rs:83`: while its first command is selected the help is put back to the top, and a notch of the wheel shows nothing new | test at `tui_client/handler/wheel.rs:37` |
| `SettingsMenu!PreviewEndsWithItsPage` | `daemon/connection.rs:242`: a disconnect closes the page without ending the theme's preview | test at `tui_client.rs:403` |

Smaller ones: some updates change the state without an effect that
broadcasts it (`daemon.rs:165`, `docs/architecture.md:209`); after
a trim the tailer loses or repeats lines (`log_tailer.rs:106`, `docs/architecture.md:248`);
a reconnect queued by an editor commit is not in the slot until the next message,
although the id is said to be written after every update (`settings` and `inputs`
include the case and no harm follows).

*Hazards beyond the list in `PROJECT.json`*, none covered by a property: a daemon that
dies between spawning sing-box and writing `state.json` (`singbox/runner.rs:245`); a
polkit answer to an older request (`app/update/connection.rs:238`); an update that
removes the previously active profile (`app/update/subscription.rs:126`); a save that
adopts the deletion of the connected profile, made by another program or by the daemon's
own save after a reload was read and before it is handled (`daemon/config_io.rs:96`); `waitpid`
failing in the start watch (`runner.rs:284`); a toast that outlives its reason
(`toast.rs:39`); a latency test orphaned by a crash (`profile_test.rs:46`); a press
on a row that moved since it was drawn (`mouse.rs:107`); check and write in
`kvn config` (`cli/config.rs:203`); a retained snapshot overwritten by the next edit
(`editor.rs:226`); recovery files named by local time (`recovery.rs:133`); an anchor
whose record left the buffer (`navigation.rs:176`); the flag of an earlier pause
(`input.rs:44`); an address rule before a direct name rule (`singbox/config.rs:272`);
VMess with REALITY and no key (`parse.rs:501`); an `ech` block that comes back
(`encode.rs:26`); an HTTP profile exported without its TLS (`encode.rs:484`); traffic
totals that step back; Enter on the connection page with auto-connect off and the kill
switch drafted, when the save fails: the effect that would change the kill switch is
dropped with the save but `kill_switch_pending` stays set, so that every later change of
the kill switch is ignored until the daemon restarts (`settings_menu.rs:285`,
`daemon/config_io.rs:58`; TLC finds it in `SettingsMenu` as a pending request without a
worker); torn or unstamped lines sorted by local time
(`log_tailer.rs:61`, `:176`); spaces lost at a soft wrap (`log.rs:286`).

## Proofs

*Connection.* `ConstantsAssumption` is the only assumption: the constants have their types,
`None` and `Main` are distinct from everything else. The sets are arbitrary, also
infinite, and the bounds arbitrary naturals.

- `TypeCorrect`: `Spec => []TypeOK`, one lemma per group of actions.
- `Invariant`: `Spec => []IInv`.
- `OneSingBox`, `NoneForgotten`, `CleanExit`: from `Invariant`.

`AtMostOneSingBox` is not inductive: that a spawn finds no other process depends
on who owns the processes that exist. `IInv` says so in eight parts. `LockInv`:
the thread past `lock` is the one in `coordinator`. `StoppingInv`: handles wait
to be stopped only there. `AttemptInv`, `QueuedIsNewest` and `DistinctAttempts`:
a queued connect is newer than every worker, and no two workers share an id.
`CurrentSlotInv`: as long as the current attempt has not installed, the slot is
empty, and once its worker took the retired list, that stays empty. `StartingInv`
carries this over to a worker that is cancelled past its check: whoever
superseded it retired nothing, as the slot was empty, and the successor waits for
the coordinator. `ProcessInv`: every process has an owner (slot, retired list, a
stopper, a starter) and there is at most one. With `LockInv` a worker about to
spawn is the only possible owner, and owns none.

`StoppingInv` with `ProcessInv` gives the clean exit: when the phase is `exited`
nothing is in the slot, the lists are empty and no thread holds the coordinator,
so no process has an owner.

The proof follows the actions: `ThreadKeeps` (workers), `DisconnectKeeps` and
`QueueKeeps` (the two kinds of change a handler or effect makes), `MainKeeps`,
`EnvironmentKeeps`, `InitKeeps`.

`IInv` is checked by TLC too when `INVARIANT IInv` is added to `Lifecycle_inputs.cfg`;
no run does, as it is proved.

*Configuration store.* The assumptions are `FieldsAssumption` and
`NoneAssumption`: the constants have their types, `None` is neither a
configuration nor a Boolean. Fields, values and workers are arbitrary sets.

- `StoreTypeCorrect`: `Spec => []TypeOK`.
- `StoreInvariant`: `Spec => []StoreInv`.
- `KillSwitchCorrect`, `KillSwitchWritten`, `ConfirmedStateKept`: with or without
  rename races.
- `WritesKeepTheRest`: `OwnFieldsOnly`, assuming `~RenameRaces` and
  `Hwid \notin Fields`. It fails without either (see above).

A write keeps the fields of others because the merge takes an edited value only
where it differs from the base, so the base and the edited side of every commit
must differ only in the commit's own fields (`CommitOwn`). That is easy for one
save and hard for a sequence: after a failed confirmation the base is an older
configuration (`UnsavedOwn`, `SavingOwn`), an edit arrives through the inbox
(`InboxOwn`), and a conflict moves the base of the document (`SessionOwn`, with
the lemma `ConflictDocumentCorrect`). `PublishInv` adds that the file is still the
one that was merged. For the kill switch, `HelperInv` says that at most one run
of the helper is on its way and is the one the Model waits for, `UnitInv` that the
Model differs from the unit only while that result is in the inbox, and
`CommitSwitch` that no commit carries another value.

*Refinement.* `Refinement` is `Spec => SingleTunnel!Spec` under the mapping of `ConnectionLifecycle`, step by step: the tunnel of the abstract
specification is the one running process (`ProcessInv` makes it unique), `starting`
until its worker installs it and `serving` from then on. A handler that supersedes maps
to Supersede, `spawn` to Start, `install` to Publish, the end of a process to End, and
everything else to a stutter.

`Reports` and `ConnectedIsInSlot` need more than `IInv`: what the Model believes comes from
messages, so the invariant must speak of the channel. `ServiceInv` adds to `IInv` that
nobody but the slot's owner reaps its process (`SlotInv`), that a worker starts the
profile it was given (`ChildProfileInv`) and that a success which the Model would still
believe, one with the current attempt id, whether it is about to be reported, in the
channel or believed already, is about the process in the slot or that one's exit has
been reported (`ReportInv`). It is inductive because
a worker installs before it reports, the ticker stamps exits with the slot's id under
the mutex, and every handler that gives up a process takes a new id.

*How connects are decided.* `DecidedInv` adds to `ServiceInv` who still has a say in the
current attempt (`Decisions`): either its one worker has not reported yet, or its one outcome
is in the channel, and both only while the connect is pending and for the profile that was
asked for (`OutcomeInv`); a pending connect has its id in the slot (`PendingInv`), no
process is of an attempt that is still queued (`ProcsInv`), a worker starts its process
with the settings it was given (`ChildSettingsInv`), and a failure leaves the slot empty
and no worker that could fill it (`FailureInv`). `ConnectedFromPending` follows: only the
pending attempt turns the Model Connected, with the profile that was asked for.

The three invariants of `settings` rest on it. They are false for arbitrary inputs (see the
disagreements), so each theorem names the states in which the code does not keep its promise
as a hypothesis on the behaviour, and nothing else:

- `ConnectionKeepsItsProfile`: `[]ConnectionHasProfile`, if every save finds
  `profiles.json` as the Model knows it (`SavesFindTheirFile`), so that the merge adopts
  nobody's deletion. `HasProfileInv` is the inductive form: until the effect that takes it
  down, a connection has its profile.
- `IdleHasNoTunnel`: `[]IdleRunsNoTunnel`, if moreover an exit carries the attempt whose
  process exited (`ExitsAreStamped`). An idle Model has an empty slot and no worker that
  would fill it (`IdleInv`), because an exit or a failure that the Model would believe comes
  when that is so already (`ExitInv`, `FailureInv`) and the tick cannot go Idle.
- `TunnelHasCurrentSettings`: `[]TunnelRunsCurrentSettings`, under `SavesFindTheirFile` and
  `ChangesRestart`: the three changes the code does not restart for (a mode selected while
  a connect is pending, an invalid `routing.json`, a plan that awaits a download) do not
  meet a connection. `SettingsInv` extends the promise to the worker of a pending connect.
- `UndisturbedDaemon`: all three without a hypothesis on the behaviour, for a daemon whose
  files nobody else writes (so that nothing is reloaded), whose mode and routing file stay, and whose sing-box does not
  die by itself, for any number of commands, edits, deletions, subscription updates,
  profiles, workers and retries. Its lemmas (`FileIsKnown`, `AllChangesRestart`, `NoExits`)
  also show that the hypotheses above can be met.

*Daemons.* The assumptions (`ConstantsOK`) are that process numbers are positive naturals, as pids
are, and that the installed version is a version. `RestartInvariant`: the lock is held
by exactly the daemon that is past `locking` (`LockInv`), so it alone removes and binds
the socket (`SocketInv`); a daemon has one tunnel (`OneEach`), and a recorded tunnel that
nobody failed to stop is the one in `state.json`, which the next holder of the lock reads
before anything else (`RecordedInv`). `ClientInv` says when a client remembers that it made
a connected daemon quit. `RestartsAreSafe` and `ClientsReconnect` follow.

*Measurements.* The assumptions are a finite set of profiles, a natural number of slots and
natural stamps.
`TestInv`: the profiles in `testing` are those of the threads, one thread each, and none of
them waits in the queue; what waits does so once. With a count of the threads (they are
in bijection with `testing`) a start never exceeds the slots. `TrafficInv`: no poll is of a
tunnel to come, and one that names the current tunnel holds no more than it has
transferred, so the answers that the early return lets through are of this tunnel. The
first of them finds no stamp and yields no rate; for the others `RateIsBounded` says that
a rate is at most 1000 times the difference, whatever the stamps.

*Session.* The only assumption is that the command line is not one of the TUIs; TUIs,
statuses, drops, restarts and commands are unbounded. A quiet TUI agrees with the daemon
because of what is under way when it is not quiet. `WireInv`: what a linked TUI has not
read are snapshots in their order, each follows on the ones before it, and the last shows
the daemon as it was broadcast. `AgreeInv`: a focus that waits for its answer has its
request in the daemon's inbox or an answer on the wire, and the TUI has drawn every event
up to the revision it has seen, also of the snapshots it has still to read, so that the
early return on an equal revision and the filter on older events lose nothing. `ClearInv`:
a clear that is under way names a revision that was drawn, so `clear_error_status`, which
compares it with the newest revision, cleared a drawn error (`ErrorsAreDrawn`). `CliInv`:
request ids are given once, at most one request of the command line waits, and an answer
with its id carries the outcome. A TUI's step of any kind is a `TuiStep`; one lemma says
that such a step keeps the invariant, another that a broadcast does.

*Tour.* No assumptions. The tour waits for a screen only while no card is shown or due
(`TourAwaits`), and what closed the prompt on the disk closed it in memory
(`TourPrompt`): that makes `TourAndPrompt` inductive through failed saves and restarts.

*Rule-sets: the address of a file.* The assumptions (`ConstantsOK`): a version of
`routing.json` names finitely many rule-sets, a file name with one address, and `NoUrl`
is no address. Schedules, edits, keys, restarts and faults are unbounded.
`FilesHaveTheirSource` needs that nobody touches a file between the step that writes
its new address into the metadata and the one that replaces the bytes. `DownloadInv`
says why: a key is marked from the start of its download to the handler of the
thread's message, so the keys of the threads and those of the pending messages are
marked and pairwise disjoint, and a start takes only what is not marked. `CacheInv`
says of every record that it names the source of its file unless a thread is between
the two steps. `UsedInv` is about the window between a worker's look at the cache and its
start. What a worker has seen is of its plan, and the metadata still name those
addresses (`WorkerOK`), because only an adoption changes an address, and a thread adopts
only what is declared or `stale` (`JobsDeclared`). With `CacheInv`, a file that is usable when
sing-box opens it is then of that address: between the adoption and the new bytes it is not usable.

*Rule-sets: what the daemon knows.* `StatesFollowDisk` is about the moment when threads
and messages are through; the invariant `StateInv` says what holds before. Of each file, the last
message that brings its state says what the cache holds, or a thread or a reader will
still tell (`StatesInv`, as long as `stale` is empty). Of the schedule only messages of the current epoch count,
because the handler drops the others, and while a thread of an older epoch downloads,
nobody else changes the schedule, so that what a reader of the current epoch has read
stays true. Every mark has a thread or a message (`MarksUnderWay`), at most one report
of a connect is believed (`LinkOrder`), and a fallback that runs the current plan waits
for a required rule-set that is missing or marked (`FallbackInv`).
A failed write of the metadata, a failed download and a restart are steps like any
other. Two gaps in the model came to light in the attempt to prove it: a
refresh was one step, and a superseded report vanished from the channel.

*Subscriptions.* The assumptions: the times are naturals, there are finitely many
subscriptions in the file, and it holds no failures of a date to come.
`UpdatesAreBounded` follows from `RetriesOK`: the saved retry state counts at least the
failures of the date as long as no save failed; an automatic update is marked only
while that count is below five, and the mark keeps a second one from starting, so the
count is still the same when the result arrives. That a set of times has a first one
(`LeastTime`) is the one use of well-founded induction, by the library's lemma about
minimal elements.

*Suites.* `Suites_proofs` states the results as the properties of the `clients` and
`downloads` runs: a behaviour is one of a single component, `part` never changes, and
the instance satisfies the assumptions of the lemmas.

*Only model-checked.*

- The liveness properties (`liveness`, `UpdatesEnd`, `ConnectionSettles`): fairness is out
  of the prover's reach.
- `UpdatesKeepProfiles` and `SourcesStayInPlace`: what the merges of lists compute, by
  recursion over the lists.
- What a conversion or a check computes for every input (`LinksKeepTheirMeaning`,
  `RouteAsPlanned`, `LookupFollowsRoute`, `EditsAreJudged`, `DecodedAsTyped`): induction over
  links, rules, documents or bytes. `Documents` and `TerminalInput` declare
  recursive operators as well, which keeps their suites out of the prover altogether.
- `EditsAreKept`, `EnterAppliesWhatIsShown`, `MigrationsKeepSettings`, `SetupConverges`,
  `CursorKeepsItsRecord`: their suites take in the modules with recursive operators.
- `ScreenIsConsistent`, `LogsAreFaithful`: sequences cut, wrapped, sorted and folded in ways
  the provers have no theory of.

## Not modelled

- Drawing: widgets, styles, palettes, icons, themes and their watchers (Omarchy), the
  preview of documents, the text of the help and of cards. `Screen` models where rows
  are and what a press hits, no more.
- Text: the command line's output and arguments, the desktop plugin's JSON and that of
  Waybar, log and status wording, the host and the label of a link, the JSON layout of the sing-box
  configuration, the generated JSON schemas and the pointers and positions of their
  diagnostics. These are conversions without state.
- One-shot calls of the system: paths, the browser, the detection of clipboard tools,
  D-Bus, HTTP, systemctl, nftables. They appear as choices of their result where
  kvn's state depends on it.
- The order of arrays in the merge of `profiles.json`; errors of `waitpid`.

The specifications meet in few places, and only some of those are modelled as
compositions. A save is one step on the set of profiles in `ConnectionLifecycle`, three
steps on every field in `ConfigStore`, and a choice of success in `Subscriptions`,
`Sources` and `Tour`. The tunnel is a process with an owner in `ConnectionLifecycle`, a
pid in `Daemons`, a plan in `GeoUpdates`, an attempt in `Measurements`.

## Plan

Every component whose state several actors share has a module, and of each of them the
safety invariants that the runs check are proved, up to the exceptions above. What
would come next:

1. Lemmas about `Schedule` (a retry lies in its window) and `ListScroll` (the window stays
   in the list), the operators that several components share.
2. The recursive operators of `Documents` and `TerminalInput` as recursive functions, so that
   the modules in their suites (`RoutingEdits`, `SettingsMenu`, `StoredFiles`,
   `Integrations`) come within reach of the prover.
