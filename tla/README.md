# Pathology core: TLA+ models, model checking and proofs

This directory holds TLA+ specifications of `pathology-core`, the Go core behind
the Pathology VPN client: the process that owns the sing-box instance, serves
gRPC to the UI, the tray and the extensions, and keeps its state in LevelDB.
Each module is translated from the source files named in its head comment;
`PROJECT.json` maps every definition to the lines it stands for.

Run one model with `tlc -config CoreSafety.cfg CoreServiceProps.tla`, and check the
proofs of one module with `tlapm CoreServiceProofs.tla`.

## 1. Inventory

### 1.1 The process and its components

One process hosts up to four gRPC servers (modes *normal* and *background*, each
secure or insecure), one sing-box instance (the VPN), short-lived sing-box
instances of the test engine, and the databases. Handlers run on goroutines of
their own; state is package-level.

| Component | State | Operations | Interacts with |
|---|---|---|---|
| **Core lifecycle** (`v2/hcore/{start,stop,restart,custom,coreinfo,service}.go`) | `static`: lock, CoreState, startedAtMs, StartedService, memory limit, scavenger | StartService, Stop, Restart, Close, StopAndAlert, errorWrapper, SetCoreStatus | sing-box, monitoring, broadcaster, LevelDB, session |
| **Session calls** (`v2/hcore/session_connect.go`, `session_rpc.go`, `session_settings.go`) | none of their own | SessionConnect, SessionDisconnect, SessionReconnect, SyncSessionState, GetSessionState | session state, core lifecycle |
| **Session state** (`v2/hcore/session`) | keys of the app_settings table: last start request, active profiles, service mode, UI pid | LoadState, SaveState, SyncState, ResolveStartTarget, ClearUiPidIf, SetActiveProfiles, SetServiceMode | LevelDB; called by RPCs and the tray |
| **Status broadcast** (`compat/monitoring/broadcaster.go`, `v2/hcore/coreinfo.go`) | subscriber channels | Subscribe, Publish, Unsubscribe, Close, CoreInfoListener | every status change; UI, tray |
| **gRPC registry and platform** (`v2/hcore/grpc_server.go`, `static_data.go`, `grpc_recovery.go`) | map mode -> server, map mode -> platform interface | Setup, StartGrpcServerByMode, Serve exit, CloseGrpcServer, platform resolution | core lifecycle, LevelDB |
| **Probe monitoring** (`compat/monitoring/stub.go`) | the active monitor, per-tag results | Activate, Deactivate, TestNow, result hooks | core lifecycle, box, UI streams |
| **Test engine** (`v2/hcore/testengine`) | the slot of one side box with its profile and stamp, `mu` and `opMu`, idle watcher, pings in flight | Ensure, Stop, Ping, idle watcher, closeSideService | sing-box, test RPCs, profile files |
| **Proxy streams** (`v2/hcore/proxy_info.go`, `commands.go`) | subscription, debounce timer per stream | OutboundsInfo, MainOutboundsInfo, AllProxiesInfo | monitor's results, UI |
| **LevelDB store** (`v2/db`) | open handles, quarantine and backup directories | getDB (open, recover, quarantine, rewrite), Table operations, CloseAll | session, profiles, settings, core lifecycle |
| **Atomic files** (`v2/hutils/atomic_file*.go`) | target, temporary and backup files | WriteFileAtomic, replaceWithBak | config files, caches, locks |
| **Host serve** (`cmd/cmd_host_serve.go`) | lock file, listener | bind, publish lock, remove lock | gRPC registry, UI process |
| **Tray** (`v2/hcore/tray`) | command queue, icon and menu state, UI pid | dispatch, transitions watcher, UI control | core lifecycle, session |
| **Extension host** (`extension`) | enabled extensions, UI queue per extension | Connect, SubmitForm, UpdateUI, Close | LevelDB, RPC streams |
| **Service manager** (`v2/service_manager`) | list of services and pre-services | Register, OnMainServiceStart/Close | core lifecycle |
| **Ezytel cache** (`v2/ezytel`) | message and image files | fetch with fallbacks, cached image, snapshot | network, files |
| **Profile repository** (`v2/profile`) | profile rows, config files | AddByUrl (a command for samples); the rest has no caller | LevelDB, files |
| **Configuration builder** (`v2/config`, and the side box part of `testengine/engine.go`) | none (pure), rule set files | import of a subscription, BuildConfig: inbounds, outbounds, routes, rule sets, DNS, chain detours | core lifecycle, test engine |
| **Link parsers** (`ray2sing`) | none (pure) | share links and chains of them become outbounds and endpoints | configuration |
| **Standalone runner** (`v2/hcore/standalone.go`, `independent_instance.go`) | source, current and new configuration, the loop; a second box with its port | run: read, start, read again every so many hours, interrupt; instance: start, ping, close | core lifecycle, configuration |
| **Tunnel service** (`v2/hcore/tunnelservice`) | privileged helper process, its box and TUN adapter | Start, Stop, Exit, and the commands activate, deactivate, exit with their retries | OS service, sing-box |
| **Proxy list and URL tests** (`v2/hcore/{proxy_info,commands}.go`) | what a list says of nodes and groups | GetAllProxiesInfo, SelectOutbound, UrlTest, UrlTestActive | box, monitor, UI |
| **Platform wrappers** (`platform`, `cmd`) | none | exported functions | core lifecycle |

### 1.2 What is hard, and what makes each component correct

*Core lifecycle.* StartService and Stop hold `static.lock`, but some paths act
without it: a SessionConnect or SessionReconnect that finds no start target, the
cancelled pause of Android's Restart, and the panic guards, of which those of
StartService and Stop run *after* the deferred `Unlock`. Every path may fail half way.
Correct: at most one instance; an instance is always reachable by the next Stop; the
announced status tells the truth; probes stop before the instance closes; transient
states end. The paths past the lock do break the first three (section 6), so these are
promised until one of them *overrules* the core.

*Broadcast.* Publish drops the newest event when a subscriber's buffer is full;
cancellation races Publish and Close. Correct: no send on a closed channel, no
subscriber left registered after its context ends, streams see events in order;
a slow stream may keep a stale last event.

*gRPC registry.* The map entry is made before `net.Listen`; a server that stops
removes only its own entry. Correct: an entry stands for a live server; the
database is closed only when nobody serves; platform resolution never yields nil.

*Session state.* A state is several keys written one by one, read and written by
several callers without a lock. Correct: an update of one field is not undone by
a writer of another field; a connect starts the profile and the settings the session
names; the menu of the tray shows the core as it is, and the pid of a live UI stays.

*Monitoring and test engine.* Results of a cancelled round arrive late; a box is
closed while probes use it; an idle timer races a new request. Correct: no probe
on a closed box, no result of an old box counted for the new one, boxes are
closed eventually.

*LevelDB.* A database that does not open is recovered, else quarantined; a crash or an
error may fall between any two renames. Correct: data that was committed is somewhere, a
cached handle is open; section 6 says what the code loses of both.

*Atomic files.* Two writers share one `.bak`, every rename may fail, the process may
die between any two. Correct: no reader sees half a file, one whole copy is left.

*Host serve.* Correct: whoever publishes the lock owns the listener.

*Tunnel service and standalone runner.* A privileged process takes commands without a
lock; a loop starts and stops the core beside everybody else. Correct: a box that runs
can be closed by the next Stop; a command that says it worked did.

*Ezytel cache.* Correct: what is served for a picture is what a sound fetch of it got; a
replay is the newest page that was had.

*Import, links, builder.* Pure, and large: what counts is how the parts meet. Correct:
one bad leaf or link costs itself; every group, selector, detour, rule set and DNS
server that is named exists; a subscription with proxies never turns into a
configuration that goes direct in silence; the client's rules win; the name of the
server is never resolved through the tunnel it opens; the side box probes what the
main box would dial.

The hazards, each at its line, are in `PROJECT.json`; a hazard that no property
covers says why.

## 2. Plan

Order: what decides whether the user's tunnel is up comes first, then what tells
the user so, then what measures it, then what it remembers, then pure algorithms.

| # | Modules | Abstract specification / composition | State |
|---|---|---|---|
| 1 | `CoreService`, `CoreServiceProps` | implements `CoreLifecycle` | done |
| 2 | `Broadcaster` | each subscription implements `LossyChannel` | done |
| 3 | `StatusStream` | extends `Broadcaster` with the status writers and CoreInfoListener; `MCBroadcaster` runs 2 and 3 | done |
| 4 | `ProbeMonitor` | stop of the core, monitor and its URL tests together | done |
| 5 | `ProxyStream` | box, monitor, hook, relay and stream together; `MCMonitoring` runs 4 and 5 | done |
| 6 | `GrpcRegistry` | registry, Setup, platforms and the database's last close together | done |
| 7 | `TestEngine` | Ensure, Stop, Ping, idle watcher and the profile's file together | done |
| 8 | `SessionState`, `Tray`, `SessionProps` | row by row saves of the session calls, the tray and the UI together; what a call means alone is the reference | done |
| 9 | `LevelStore` | open, recover, quarantine, rewrite, CloseAll by several processes, with crashes and power losses | done |
| 10 | `AtomicFile`, `HostLock` | a file that is whole under crashes; one owner of the listener | done |
| 11 | `EzytelCache`, `Jalali`, `ProbeRace`, `TunnelService`, `Standalone`, `ProxyList`, composed in `MCParts` | the smaller parts; `ProbeRace` details the probe that 4 and 7 take as one step | done |
| 12 | `LinkParsers`, `ShareLinks`, `SoftParse`, `OutboundPlan`, `RoutePlan`, `DnsPlan`, `ConfigBuild`, `SideBox`, composed in `Profiles` | pure operators; `Profiles` is the calls around them, `ProfileProps` the reference definitions | done |

Every safety property that the runs check of rows 1 to 11 is a theorem (section 5). What
is left is row 12, which is model-checked only: its operators are folds over lists of
outbounds, rules and links, and the prover has no induction over data. The extension
host and the rows of the profile repository are not planned: no entry point of the
program reaches them.

## 3. Modules

**`CoreLifecycle`** is what the core promises to whoever watches CoreInfo: a status
in {STOPPED, STARTING, STARTED, STOPPING}, a box that is up when STARTED, and
transient states that end. **`CoreService`** is the code: `pc[p]` is the place of a
goroutine in StartService, Stop, Restart, Close or a session call; `lock` is
`static.lock`; `coreState`, `startedAt`, `service`, `memLimit` and `scavenger` are the
fields of `static`, `running` the boxes that are up, `monitor` the one that is probed.
Each action is one stretch of the code between two points where another goroutine can
act, and every fallible call has its failure action; `Faults` selects which of them a run
allows. The deferred Unlock and the session calls that change the status without the lock
are actions of their own. A panic may come at every place of StartService and Stop, of
the pause of a Restart, of the end of Close, and in Parse; its guard tears down without
the lock, and a panic inside NewService may leave a box that nobody has. `overruled` is a
history variable that no guard reads: STOPPED was announced past the lock over a core
that was not stopped, or a panic guard tears down. `CoreServiceProps` adds the properties
and the refinement mapping, which takes `overruled` for the `void` of `CoreLifecycle`.
closeDbIfIdle is one step here; its window is in `GrpcRegistry`. The memory scavenger is
the one of the Windows build. `Box` bounds how many boxes are up at once.

**`LossyChannel`** is a FIFO that may drop the newest event and is closed once.
**`Broadcaster`** is `Broadcaster[T]`: `subs` the map, `queue[c]` the buffered
channel, `todo[p]` the rest of the range loop of a Publish. **`StatusStream`**
extends it with SetCoreStatus (assignment under `static.lock`, publish after it) and
with CoreInfoListener (snapshot, then events). **`MCBroadcaster`** extends both; a
behaviour is about one `subject`, events or status.

**`ProbeMonitor`** follows a prober from the load of the active monitor through the
context check and the URL races, with the stray tests that lose a race, and a stop
through Deactivate (swap, cancel, wait, budget) to CloseService. A monitor is
identified with its box; the probes of the leaves of a group run as one prober;
`SpawnWait` merges the go statement with the start of Wait. `Locked` says whether a
stop holds `static.lock`.

**`ProxyStream`** follows a result from the store through the hook (an external
lossy buffer of `HookCap` events), the relay goroutine and the stream's queue to the
debounced send. Send is taken not to block and the relay's publish is one step.
**`MCMonitoring`** extends `ProbeMonitor` and `ProxyStream`; a behaviour is again about
one `subject`, probes or streams.

**`GrpcRegistry`** has the map mode -> server, the platforms per mode, Setup and
CloseGrpcServer by their critical sections under `mu`, listen failures, the cleanup
after Serve returned, platform resolution, and closeDbIfIdle with the calls that use
a handle of the database. The OLD mode, which is in no priority list, and panics of
Setup are not modelled.

**`TestEngine`** has two mutexes. What runs under `mu` is one step; `opMu` is held by
a caller from `Lock` to `Reply`, so that the stop of the previous box, the build of
the configuration and up to `MaxTries` starts are steps that pings and the watcher
interleave with. `phase[b]` is the life of a side box: unused, starting, up (in the
slot), taken, waiting (for pingsInFlight or the budget), closed. `label[b]` relates
the stamp of the file (taken *before* `opMu` is waited for) to the version that
buildTestConfig read later. `armed`, `stale` and `fired` are the idle watcher: its
timer runs, the box was last used IdleTimeout ago, a watcher is past its select and
waits for `mu`, where a cancel no longer reaches it. Whether the running box has the
requested leaves is a free choice, as is the outcome of a probe; CloseService takes
the box down also when it returns an error. The label is dropped when a box closes.

**`SessionState`** has the rows of the settings table that make up a session (`row`),
the client settings on disk and in memory (`settings`, `options`), the configuration
files, and a core of three states. A call loads the session row by row and saves it
row by row; `call[a].i` is how far it is, and rows that are always written together are
one group. A start has two steps under `static.lock`, a stop one; the rest of the core
is `CoreService`. A write may fail and the process may die between two groups
(`MaxMishaps`). **`Tray`** adds the bounded queue of menu changes, the goroutines of the
clicks with the state they read before they send, the watcher of transitions, the
refresh with its hash, and the processes of the UI with their pids. **`SessionProps`**
states the meaning of each call when it is alone (`RowAfter`, `DocAfter`) and what
start, menu and pid promise; **`MCSession`** gives the requests. Locales and themes are the
set `Looks`; an operating system gives no UI the pid that the menu is about to clear
(`Freed`). Overlapping calls lose
updates by the code's own design, so its promises are about calls that run alone
(`call[a].alone` is cleared as soon as another one starts) and about what the overlap
cannot break.

**`LevelStore`** is one table: directories with an identity that survives a rename
(`live`, `bak`, `corrupt`), the rows and the damage of each, the holder of each lock,
and per process the place in getDB and the cached handle. Open retries `Attempts`
times, recovers, quarantines, rewrites a bloated table through a `.bak`, and each rename
may fail. An error that is not the directory's (no descriptor, no space, no permission)
may last for all attempts too, and ends in the same recovery and quarantine. `acked` are
the rows of the writes that were answered; `destroyed` those that a power loss took before
a sync, and those that only the backup of an earlier rewrite held when the next rewrite
removed it; `intruded` says that a process opened the table while another one had it half
replaced, or went on, on an error of its own, to replace one that is in use: from where on
nothing is promised.

**`AtomicFile`** is WriteFileAtomic with one temporary file per writer and one `.bak`;
**`HostLock`** the hosts of `cmd_host_serve.go`, their listener and the lock file.
**`EzytelCache`** are overlapping calls over picture files, which hold any body that came
with status 200, are written in place and never fetched again, and one snapshot per
channel, which may be torn. `marred` has the pictures for which the front once answered
something else or a write broke off, `crossed` those and the channels on which two calls
overlapped. **`Jalali`** converts dates by counting days and is compared with the
calendars. **`ProbeRace`** is one probe: samples, each a race of
dials that may fail, hang or answer late, with the dials a race leaves behind and the
close of the box. **`TunnelService`** has the helper process, which may take longer to exit
than the commander waits, and the commands,
**`Standalone`** the commands run and instance, **`ProxyList`** the list of proxies, the
choice of a member and the leaves that a test dials: UrlTestActive walks from group to
group, one read of a member at a time, while the user and the groups choose others
(`steady` says that nobody did). `Sound` is what sing-box accepts as a box: one node per
tag, members that exist, no group inside itself. **`MCParts`** composes these parts
with `LevelStore`. They share no state, so interleaving them would show nothing: a
behaviour has one `subject`, whose actions it takes, and the others rest in one of
their initial states.

**`LinkParsers`** has one operator per scheme over the parameters that decide whether a
link is accepted and which transport, TLS, port or WireGuard form it gets.
**`ShareLinks`** is the text around them: lines, hops of a chain, unique tags.
**`SoftParse`** is the import: which decoder takes a body, and the filter that asks
sing-box about each leaf (`fault` is its answer). **`OutboundPlan`** is setOutbounds with
the chain detours and the IPv6 leaves, **`RoutePlan`** the compiled routing profiles,
their merge with the subscription's rules and the rule sets, **`DnsPlan`** the servers
and rules, **`ConfigBuild`** BuildConfig around them with inbounds and cache, and
**`SideBox`** the build of the test engine with its overrides and its cut to an
allowlist. A tag is a name, a rule a set of attributes of which one must match; what the
code reads off the text of a tag (hidden, default, IPv6 markers) are the constant sets.
**`Profiles`** keeps the body that was offered (`source`), the file it was stored as
(`file`) and the answer of the last call (`reply`); its actions are an import, a failed
save, a build for a start, an export or an Ensure, the DNS fragment and the merge of rule
sets. **`ProfileProps`** compares the answers with independent definitions: the first
rule that matches a connection, the names a list resolves to, the result without the
bad link. **`MCProfiles`** enumerates the inputs: every scheme whole and with what it
needs missing, bodies of every kind, and for each body the settings that its part of the
configuration depends on. Among them are the inputs for which the code does not keep a
promise (section 6): every such promise names its exception.

Proofs are in modules of their own, one per component: `CoreServiceProofs`,
`StatusStreamProofs` (with those of `Broadcaster`), `ProbeMonitorProofs`,
`ProxyStreamProofs`, `GrpcRegistryProofs`, `TestEngineProofs`, `SessionProofs` (with the
tray) and `PartsProofs` (the parts of `MCParts`, `LevelStore` among them).

## 4. Runs

| Run | Instance | Shows |
|---|---|---|
| `core_safety` | 2 goroutines, 2 boxes, 2 modes, Android, every failure, panic and unlocked path; 1.35 million states | until the core is overruled past the lock: at most one box and a reachable one (`OneReachableBox`), status, clock and monitor are true of it (`StaticTellsTruth`), and the inductive invariant (`IInv`) |
| `core_returns` | 2 goroutines, 1 box, 1 mode, the same faults; 120 thousand states | every operation returns; STARTING and STOPPING end; the refinement of `CoreLifecycle` with its liveness |
| `core_uptime` (violation) | only session calls without a target | the uptime is zeroed while the tunnel runs, against `hcore.proto:88-90` |
| `broadcast` | 2 publishers of 2 events, 2 subscribers; and 2 writers of the status, 3 changes, 2 streams; a buffer of 1 and one of 2; 272 thousand states | no panic, every channel closes, each subscription is a lossy FIFO; a stream never shows a status older than itself, and the last one arrives unless it met a full buffer |
| `monitoring` | 2 probers, 2 URLs, 2 boxes, 1 stop at a time; and 2 boxes, 1 stream, buffers of 1; 646 thousand states | a box closed within the budget has no prober past its context check; stops end though URL tests hang; no lost wake-up across a restart, and stored delays are shown |
| `registry` | 2 modes and platforms, 3 servers, 2 callers, 1 handler | a serving server is registered; the background platform wins |
| `engine` | 2 callers, 1 pinger, 2 boxes, 1 profile, 2 tries, 1 change of the file | the slot is free for who rebuilds, no box is lost, the fence of pings holds (all in `EInv`), no probe on a box closed within its budget, answers are as new as their calls, idle boxes close |
| `profiles` | 90 thousand states over the bodies and settings of `MCProfiles` | see the themes below |
| `parts` | 9 small parts, 840 thousand states | see the themes below |
| `sessions` | 2 profiles, UI, menu and profile item, 2 calls, 1 mishap, queue of 3; 2.3 million states | see the themes below |
| `session_stale` (violation) | the same | a click on another profile reconnects the configuration that an earlier connect cached |
| `store` (violation) | 1 process, 2 rows, 1 rewrite, 1 failed step | the handle that getDB caches is the closed one, against `hiddify_db.go:216` |

Four runs state one property per theme, a conjunction of named parts.

| Theme | Parts |
|---|---|
| `ImportKeepsWhatIsSound` | `PfTypeOK`; `KeepsTheSoundLeaves`: all sound leaves, in order, nothing else; `RefusedForAReason`: an import is refused when no proxy of it is sound, or for one of three named faults; `GroupsResolve`; `ReparseIsStable`: the stored file reads back as itself unless two leaves of it share a tag |
| `LinksBecomeLeaves` | `BadLinkCostsItself`; `ChainDialsNextHop`; `LinkTagsUnique`; `LinkDetoursResolve`; `TransportAlpnAgrees` |
| `OfferedNodesExist` | `NeverSilentlyDirect`; `SelectorResolves`; `ChainExitIsBuilt`: an exit is in the build, or one of those that setOutbounds passes over; `SideBoxCoversMain`; `ProbesReachTheirLeaf`; `SideBoxKeepsApart`: no TUN, no fixed port, no shared cache |
| `RulesDecideInOrder` | `ClientWins`; `ProfilesInTurn`: what the client leaves open is decided by the first profile that has a rule for it; `OwnerBeforeDestination`; `RuleSetsResolve`; `RuleSetsOnce`; `RulesReachOutbounds`: a default rule routes to a built outbound, unless the subscription names one of its own; `StrategyNeedsAutoDetect` |
| `DnsComesUp` | `BootstrapNeedsNoTunnel`, at any depth; `EveryServerComesUp`: in an order in which nothing waits for itself; `ProbeHostsAreReal`: no fake address for a test URL without a port; `DnsServersExist` |
| `TablesAreKept` | `StTypeOK`; `StealNeedsARace`; `LiveMatches`; `RowsSomewhere`: an acknowledged row is in a directory with a name, through any number of rewrites; `HandleIsOpen`, unless a step of a rewrite failed |
| `WritesAreAtomic` | `NeverTorn`; `NothingLost`; `AloneAllOrNothing` |
| `LockNamesTheHost` | `ServingIsNamed`; `NoLockAfterExit` |
| `EzytelAnswersAreSound` | `PicturesAreWhole`; `ReplayIsNewest` |
| `DaysFollow` | one statement: each date is the day after the one before |
| `VerdictsAreSound` | `OneUrlIsEnough`; `VerdictIsMeasured`; `StrayDialsAreCancelled` |
| `TunnelObeys` | `BoxIsHeld`; `CommandsDoWhatTheySay` |
| `StandaloneServes` | `RunsWhatItHolds`; `LeavesNothingUp`; `MeanIsMeasured` |
| `ProxiesAreShownTruly` | `DelaysAreOfMembers`; `ListNamesWhatItShows`; `TestsReachTheLeaf` |
| `SessionIsKept` | `SnTypeOK`; `AloneIsAtomic`; `PidOfLiveUiKept` |
| `StartsWhatWasAsked` | one statement: the target, the options and the state of the core after a connect that ran alone |
| `MenuIsTrue` | `MenuFollowsCore`; `RefreshShows` |

Several parts have a stated exception. In the state machines it is a variable that is set
by the step of the code from which on the promise does not hold (`overruled`, `intruded`,
`destroyed`, `unrestored`, `raced`, `marred`, `crossed`, `overlap`, `dropped`, `stale`,
`early`) and that no guard reads; in `ProfileProps` it is a condition on the input, named
in the comment. Section 6 lists what these exceptions stand for: a hazard that falls under
one is not caught by the property, and its note in `PROJECT.json` says so.

*Why the bounds are enough to be interesting.* Two actors are what each race in the
hazard list needs: a second goroutine inside the window of the first. Two boxes let
an old instance overlap its successor, and one change of a file, a status or a
result lets a reader be stale. Buffers of one or two events overflow. `MaxTries`,
`MaxVersion`, `MaxFired`, `MaxEvents`, `MaxStray`, `Samples` and the sizes of `Box`,
`Server` and `Handle` bound counters that the code leaves open; when boxes run out a
run only loses further restarts.

In `parts` the same two actors are the processes of a table, the writers of a file, the
clients of a channel or the commands to the helper, so that one symmetry covers all
(no property tells actors apart, and the theorems hold for any number of them). Two
processes, one row (rows do not touch each other) and six directories let two rewrites, a
quarantine and a theft of the directory meet, with one crash and one failed step; a new
directory is one of those that nobody names or holds, whichever. Two writers and one kill; two hosts with
four starts; two clients, one channel, three calls (page, messages and picture; the
messages without inline pictures, whose fetch is the step that the picture of a page
takes, and which the theorem covers); the years
2013 to 2047, more than one 33-year cycle of the Persian calendar; races of two URLs with
one or two samples, where two stands for the code's 3 and 10; three commands, two starts
of a box and one trouble; two contents of a source read at intervals of 1, one lapse and
one call of a client beside the loop, four pings as in the code; one box whose selector
holds a group that holds a URL test and a leaf, so that a walk goes through two groups,
with an endpoint, one test and one choice. In `sessions`: two calls at once over two profiles; the tray's queue of three
overflows. In `profiles`: every scheme and kind of body, with the leaves, groups and chains
that make two of the builder's decisions meet.

Where a bound stops the system the cfg says `CHECK_DEADLOCK FALSE`. `Registry.cfg` and
`Parts.cfg` use symmetry (servers; actors and rows), for safety only.

*Fairness.* Weak fairness of the steps of a goroutine that is running code: the Go
scheduler is preemptive and the calls it makes return (sing-box start and close,
`CloseService`). Strong fairness where a mutex is acquired against other callers:
`sync.Mutex` switches to starvation mode, and a writer of a `sync.RWMutex` blocks new
readers. Timers fire: `BudgetExpires`, the idle timer, and the debounce of a stream.
No fairness for URL tests and probes, for clients that call, subscribe or leave, or
for failures; the liveness properties hold although a URL test hangs for ever. The
runs `profiles`, `parts` and `sessions` check safety only and assume no fairness.

## 5. Proofs

All theorems hold for every value of the constants under the named assumptions of
the modules (positive bounds, `None` outside the sets it is added to). Each safety
property follows from an inductive invariant: it holds at first, every action keeps it
(one lemma or case per action), and it implies the property.

* `CoreServiceProofs`: `IInv` says, for each place of the owner of `static.lock`, what
  the fields of `static` and the boxes hold there. The safety properties speak of
  rest states only and are not inductive, hence `IInv`. No fault is assumed away: every
  step of the model is a case of the proof, and a path that acts past the lock sets
  `overruled`, which is what the invariant and the properties except.
  `CoreRefinesLifecycle` maps each step to a step of `CoreLifecycle`, whose promise is
  `void` once the core is overruled, or a stutter.
* `StatusStreamProofs`: of `Broadcaster` type correctness, panic freedom and per-publisher
  order in the queues (`BInv`); from them the refinement of `LossyChannel` for every
  subscription. Of `StatusStream` `SInv` (`StatusInvariant`, checked through the property
  it carries, `NeverOlderThanStream`), whose core is that the status a writer has yet to
  publish is the newest one while it holds the lock (`Locked`).
* `ProbeMonitorProofs`: `PInv` relates the place of a stop to the probers counted
  before the swap and to the cancelled context of late ones (`Locked`).
* `ProxyStreamProofs`: `PSInv`, a disjunction of where the wake-up of an unseen result
  can be: hook buffer, relay, stream queue, timer, or the initial send.
* `GrpcRegistryProofs`: `GInv`, the owner of `mu`, entries and servers, and the
  priority argument over the list `Order` (a least index exists, by well-foundedness).
* `TestEngineProofs`: `EInv` has four parts beside the types. `HolderInv`: whoever is
  past `Lock` is `opMu`, what it holds and that the slot is empty while it builds;
  `BoxInv`: the place of every live box; `StampInv`: a content is never older than the
  stamp it is filed under, on the way from the file through the caller to the slot;
  `PingInv`: a counted ping is on a box whose Wait has not been woken, and within the
  budget a woken Wait of Ensure or Stop finds the counter at zero, since no new box,
  hence no new ping, can come before its close. One lemma per action, one step per part.

* `SessionProofs`: `SessionInv`, for any set of profiles, configurations, looks, pids and
  stored documents, any requests and any length of the tray's queue. The promises speak
  of calls that are done; what leads there is `CallInv`: where each call can be for its
  request (`PlaceInv`), and of a call that is alone what it knows at each place, in terms
  of the state it began with (`AloneInv`). `RowNow` says how much of the save is on disk
  between two writes, `SettingsNow` the same of the settings, `HasRead` which rows it
  holds, `Connecting` and `Switching` what target, options and core it has got to. For
  that a lone call must stay alone until it ends or another one starts (`QuietInv`).
  `TrayCallInv` says that the menu only clears the pid of a UI that has ended. `MenuInv`
  has the menu: the last command in the queue that shows the core's state, if there is
  one, shows the state that it has, else the menu does (`QueueInv`); the hash is that of
  the profiles drawn (`HashInv`). From it follow `SessionIsKept`, `StartsWhatWasAsked` and
  `MenuIsTrue`, under `SessionAssumption`. The proof is one lemma per step of a call and
  per command of the tray; what a row holds after each write is computed by lemmas about
  groups of rows (`RowsEqual` and those after it).
* `PartsProofs`, of the tables: `StoreInv` for `TablesAreKept`, for any number of processes, rows and
  directories and of crashes, faults and rewrites. The property says what the live
  directory and the cached handle are at rest, and nothing of a process in the middle of a
  rewrite or a quarantine, so it is not inductive. `HandlesAreKnown` holds always: who
  holds a lock, that a held directory is sound, that an open handle in the cache holds its
  lock, and what is put aside in a quarantine. The rest holds until a process opens or
  replaces the table while another has it half replaced (`intruded`): `ReplacingIsKnown` (only the live directory is held, by
  nobody while another process replaces it, and who rewrites does so alone),
  `RewriteIsKnown` (which of live and backup exists at each place of a rewrite),
  `RecoveryIsKnown` (one process at a time has put a directory aside, and none is made yet) and
  `RowsAreKnown` (where each acknowledged row that was not destroyed is: the live
  directory, the backup, or a quarantined one). No number of rewrites, failures or crashes
  is bounded by it. The assumption, here and of the parts below, is `PartsAssumption`.
* `PartsProofs`, of the small parts: one invariant each, all from `PartsAssumption`. `HostInv`: the host
  that listens is the one between its bind and its close, and one that has yet to remove
  its lock has raced with it. `FileInv`: the temporary file of each writer by its place,
  the copy that is left when the target is away, and the progress of a writer that ran
  alone. `TunnelInv`: one start at a time unless two overlapped, and what
  an undisturbed command knows at each of its places. `RunnerInv` and `PingInv`: the loop
  of "run" and what its tunnel holds; the sum of the pings lies between bounds times their
  number, so that the mean does. `RaceInv`: the same for the samples of a probe, whose
  count of good ones is a cardinality; a dial that outlives its race is cancelled.
  `EzInv`: one owner for each download, what a picture file, a call or an answer holds is
  the picture or something that `marred` or `crossed` names, and what a call or a snapshot
  holds is not older than what was answered. `DateInv` says only that
  the date is one; the work is arithmetic: a count of days lies in one 33-year cycle and
  one four-year group of it (`CycleIsMet`, `CycleIsRead`), the next count is the next day
  of the Persian year or the first of the next (`NextOfYear`, `NextOfMonth`), and the
  Gregorian count grows by one over months, leap years and centuries (`NextOfDays`). So
  `DaysFollow` (`DatesFollow`) holds for every year after 1600, the 100 and 400 year rules
  included, where the run sees 2013 to 2047.
  `ProxyInv`, for every set of boxes that are `Sound`: a group uses one of its members or
  none, and no group has a history of its own, so that a delay shown of it is that of the
  member it uses or of the fastest (`DelayIs`, which needs a least element of a set of
  delays); the mark of a node is what the last group that lists it says (`MarkIsOfLast`).
  A walk goes down in the order that `Sound` gives the groups (`Downhill`), so it stops
  only at a leaf or at a group without a member; while nobody chooses, all it has seen
  but its end is a group whose member it has seen too (`Trail`), so at its end it has
  seen exactly what is reached from the selector (`WalkIsWhole`). The earlier model took
  the walk in one step and its property only unrolled four hops; both were replaced for
  this proof.

What the proofs found in the models: `StTypeOK` was weaker than it was meant (it said
`live # NoDir => a /\ b /\ c` where only `a` and `b` depend on the live directory), and
`SnTypeOK` said nothing of the fields of a call; both are the stronger ones now. Three
steps of `SessionState` had CASE expressions whose guards overlapped, which leaves the
value open to every reader but TLC; they are exclusive now. `PidOfLiveUiKept` failed when
a UI starts with the very pid that the tray is about to clear, which TLC confirmed;
`Freed` names the assumption that none does (section 6).

*Only model-checked.* All liveness (`OperationsReturn`, `SpinnerStops`,
`EveryChannelCloses`, `LastStatusArrives`, `StopReachesClose`, `DelaysArrive`,
`IdleBoxesClose`) and the liveness of the refinement, since the prover does not reason
about fairness; the three counterexamples; and the five properties of `profiles`. The leaf
filters, tag assignments and rule merges of its modules are folds over lists: what they
return for every input needs induction over data, which the prover cannot do.

## 6. Where code and comments disagree

Three runs state a sentence of the repository and find a behaviour of the code that
breaks it: `core_uptime`, `session_stale` and `store`; `PROJECT.json` quotes both under
"findings". The following was met while modelling. The models contain these behaviours
unless the line says otherwise; the properties except them by name.

*Core, monitor, engine, registry.*

* `session_connect.go:27,64`: a session call that fails to resolve sets STOPPED without
  the lock, which zeroes the uptime of a running tunnel (`core_uptime`). It is worse than
  that: StartService asks for the status only (`start.go:88`), so the next start brings a
  second box up beside the first and overwrites `static.StartedService` (`start.go:157`),
  after which no Stop reaches the first one. The cancelled pause of a Restart
  (`restart.go:36`) announces STOPPED in the same way. The model has all of it;
  `OneReachableBox` and `StaticTellsTruth` say nothing of a core that was overruled so.
* `start.go:82`, `stop.go:21`: the guard of a panic runs after the lock was given up. It
  closes the box of `static.StartedService`, while another goroutine may be starting or
  stopping; a panic inside NewService leaves a box that nobody has.
* `start.go:140,153`: the soft memory limit is set before the steps that may fail, and
  stays set after a failed start.
* `custom.go:21`: between the check of closeDbIfIdle and the close a handler can take a
  handle of the database.
* `custom.go:30`: a teardown by a panic guard does not hold `static.lock`, finds no
  monitor and closes the box while another one still waits for the probers.
* `stub.go:115` and `engine.go:507`: one WaitGroup serves several rounds; an Add after
  the last Done and before Wait has returned is the misuse it panics on, on a goroutine
  without recover. In `TestEngine` this takes a watcher's teardown or a spent budget
  (`FenceHolds`).
* `stub.go:410` and `engine.go:1086`: the URL tests that lose a race are waited for by
  nobody and may still dial when the box has closed, with a cancelled context.
* `engine.go:787`: the watcher closes its box without `opMu`: an Ensure may start the
  next side box, and a Stop return, while the old one is still open.
* `grpc_server.go:303`: a failed listen leaves the entry of a server that never served.
* `proxy_info.go:211-215`: events between the first snapshot and the subscription are
  only repaired by the next event, and a stream opened while no monitor is active sends
  an empty list.

*Session and tray.*

* Overlapping saves lose updates: each writes back what it has read of the rows it does
  not change. `ClearUiPidIf` compares and deletes in two steps, which its comment
  ("avoids clearing a newer UI") does not survive.
* `session_rpc.go:46-58` with `state.go:211`: a sync that clears the UI pid and carries
  it in its state sets it again in the merge, against `hcore.proto:316`.
* `LoadState` answers an empty session when the database cannot be opened.
* `tray.go:291-297`: the hash of the profiles is stored before the menu is there, so a
  refresh that comes early hides the next one; a click on a profile does not refresh
  the checkmarks; the state of the core is read before the change is queued.
* `ui_control.go:110-114`: the tray ends a UI and then clears its pid by number; a UI that
  the system gives the same pid in between would lose its row (excluded by `Freed`).
* `ChangeClientSettings` puts the defaults in place before it reads the new settings,
  and stores the JSON before it was read.

*LevelDB and files.*

* `hiddify_db.go:96-100` says "Surface the conflict instead" of a second process; a
  rewrite gives up its lock between its two renames, so a second process can get in
  there, and the first then removes a directory the second holds (`StealNeedsARace`).
* `hiddify_db.go:216`: after a rewrite that failed half way the reopened handle is
  dropped, the closed one stays cached, and the lock is held until the process ends
  (`store`).
* `hiddify_db.go:214`: after a crash in a rewrite the rows are in the backup; nothing puts
  it back, and the next rewrite removes it with what it alone holds (`destroyed`).
* `hiddify_db.go:93-118`: any error that lasts for all attempts ends in recovery and
  quarantine, one that is not the directory's too: a sound table is put aside for an empty
  one. While another process holds or replaces it, this takes the directory from under it
  (`intruded`).
* `cmd_host_serve.go`: a host that stops removes its lock after it gave up the listener,
  and can remove that of the next host.
* Ezytel: any body that comes with status 200 is cached as the picture for good, and so is
  the part of one that could not be written completely (`marred`); a snapshot may name a picture that was never cached, be half old and half
  new, or be overwritten by a slower, older call. Not modelled: `rewriteBackgroundImages`
  does not advance past an `HTTPS` in capitals.

*Tunnel, standalone, list.*

* Start over a box that runs overwrites it (`overlap`). The commander waits a second
  after it asked the old helper to exit (`admin_service_commander.go:140`), which takes a
  second of its own to do so (`tunnel_service.go:145`): the retry of an activation may
  start its box in the helper that is dying, and it ends with that helper. The
  reinstall runs while the old helper listens. ExitTunnelService takes an answered exit
  for a failure. `admin_tun_service.go:78` says "Surface to Flutter as a real connect
  failure", but `service.go:54` drops the error of the hook.
* A refresh of "run" never tries a failed start again until the source changes, and
  spins when the interval becomes 0; nothing tells the loop that the command ends, so it
  may start a box after the last Stop. PingAverage divides by zero for a count of 1 or 2
  (its one caller asks for 4). A signal before the handler is there ends the process at
  once (not modelled).
* One OutboundInfo is shared by the groups of a list, so `is_selected` is that of the
  last group that lists the node (`builder.go:466` puts the selector first). A group
  whose members are only groups shows no delay although its leaves live. A cancelled
  test overwrites a live delay with a failure. SelectOutbound without a box answers OK.

*Import, links, builder.* Where a line names a property, the property excepts the case,
and `MCProfiles` has inputs that reach it.

* `chain_detour.go:71`: an exit that the input has and the build passes over (a group, a
  filtered IPv6 leaf, a balancer in the side box) leaves a detour to nothing
  (`ChainExitIsBuilt`), and chains of chains may be circular; `pruneToAllowlist` does the
  same to hops that the list leaves out (`ProbesReachTheirLeaf`). `applyTestOverrides`
  keeps the profile's own inbounds (`SideBoxKeepsApart`). The comments of
  `engine.go:540,570,919` about a `.src` file are stale: ResolveConfigReadPath
  (`config.go:44-50`) answers the path itself.
* The outbound of a rule of a subscription that names a node or a group of its own is kept
  as it is, built or not (`RulesReachOutbounds`), and that of a logical rule is never
  mapped; two enabled profiles with one geosite make two rule sets of a tag
  (`RuleSetsOnce`); a rule set with several tags is dropped whole (`RuleSetsResolve`).
* A leaf named "balance" takes the balancer's tag (`SelectorResolves`,
  `SideBoxCoversMain`). The tags a, a, a-1 become a, a-1, a-1 (`LinkTagsUnique`), and the
  stored profile cannot be read back (`ReparseIsStable`). Two chains with a hop of one name
  share the last one's new name (`ChainDialsNextHop` is about different names). A mierus
  link with several ports detours its second leaf through its first. A hop that cannot be
  read is skipped in silence, and the chain is shorter.
* `parser_soft.go:14-15` says that one bad leaf does not fail an import: two leaves of one
  tag, and a WireGuard endpoint that sing-box refuses only in the check of the whole, do
  (`RefusedForAReason`).
* `countProtocolLeaves` counts groups; a profile's own "direct" collides with the stub
  and costs every group; a base64 text that begins with a digit is read as a number.
* `route_merge.go:170-199`: hasRouteMatchers looks at some matchers only, so that a sniff or
  hijack-dns rule of a subscription that is for one network or process path counts as bare
  and is dropped.
* Keys that are never found because the lookup writes them otherwise: `obfsParam` of
  hysteria, `obfs-password` of hysteria2 (`hysteria2_test.go:22-25` expects it);
  `getTLSOptions` asks for "net" and gets the default. The `ip` of an awg link is both an
  address and an obfuscation field, and `awg.go:120` sets the MTU after its clamp.
* A test URL with a port pins "host:port" in the DNS rules, so that its host may be
  answered with a fake address (`ProbeHostsAreReal`). removeTunnelIfNeeded asserts a
  value where the options hold a pointer. setNTP has no caller. RegisterPreService
  appends to a copy of the other list.

## 7. Not modelled

*Components.* The extension host is not registered with the gRPC server
(`grpc_server.go:198` is commented out) and no command starts one; the profile
repository is reached by a command for samples only. The service manager is a list
that init functions fill; calling its hooks is a step of `CoreService`. System proxy and
TUN repair are settings of the operating system: their order in a start and a stop is
in `CoreService`, the repair of a left-over adapter in `TunnelService`. Warp is
registration over HTTP and key material. The platform wrappers and the remaining
commands forward to the core. Client options are a record of defaults: `SessionState`
has how it is replaced, `Profiles` what the builder reads of it. The rest is generated
from the `.proto` files, or samples.

*Inside what is modelled.* Of the builder: Clash API, NTP, Warp, the text of the log and
experimental options, most options of a leaf. Of the links: decoding of text, parameters
that are only copied. Of Ezytel: the rewriting of HTML and the reading of channel lists.
Of the tray: icons, labels, themes. Of the registry: keys, certificates, the pprof
server, the OLD mode, panics of Setup. Of the lists: system information, display texts.
Of the tunnel: `extension/system/admin_service_vpn`, which needs a SOCKS inbound that no
build makes. Of AtomicFile and LevelStore: permissions, the encoding of rows,
compaction. Log messages, wire formats and the arithmetic of delays are left out
throughout, except where a property is about them.
