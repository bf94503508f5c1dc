# A verification project for tray-sing-box

tray-sing-box is a Windows tray application (Go) that runs sing-box.exe as a
VPN: it starts, stops, watches, restarts, updates and configures it, from the
tray menu and from a local web page. This directory holds TLA+ models of the
parts of it that are hard to test, the TLC configurations that check them, and
TLAPS proofs of what matters most.

All paths below are relative to `src/`; `D/` stands for `internal/domain/`,
`F/` for `internal/infrastructure/`, `A` for `internal/app/application.go`.

## The system: components, state, operations

| Component | State it keeps | Operations | Hard behaviour | What makes it correct | Modules |
|---|---|---|---|---|---|
| VPN life cycle (`D/vpn_service.go`) | `lifeMu`, restart budget (`autoRestarts`, `gaveUp`, `nextAutoRestart`), `runningSince`, `statusChangeCh`, last published status; the intent in the registry | Start, Stop, RestartIfRunning, WithStoppedOrUndo, RestoreLastState, StartMonitoring, GetStatus | status read without the lock, restore and monitor beside user calls, crash loops, application death | the user's last decision wins; nothing starts during a swap; a crash loop ends; what the listener has read settles | VPNLifecycle, StatusListener |
| Process manager (`F/process/manager.go`, `windows.go`) | `mu`, `cmd`, `proc`, `running`, `lastExit`; per process `done`, `stopping`; `helperPIDs` | Start, Stop, IsRunning, LastExit, HelperOutput | a Wait goroutine that outlives its process, the start grace, foreign and leftover processes, failing snapshots and kills | no process lost, none told of as crashed that was stopped, a Stop fails only over what is still there, no second VPN, helpers never taken for the VPN | ProcessManager, ProcessContract |
| sing-box update (`D/update_service.go`, `F/updater`) | files of Bin with their `.old`, `installRecord` | Update, CheckConfig, Install, Rollback, Discard | half-done file operations, crashes, a new version that does not start | undo exact; never a new binary with old libraries; never worse off than before | UpdateSwap |
| Application self-update (`D/app_update_service.go`, `F/selfupdate`) | own executable, `.old`, staged file | Check, Update, Relaunch | crash between two renames, a failed restore, a second update before the relaunch | the running version stays on disk; a missing executable has its backup | SelfUpdate |
| Event loop (`A`) | `opMu`, toggle queue (capacity 1), quit flag | toggle, import, update, quit, relaunch, popups | latest toggle wins, quit while workers wait | nothing cut short, the last toggle carried out, who quits gets out | Application |
| Display (`A`, `D/connectivity_service.go`, `internal/ui/tray.go`) | what the tray shows, the last verdict of a probe | status events, checks | two goroutines showing a status, a probe answering late | the tray comes to show what is | StatusDisplay |
| Config editor (`F/configfile/editor.go`) | `config.json`, `.bak`, the history directory | load, check, write, archive, prune, create, restore | in-place writes, history names and pruning, foreign edits | no accepted state without a way back | ConfigStore, DPIBypass |
| Dependency check (`F/configfile/dependency.go`) | none: a function of two configs | the check before every save | Tarjan's search; defaults of defaults of what a download dials through | what is saved starts, whatever is cached; what is refused would not start from an empty cache | RingSearch, Dependencies, OutboundGraph |
| Refused nodes (`F/configfile/refusal.go`) | nodes left out of one merge | saveMerged, isolate | a check that names one of many, or crashes | one odd node costs neither the others nor the save | Refusal |
| Credentials (`F/configfile/secrets.go`) | the stored section, the open page | ReadSection, WriteSection | a page open while the section changes | a credential stays with its server and its way there | Secrets |
| Subscriptions (`D/subscription_service.go`, `F/configfile/merge.go`) | list of subscriptions with owned tags, reported problems | Add, Update, UpdateAll, Remove, refresh | config synced, list not saved; names contested; problems told once | every owned outbound has an owner | SubscriptionSync, SubscriptionReports |
| Latency and fastest (`D/latency_service.go`, `D/fastest.go`) | flight, recent report, cancel function | Test, SelectFastest, Cancel, Last | a second check beside one in flight, cancel races, a stale report, config edits during a check | a switch only on a fresh report | LatencyService |
| Probe plan (`F/configfile/latency.go`, `F/latency`) | the plan, the servers given up | buildProbePlan, start, launch | a DNS rule, server or detour too few or too many | a server is measured as the VPN dials it | ProbePlan |
| DPI bypass (`D/dpibypass_service.go`) | container, `detour` fields of the config | Enable/DisableChain, EnableDirect | one of several steps failing, sections saved by the user in between | no detour to an outbound that is missing, no chain over a stopped container | DPIBypass |
| Web UI (`internal/ui/webui`) | one-time codes, sessions | Open, login, logout, API handlers | expiry, limits, replay; a list that changes under a request | a code opens one session; what was looked up is still there | WebServer |
| Instances (`main.go`, `F/process/control_windows.go`, `windows.go`) | named mutex, event and marker | start, relaunch, `--quit`, `--quit-installation` | signalling before the other side listens, handles held by helpers | one instance, which hears a quit | Instances |
| Take-over (`F/migrate`, `F/autostart`) | files of the new copy, the autostart task | carry, `--migrate`, task operations | two starters side by side, deaths, failing copies | config.json comes last; the task follows | Takeover |
| Not state machines | | share-link parsers (`F/sharelink`), guard and refusal texts, paths, logging, certificates, rendering, vendored tray library, tools | | left to the unit tests | |

How they interact: the event loop and the web handlers call the services, the
services call the VPN service, which is the only caller of the process
manager's Start and Stop (under `lifeMu`); statuses go back through a channel
of capacity one to the event loop. `opMu`, shared by tray and web page,
serializes config edits, updates and subscription refreshes, but not starts and
stops. The process manager and every `sing-box check` or `version` run share
the table of processes of one executable. Take-over, instances and self-update
meet in the executable's file and its processes, before `main` and after it.

## The modules

    ProcessContract  <---- refined by ----  ProcessManager -- ProcessManager_proofs
          |
       assumed by
          v
    VPNLifecycle -- VPNLifecycle_proofs      StatusListener (VPNLifecycle with its listener)
          |
       WithStoppedOrUndo, with its files and versions
          v
     UpdateSwap, SelfUpdate, Takeover -- Installation_proofs

    Sublists, OutboundGraph  (lists that lose elements; the graph of outbounds) -- ListsAndGraphs_proofs
          |
       used by what is below, and by the proofs about it
          v
    Dependencies, RingSearch, Refusal, Secrets -- Configuration_proofs
    ConfigStore  <---- operations over its files ----  DPIBypass -- Configuration_proofs

    SubscriptionSync     (the config as data; restarts a running sing-box) -- Subscriptions_proofs
    SubscriptionReports  (what the user is told of it)                     -- Subscriptions_proofs

    LatencyService -- LatencyService_proofs   (one check, one switch; others hold opMu beside it)
    ProbePlan -- LatencyService_proofs        (what the check's test instance runs)

    Application, Instances -- Application_proofs   (opMu itself, the event loop; the mutex of Windows)
    StatusDisplay      WebServer -- Configuration_proofs

Eight modules hold theorems; five of them are about more than one component
that share nothing but the module. `MC*.tla` give the constants their values
for TLC. Several components share no state and are small; an MC module EXTENDS
them all and runs them side by side: the variable `part` is chosen in the
initial state and says which of them moves while the others rest, so a run
visits the sum of their states, not the product. A part that rests is in an
initial state of its own, fixed in the MC module (`RingsRest`, `PlanRests`,
...), so its properties hold there as well and need no condition; the fairness
is that of the components that move.

Definitions marked `mutant:` are wrong variants of the definition that follows
them; they are used only to test that a property can fail. They are part of no
specification.

### VPNLifecycle

Models every operation of `D/vpn_service.go` with the callers in `A`. A
goroutine is an element of `Callers` or the one background goroutine `bg`
(RestoreLastState, then the monitor). `pc[t]` is the next step of `t`; each
operation is cut where another goroutine may look or act: at `lifeMu`, at the
registry write, at every call of the process manager, and inside
notifyStatusChange between the channel send and the record of what was
published (`published`). `call` holds an operation's locals, `notice` what is being sent.
The budget is `autoRestarts`, `gaveUp`, `backoff` (nextAutoRestart lies
ahead); `upSince` abstracts runningSince to *none*, *recent*, *long* (long
enough to reset the budget). `proc` is the process, by ProcessContract: up,
down, or ended by the closing session. `AppRestart` ends the application
at any step and starts it again with what outlives it: process, registry,
session. `userOff` is history: the user's last effective decision was a Stop.

Abstracted: error texts, wait lengths (time passes by `BackoffPasses` and
`UpForLong`), and a registry that cannot be read at the restore.

StatusListener adds who reads the notifications, the event loop of `A`: one
takes it out of the channel and wakes it (`Wake`), its payload is not looked
at, and the status is read in two steps as GetStatus does, the process first
and then the intent (`LookAtProcess`, `LookAtIntent`). `heard` is what it has
read last, and the liveness properties are about that: `published`, which the
monitor compares with, is only the service's record of what it sent, written
after the send and sometimes out of order. It is one life of the application:
`AppRestart` leads to what is an initial state of the next.

### ProcessManager and ProcessContract

`Start`/`Stop` are called one at a time (the VPN service's `lifeMu`), `Ask`
(IsRunning) by anyone. Processes have identities from finite sets by their
kind: `Own` (startable by this manager), `Earlier` (elevated ones that
outlived the previous instance), `Elevated` and `Unelevated` (another
program's), `Helpers`. `mu` is held across steps only by Stop. The Wait
goroutine of a process is `CloseDone` (before the lock, as in the code) and
`Collect` (under it), at any later moment. `found`, `todo`, `stopErr` are
Stop's snapshot, its loop and firstErr. A snapshot (`Look`, `StopBegin`) needs
helperMu, which a helper holds from its start to its registration. It is of
the processes whose path is that of the sing-box.exe. An owned process that
was not in it is killed through its own handle, which may fail (`Terminated`),
and Stop waits for its channel or for StopWaitTimeout (`WaitOwn`, `TimedOut`).
That time is long: it is over only where nobody can close the channel, because
the process is still alive.

ProcessContract is the abstract specification the VPN service relies on: only
a successful Start makes IsRunning true, a failed one leaves it or finds the
process gone, a successful Stop leaves it false, the process may go at any
moment. The refinement maps `up` to what IsRunning tells (`Tells`) and `op` to
the call under way (`Op`). It holds until a snapshot fails or another program
starts an elevated sing-box.exe of this installation (`disturbed`, history):
with a failed snapshot the manager trusts its cached state (by design), and a
foreign elevated process makes IsRunning true without a Start.

Not modelled: the console log, and the reuse of a PID in the instant between
the end of a helper and the removal of its registration.

### UpdateSwap

UpdateService.Update and the updater, one file operation per step, with
WithStoppedOrUndo around them. Files are `exe`, `exeOld`, `lib`, `libOld`; a
file's content is the release it comes from, `absent` or `partial` (a copy
that stopped half way). `accepts` is the set of versions whose `sing-box
check` accepts the config, `works` those that start on this machine; both are
needed for a version to run. `record` is the installRecord, `before` remembers
Bin as the update found it. `UndoLib` is restoreDLLs for Install (which
ignores its errors) and for Rollback (which reports them). Users, the monitor
and crashes of sing-box act whenever `lifeMu` is free; config edits only
between updates, since they take `opMu`.

An update begins with a newer release, or with the installed one again where
the version of sing-box.exe cannot be told.

One step each: the download (it stages and verifies, or changes nothing), the
two config checks, and a start with the watch of its first seconds. Not
modelled: an installation without any config.json, and edits of the config by
another program during an update.

### SubscriptionSync

`D/subscription_service.go` over `SyncOutbounds` and `AddOutbounds`
(`F/configfile/editor.go`, `merge.go`), with imports, the switch of the server
and the deletion of one. A tag is a name and the number behind it, so that
`suffixTaken` is arithmetic on pairs; the content of a node is a server and a
version: equal servers are an equal `identityKey`, equal contents an equal
`contentKey`. `SyncMerge` is `syncMerge` step by step: free names and refused
nodes, then what becomes of the subscription's nodes (`Reconcile`: renames by
`PairRenamed`, held nodes, removal), then the config rewritten by it
(`Rewrite`: names, removal, upsert, pruned references, the need of a restart).
`outbounds` and `chosen` are config.json, `list` is subscriptions.json, and
`running` is what the running sing-box has read: an `Image` of the config
without its tags, `Stale` once an applied change failed, or `Down`. Operations
hold `opMu` and run one at a time (Add, Update, UpdateAll, `RemoveUrl`); `subs`
is the copy of the list an operation works on, one subscription per step
(`Refresh`, `RefreshFails`), then `Save`
or `Interrupted` (the list cannot be saved, or the application dies). Which
nodes the checks refuse is any subset of the contents that may be refused.
`origin` says where a node came from and `parted` that list and config no
longer correspond; both are history, no guard reads them.

Not modelled: relay chains (`detour`) and the relays held for them, endpoints,
group and DNS outbounds, a write of config.json that stops half way (see
ConfigStore), and a config.json that is not there, where an Add or an Update of one
subscription returns before the save of the list (`ErrConfigMissing`,
`D/subscription_service.go:314`). What the guard and the checks say of a node is an outcome here
(see Refusal).

### Sublists

`Only(s, S)` is the list `s` without what is not in `S`, in the order of `s`:
`slices.DeleteFunc`, and the loops of the code that copy what they keep. It
says what SelectSeq says, by the places of positions instead of by recursion
over the list: the condition of SelectSeq is an operator, of which the provers
can be told nothing, while `Only` is an expression they can compute with. The
subscriptions, the merge of Refusal, the pages of Secrets, the DNS rules and
servers of ProbePlan and the queues of WebServer are such lists.

### ConfigStore and DPIBypass

ConfigStore is a save of `F/configfile/editor.go` one file operation at a time:
`phase` walks through the `.bak`, the archived version, the pruning and
config.json itself; every write truncates first, so `Partial` is what a reader,
a failure or a crash in between finds. `AfterFailure` says which failures end
the save and which do not. The history is a function from time stamps to
contents; `clock` may stand still (the code bumps the name) and may be set
back, as local time is every autumn. The first config goes through `Create`
and `Link`. Another program may write config.json at any moment but the middle
of a write.

DPIBypass puts the operations of `D/dpibypass_service.go` and
`D/settings_service.go` over it. `todo` is the list of steps the operation under
`opMu` has left: container, editor calls (each loads, edits and saves), the
question whether something is still routed to the container. A document is
what the bypass is about: where the route rules send the traffic (`rule`) and
the rest of it (`final`), the servers that detour through the container
(`detour`), whether a group, a DNS server, a rule set or a client names its
outbound (`other`), and whether that is there (`bypass`). These are kept apart
because the code treats them apart. Every save, of a section of the settings
page (`SaveSection`) as of any operation, is refused for the dangling
references it would add (`Checked`), and for no others: a rule to a
missing outbound is none (`F/configfile/dependency.go:214`), and what dangled
before is not the save's fault. DisableChain asks rules and route.final
(`Routed`), not the others. Other programs write any document (`Foreigns`
holds one with a rule to a missing bypass and one that sing-box would not
start with); `astray` is history: one of them has written such a reference.
Other reasons for the checks to refuse a document, an unreachable Docker and
an unreadable config are all `StepFails`.

What else the checks of a save look for is in Dependencies and Secrets. Not
modelled: the restart of sing-box that ends an operation (VPNLifecycle), and the container
being stopped by someone else.

### LatencyService

`D/latency_service.go` with `ChooseFastest` (`D/fastest.go`). Each caller, of
the tray or of a page, is a record: where it is (`at`), what it asks, the plan
it measures, the report it decides on, its target, and whether its context is
over. `flight`, `cancel` and `opLock` are the flight lock, the check that
Cancel ends, and opMu; a second check is refused as busy. A check runs without
opMu, so the servers and the routing change during it (`OtherEnds`); the
routing is read, decided on and switched under opMu. `RequestQuit` cancels the
check and then waits for opMu, which it keeps. Times are ages that stop at the
longest one the code compares them with: `ended` at the least distance of two
test instances, `tested` one past the age of a report that is still decided on.
Which servers can be measured is the set `servers`.

What the test instance measures is in ProbePlan. Not modelled: the requests to
its API (`F/latency`), and edits of config.json by another program while opMu
is held.

### Application

`A` around `opMu`, with the handlers of `internal/ui/webui/server.go` that
share it. `loop` is the event loop, also while it holds a request it cannot
hand over; `click` what the tray holds out, `slot` the queue of one place,
`worker` the request being carried out. A long operation is idle, waiting for
opMu, working, or showing its popup (after the unlock). `quit` and `relaunch`
are the calls of RequestQuit and RelaunchAfterUpdate: both keep opMu until the
process has ended. `systray` is the native loop; a Quit before it runs is
swallowed (`deaf`), which is why RequestQuit leaves main directly before the
tray is ready.

Abstracted: what the operations do is the other modules'; the menu offers Start
or Stop by the status shown last, here either one. The status shown is in
StatusDisplay. Not modelled: the autostart item, and the end of the Windows
session, which ends the process at any moment whatever it does.

### SelfUpdate and Takeover

SelfUpdate is the update of the application itself: `appExe`, `backup` and
`appStaged` are the executable, its `.old` and its `.new`, each a release,
absent or half downloaded; `version` is what runs. Update goes through the
download, the removal of the last backup, and the two renames; every file step
may fail, a failed second rename is undone (which may fail too), and the
process may die anywhere. `Repair` is the user who puts the backup back.
A download is the release's signed file or an error; an error before the
removal of what an earlier download staged leaves that. The signature itself
is cryptography.

Takeover is `F/migrate`: a starter of the installed copy (`Carriers`, the app;
`Installers`, `--migrate`) finds a portable copy through the autostart task and
takes its files over, one copy per step. It comes before the single-instance
mutex, so starters run side by side and each may fail or die at any step. The
task has what `F/autostart` asks of it: whose it is, enabled, outdated, or
unreadable at the moment (`RegisteredTask`). `cut` and `refused` are history:
where a starter died, which copies failed.

### OutboundGraph, Dependencies, RingSearch

OutboundGraph is what outbounds depend on each other, and what sing-box does
with it: `Started` builds the set of outbounds that start, `Rings` the mutual
dependencies. RingSearch is Tarjan's search of `F/configfile/dependency.go` one
visited edge at a time (`index`, `low`, `stack`, the recursion as `calls`); the
order of tags and edges, which is that of Go maps and files, is any.
Dependencies is the check itself over configs of sections: problems are
records without a position, as in the code, so that a problem the old config
already had does not refuse a save. `SingBoxStarts(cfg, cached)` is the reference: what
sing-box fails on when it starts with these rule sets cached, from the
comments of that file. It shares no definition with the check but the graph:
which client a download goes through and what it dials are stated once more
(`Serves`, `Transport`). A cached rule set need not be downloaded for the
start, which the check cannot know ("counts either way"), so what is claimed
has two sides: what passes starts whatever is cached (`StartsAnyhow`), what is
refused would not start with nothing cached (`StartsFresh`). `ByHand` is
an administrator's edit, the only way to a config with problems.

### Refusal

A merge that the checks refuse, pass by pass (`saveMerged`, `refusedAlone`,
`isolate`): the guard, the dependencies, sing-box, each with the nodes it
blames, until a pass is clean. A node's `verdict` is what its own check says;
`SingBoxCheck` of a list names the first node or crashes. The halving with its
budget is a recursive function of a list and of the halvings left
(`isolate[list][halvings]`), whose one round is `Round`. `around` is the config
the nodes are merged into, without dependency problems of its own (those it had
before are nobody's fault); whether sing-box has something else against it is
the choice `surroundings` of `PassSingBox`. The incoming nodes are new, so
every merge changes the config; one that changes nothing is not checked at all
and has no pass (`SyncMerge` of SubscriptionSync says which those are). Without
a sing-box.exe nothing is refused but by the guard and the dependencies, as
with nodes whose verdicts are all "ok".

### Secrets

The settings page's `Masked` outbounds, edited in the browser, against the
`stored` section that refreshes and imports replace meanwhile. `Matches` is
where a placeholder may take its value from: an equal outbound whose way to its
server (`ChangedDependency`) is unchanged.

### SubscriptionReports

What a refresh finds, by the stage it reached, what is remembered of it
(`reported`, trimmed when a problem is noted, saved with the subscription) and
what is shown: everything to a user who asked, news only otherwise. A refresh
without a problem returns before the trim (`Remember`), so a `reported` longer
than the memory stays as it is.

### ProbePlan

`buildProbePlan` as operators over a config: `Walk`, the closure of what a
server needs; `Measurable`, which nodes are measured (not one whose server is
this machine: it is carried for others only); `Problem`, why one cannot be measured; `Plan`, the config of the
test instance. `ProbeNext` is its start: a server sing-box cannot create is left out
and the plan built again (`ExcludeOne`), up to `Retries`; a busy port and a
refused stdin config cost one retry each. `ResolvedBy` and `Matches` are the
reference, sing-box's own resolution of a server name.

### StatusDisplay, Instances, WebServer

StatusDisplay: the event loop and the operations read the status and show it
in two steps; the connectivity loop probes with no lock, records a verdict and
shows it. A wake-up finds the channel full and is dropped.

Instances: the named objects of Windows are sets of processes with a handle. A
process that ends loses its handles. A starter that finds the mutex taken has
itself a handle for a moment, as has a helper that looks. A quit event that
cannot be opened, though there, is an error of `--quit` (`OpenEvent`). `Quitters` and
`Uninstallers` run `--quit` and `--quit-installation`; `Relaunch` starts a
successor that waits for its predecessor, 30 seconds at most (`WaitOver`).

WebServer: codes and sessions are numbered in the order they are drawn (random
secrets do not repeat); both lists are kept in the order the code prunes and
evicts them. A request is authorised, locks opMu, looks its subscription up,
and calls the service; the tray takes opMu as it likes.

## What is checked

Runs that must pass:

| Run | Question | Instance |
|---|---|---|
| lifecycle_safety | Do fn and undo of a swap always run with sing-box down? Is a returned Stop final? | one caller with every operation beside the restore and the monitor, two restore attempts, failing stops, one death of the application at any step |
| lifecycle_live | Does a crash loop end, is "Starting" resolved, does a status that stays come to be what the listener has read last? | one caller that starts and stops, the listener; fairness |
| process_safety | Is a started process ever lost? Is LastExit ever stale? Does a Stop ever fail over a process that has gone? Does the manager implement its contract while it is undisturbed? | three own processes, a leftover, two foreign ones, a helper; snapshots and kills fail |
| update_safety | Is a failed or rolled back update without trace, and never a loss? Is a binary ever started with older or half-copied libraries? Is a successful update whole? Does the app's own executable survive its update? Is a take-over whole, and does the task follow it? | UpdateSwap: three releases, two libraries, two failing file operations, one bad start, one crash. SelfUpdate: three releases, two deaths. Takeover: the app and the installer side by side over a binary, a data file, a history entry; one death, one operation on the task |
| subscriptions_sync | Are the user's servers spared? Does every tag resolve, every node have its one owner, the choice follow a renamed server? Was a skipped restart not needed? Is a repeated refresh without effect? Is a problem told once? | two subscriptions and an own server with shared names, a provider that renames and changes a node, one import, switch or deletion, one failure or crash. Reports: three reasons beside the five stages, so that a refresh finds more than the memory of two holds |
| application_ops | Does the last click win? Is an operation cut short? Does who asks for the end get it? Does `--quit` return, and mean gone? Does the tray come to show what is? | Application: one tray operation with its popup, one request, three clicks, two quits, two relaunches. Instances: two installed processes and a portable one, a `--quit` and a `--quit-installation`, two starts. Display: one worker, three changes, two failures. All with fairness |
| latency_service | Are test instances apart, and one at a time? Does a switch answer the routing it replaces? Does a quit end a check under way? Is a server measured as the VPN dials it, and does a broken one take no other along? | two servers, three delays, an interval of two and a reuse time of one, one caller of the tray and one of a page; other operations change servers and routing at any time. Plan: about 800 configs of two nodes, a group and two DNS servers |
| config_bypass | Can a half-written config be had back? Are the newest versions kept? Is what config.json dials through there, whatever sections are saved in between? Are all rings found? Does what is saved start, and is only refused what would not? Does one odd node cost the others? Does a credential stay with its server? Does a code open one session, and a lookup hold? | one server, a history of two, a clock with the readings 0, 1 and 2, one failing file operation or crash, one interference (another program, or the clock set back), documents with a rule to a missing bypass outbound and with references that sing-box would not start with. Beside it: every graph of three outbounds; configs of two nodes and a group with their rule sets, clients and DNS servers; every list of up to three incoming nodes with every verdict and detour, and lists of 8 and 20; a page of three outbounds with an edit and a refresh; two requests, three codes, three sessions |

Runs that must find a violation; each is a disagreement between a sentence of
the code and what it does:

| Run | What the trace shows |
|---|---|
| lifecycle_unheard | With restarts of a VPN that runs against the intent "stopped", the monitor records a status the listener never read, and then takes the end of the process for known: the listener stays with "running". |
| lifecycle_unsaved | Stop only logs a failed registry write; the restore brings the VPN back. |
| update_down | A sing-box that has just crashed counts as "was not running": the new version is neither tried nor undone. |
| subscriptions_numbered | A provider numbers its nodes and drops the first: the chosen last server survives under a name another node had, is not recognised, and the traffic moves to the first node. |

CHECK_DEADLOCK FALSE stands where something really ends: the application
exits, a search, a merge or a check finishes.

**Bounds.** One caller in lifecycle_safety meets the background goroutine at
every step; that two and more callers change nothing is what the proofs say of
the same two properties. Two restore attempts and one automatic restart reach
the retry, the limit and the give-up. Three own processes give an old Wait
goroutine a second and a third process to confuse. Three releases and two
libraries give a library that is replaced, one that is added and one that a
release does not bring, and a second update over the remains of the first;
the releases whose binary runs on this Windows are any that include the
installed one, or the two others. A
history of two and a clock that starts at 1 and ends at 2 give a third version
under a bumped name, which prunes the first, and a clock set back gives more;
one interference meets every step of every operation, and any number of
them is what `BypassServed` and `BackupIsThere` cover. Failures, bad starts, crashes and deaths are counted and bounded
(`MaxFailures`, `MaxBadStarts`, `MaxCrashes`, `MaxAppRestarts`, `MaxEnds`,
`MaxDeaths`); process identities are bounded by their sets, which also ends
behaviours: after the last own process only failing starts are left, so no
state is without a successor. In SubscriptionSync the names of the two
providers, of the own server and of the import collide pairwise, so every
number is contested; one change by the user and one failure are enough to
separate list, config and sing-box. In LatencyService two servers and three
delays give every verdict: kept, better by less and by more than the margin,
unanswered; two callers make one that is refused, one that waits for opMu, one
that decides on the other's report. Three clicks (`MaxToggles`) fill the slot,
the hand of the loop and the worker of Application. In Instances two starts
(`MaxStarts`) give an instance and its successor or rival; in Takeover two
starters give every order of two copies of one file, with one binary, one death
and one operation on the task, where the proofs cover any number. In StatusDisplay three
changes (`MaxChanges`) outrun a reader twice. In WebServer limits of two, with
three codes and three sessions (`MaxCodes`, `MaxLogins`), evict once each. Graphs of three nodes hold
every kind of ring of the search (to itself, of two, of three, two beside each
other); a list of 20 crashing nodes exhausts the halving budget of Refusal.

**Fairness.** A goroutine that can take its next step takes it (weak
fairness); a goroutine waiting for a Go mutex gets it (strong fairness, since
Go's mutexes hand over to a waiter starved for a millisecond); the event loop
reads its channel and then the status (StatusListener); timers expire. Nothing is assumed of the user, of sing-box
or of Windows: no one has to ask, crash or answer. In Application an operation
under `opMu` ends, since every one has its timeouts; popups need never be
dismissed. In Instances the helpers run and their deadlines come; no instance
has to hear or to exit. In StatusDisplay the event loop and the connectivity
loop run, a probe has a timeout, and who has read a status shows it.

What a property leaves out is a condition of its own, written in it and not in
the instance: `ImplementsContract` holds until the manager is `disturbed`, the
container half of `BypassIsServed` without edits by others during the
operation (`meddled`), and the half about references until another program has
written a dangling one (`astray`). The newest versions of `WayBack` are found
in the history by their names; their contents are not compared. `TaskFollows` leaves out the starter whose
own task step failed or was never reached. `ListMatchesConfig` says nothing of
who owns a node once list and config have `parted`, nor `RunsWhatIsSaved` of what
runs after a list that could not be saved: of that failure only
`UserNodesSpared` holds.

## What is proved

Each proof module EXTENDS its component; the theorems hold for every value of
the constants within the component's ASSUMEs, which TLC evaluates on every run.

`VPNLifecycle_proofs`, for any set of callers and any limits:

* `TypeCorrect`: the type invariant.
* `Invariance`: `Inv`, inductive: labels belong to operations (`ControlInv`),
  the goroutine between Lock and Unlock is the holder (`LockInv`), and from
  the stop of a swap to the start after it the process is down (`SwapInv`).
* `SwapSafe`: `DownWhileSwapped`. The property alone is not inductive: that
  nobody else is inside `lifeMu` is needed for every step of the others.
* `StopIsFinal`: `StopWins`, if registry writes succeed. It rests on
  `IntentInv` (after a Stop the intent is off, and whoever has passed the check
  of the intent holds the lock) and, when stops succeed, on `DownInv`.
  Without the assumption it is false (lifecycle_unsaved).

`ProcessManager_proofs`, for any sets of processes:

* `TypeCorrect`, `Invariance`, `NoProcessLost` (`OwnedWhileAlive`),
  `ExitIsNews` (`LastExitIsNews`), `Earned` (`RunningIsEarned`), `HelpersLive`
  (`HelpersSpared`), `StopFails` (`StopFailsForCause`): with no assumption on
  failures. The strengthening: a
  process whose done is closed is dead; `cmd`, when set, is the last one
  started; a live own process is `cmd` and cached as running but in its grace
  (this is what keeps a Start whose snapshot failed from starting a second
  one); Stop's list still holds every live process it has not ended; a live
  helper is registered, or its registration holds the lock a snapshot needs.
* `NoHelperAdopted`, `OneVpn`, `Implements`: until a snapshot fails or
  something else starts an elevated sing-box (`disturbed`). `Implements` is the
  refinement of ProcessContract, one step of the proof per action; it needs
  `SoloInv`: an owned process excludes every other VPN, leftovers included.

`Application_proofs`, for any operations, quits, relaunches and number of
clicks, and for any processes, helpers and starts of Instances:

* `TypeCorrect` and `Invariance`: types, and that opMu has exactly the holder
  that believes to have it.
* `LoopIsFree` (`LoopNeverBlocks`): the loop empties the slot before it sends.
* `OperationsComplete` (`NothingCutShort`), `NoSecondSuccessor`
  (`OneSuccessor`): both rest on `EndInv`. The native loop is ended only behind
  a holder that keeps opMu, and the one new instance was started by such a
  holder, so no operation holds it then and no second relaunch gets it.
* `Exclusion` (`OneInstance`) and `QuitIsGone` (`QuitMeansGone`) of Instances:
  every instance has its handle of the mutex (`Holds`), and whoever a helper
  has asked and has not gone is an instance still (`AskedLive`).

`Installation_proofs`, of what becomes of files that are replaced:

UpdateSwap, for any releases, libraries, failures, crashes and deaths:

* `FitTogether` (`NewBinaryNewLibs`) and `Exact` (`UpdateIsExact`). The
  invariant follows an update through its file operations: what the binary is
  at every step and which libraries are the staged ones (`Copying`), that what
  was replaced lies in its `.old` and what was added was not there (`Kept`,
  `OldKept`), what the update began with (`Basis`), and which results a step
  can have (`Reports`). Between updates only `Fit` is left: the binary there is
  has its libraries.
* `NotTradedAway` (`OldRunsNewRuns`), when at most one start fails by chance
  (`MaxBadStarts <= 1`). The code tries a new version a second time
  (startToKeep); two chance failures in a row are a rollback of a version that
  runs, so the assumption is the promise of the code. The count of failed
  starts is in `GivenUp`.
* `SwapTypeCorrect`, and `SwapInvariance` for the invariant itself.

The application's own files:

* Takeover, for any files, starters, deaths and changes of the task:
  `WholeTakeover` (`TakenWhole`) and `TaskMoves` (`TaskFollows`). The
  strengthening says for every starter what it has behind it (`Passed`), that
  the history is somebody's business from the moment its directory exists
  (`DirFilled`), and that the old folder goes only when nobody copies from it
  (`OldThere`).
* SelfUpdate, for any releases and deaths: `AppTypeCorrect`, `ExeKept`
  (`ExeSurvives`). It needs where the running version's file is (`Running`) and
  that only a process that has not installed yet updates (`Updating`): with a
  second update before the relaunch the running version would be gone.

`Configuration_proofs`, of config.json and who works on it. The bypass over the store, for any servers, documents, length of the history,
failures, crashes and edits by other programs:

* `BypassServed` (`BypassIsServed`). Of the documents of other programs and of
  the settings page nothing is assumed. The invariant says that, until another
  program writes a reference that dangles, every document that is, was or may
  come back is without one (`AllSound`: config.json, the one
  being written, every version of the history); that saves add none is
  the check of every save (`CheckedSound`). It also says which steps are left of an
  operation (`Plans`, `Progress`: the container runs from the first edit of its
  plan on) and that what DisableChain has cleared stays clear (`Cleared`).
* `WayBackThere` (`WayBack`), of two parts. `BackupIsThere`
  (`HalfWrittenHasBackup`) needs the phase of the save (`BackedUp`).
  `NewestKept` (`NewestAreKept`) rests on `Named`, proved inductive by
  `VersionsNamed`: names are time stamps, bumped when the clock stands still, so
  the names from the clock on follow each other without a gap (`Ahead`); there
  are at most Keep of them, since each save waits for a sing-box check and the
  clock does not stand still for a whole history (`Reading`); the names of the
  last saves are the greatest of the history; and pruning, which takes the
  least name, never reaches one of them. Once the clock has been set back nothing but the form of the names is
  certain, and nothing more is claimed.
* `TypeCorrect`.

The web server, for any requests, subscriptions, codes, sessions and limits:

* `LookupKept` (`LookupHolds`). opMu is a request's exactly from its lock to
  its answer (`Owned`).
* `OneSessionPerLink` (`LoginLinks`). Waiting codes rise in the order they were
  drawn and none of them has been presented; sessions come from different
  codes, each presented (`Access`). A full queue gives up its first code. That
  it is none of the newest ones is counted: the codes after it are different
  and at most as many as there are numbers above it.
* `WebTypeCorrect`.

What decides on a save, for configs of any size:

* `StartsAreSaved` (`SavesWhatStarts`), for any outbounds, routes, clients and
  other sections. The code's check and sing-box's rules are stated apart, one by
  problems and one by what starts. Each kind of problem is matched with its rule:
  the outbounds start exactly when there is neither a dangling reference nor a
  ring (`OutboundsStart`), the route's problems are those of its downloads
  (`RouteProblemsAre`), the references' likewise (`ReferenceProblemsAre`). So a
  config without a problem starts whatever is cached, and one with a problem
  does not start with nothing cached (`PassesStarts`); and a save over a config
  that starts is refused only for a problem it brings.
* `PageInvariance` and `SecretsStay` (`SecretStays`), for any sections and edits.
  No tag is stored twice and no placeholder is stored as a credential. Two lists
  that show the same (`Alike`) have the same ways, so what an unchanged page
  sends is matched with what it showed (`UnchangedPage`).
* `RingsFound` (`RingsAreFound`), for any finite graph: Tarjan's search finds
  exactly the rings. The invariant (`Searched`) has the sets of the search
  apart from its lists. The index is one-to-one; `low` of a tag is the number of a
  tag on the stack that it reaches; the visits under way reach all that came on
  the stack after them; a finished tag on the stack reaches an earlier one;
  nothing that is assigned leads back to the stack; what was found are the
  classes of the tags that left it. The stack and the calls are the tags by
  falling numbers (`FallingTags`), so what is cut off at the root of a ring is
  the class of that root.
* `GoodNodesSaved` (`GoodNodesAreSaved`), for any incoming nodes and surroundings
  that start. No pass blames a sound node (`MergeInv`): the guard's are its own
  (`BlamedIs`), a dependency's are those that a missing or refused one leads to
  (`ChainedIs`), and isolate returns only nodes that sing-box refuses by themselves, and at
  least one (`RoundFinds`, `IsolateIs`), so the merge goes on until it is clean. A round
  hands on only shorter lists, which is why isolate is the function its
  definition describes.

`LatencyService_proofs`, for any callers, servers, delays and margin:

* `TestsApart` (`InstancesApart`), `SoundSwitches` (`SwitchIsSound`) and
  `QuitEndsChecks` (`QuitCallsOff`). The invariant: the flight lock is held by
  the one check under way, which is the one Cancel ends (`OneFlight`); who
  decides or switches holds opMu (`OpMu`) and has the report that is kept,
  which no failed switch has spoilt (`Fresh`); between the decision and the
  switch the routing stays the one that was seen, and the target is the best of
  the report (`Chosen`); a check that was under way at the quit has lost its
  context (`Called`); the interval is counted from the end of the last instance
  (`Rested`). That a non-empty set of delays has a
  least one (`Least`, `BestIsLeast`) comes from the well-founded order of the
  naturals.
* `TypeCorrect`.

The plan of the test instance, for any configs as `ConfigAssumption` describes
them, any outbounds sing-box cannot create, and any number of retries:

* `HealthyMeasuredAlways` (`HealthyAreMeasured`). What a start leaves out is
  broken, and a server is left unmeasured for what it needs only (`PlanInv`).
  A start gives up only when more are broken than it may retry.
* `PlansAlwaysStart` (`PlanStarts`). What is needed is closed under the
  references of outbounds, DNS servers, rules and globals (`NeededIs`), so
  the plan has all it names, and its rings were rings of the config.
* `MeasuredAsDialled` (`MeasuredAsTheVPNDials`). A rule that is left out or
  rewritten does not match the server's name in the config either, so the first
  rule that decides is the same in both, and so is the default behind
  the rules; a DNS server keeps the outbound it is reached through.

`Subscriptions_proofs`, for any subscriptions, names, servers, lists that
providers may serve, imports and failures (SubscriptionSync), and for any
reasons, limits and ages (SubscriptionReports):

* `SyncInvariance`: `SyncInv`, of five parts. `ConfigOK`: a tag names one node and
  the traffic goes to one of them. `ListsOK`: the saved list and the copy an
  operation works on have one entry for each URL, and neither claims a server of
  the user. `TurnOK`: what is left to do is in the copy. `OwnersOK`: unless list
  and config were `parted`, every node of a provider is owned by its
  subscription and by no other; during an operation by the copy, since the
  saved list is behind by then. This is why ListMatchesConfig, which speaks of
  the idle states only, is not inductive. `RunningOK`: what runs is the image of the
  config, unless a restart is due.
* `SyncTypeCorrect`, `OwnersMatch` (`ListMatchesConfig`), `RunsTheSaved`
  (`RunsWhatIsSaved`), `UserSpared` (`UserNodesSpared`).
* `ChoiceFollowed` (`ChoiceFollowsServer`): the only node of a server before and
  after a merge is paired with itself, so references to it are renamed.
* `RefreshStable` (`RefreshIsStable`) compares a merge with the merge of its result. The
  names that are protected are the same, so the list gets the same tags. All
  of it is in the config by then, so nothing is renamed. The old nodes that are
  left are those held for a refused update; each keeps its rank, since the
  equal nodes before it were held as well (`RankStays`), so the same ones are paired
  with the refused nodes (`PairedAgain`), and none is removed. A rewriting
  without renames and removals by nodes that are there is the identity
  (`RewriteSame`).
* The lemmas on the way follow the code. Among as many numbers as there are protected
  tags and one more is a free one (`NumberIsFree`, suffixTaken), so the names of
  a merge are apart (`NamedApart`). Ranks count the equal nodes before a node, so
  no rank is left out (`Ranks`) and `PairRenamed` is one-to-one
  (`RenamesApart`). Each old node of a subscription is served again, renamed,
  held or removed, and only one of these (`Reconciled`). Then renaming, removing and
  upserting leave each tag to one node (`Rewritten`), and a merge of one
  subscription's tags touches no other node (`SyncDoes`, `SyncOne`). Where no
  restart is asked for, the images are equal (`SameImage`).
* `NothingTwice` (`ToldOnce`). What is remembered as reported was shown since
  it was last forgotten, and the kinds of the last problem are all remembered,
  since the trim keeps what the refresh has just found (`ReportInv`, `Remembered`).

`ListsAndGraphs_proofs` has what these proofs rest on. Lists: the elements kept, their
order and their number (`Places`, `Sublist`, `OnlyThose`). Rounds: repeated
steps make a sequence (`Iterated`), and sets that grow inside a finite set have
settled after as many steps as it has elements (`Settles`). Recursive
functions: TLA+ defines one as some function with its equation, so that there is
one at all has to be proved; `Recursive` does so for functions whose calls
are on smaller arguments by some measure in the naturals. Graphs: what a tag
depends on is the least closed set (`DependsOnIs`), what starts likewise
(`StartedIs`), and all of a finite graph whose references exist starts if and
only if it has no ring (`StartsWithoutRings`). Induction, which the library
states with operators as parameters, is replaced throughout by the least
element of a set of counterexamples (`Least`).

`LoopNeverBlocks`, `OneSuccessor`, `NoSecondVpn`, `HelpersNotAdopted`,
`HelpersSpared`, `RunningIsEarned`, `OneInstance`, `HalfWrittenHasBackup` and
`NewestAreKept` are stated and proved, and checked by no run of their own.

What the proofs assume of the constants is what the code gives: sets of names
that are disjoint, limits that are natural numbers, a clock that shows at least
one time (`StoreAssumption`), callers that are not the other operations
under opMu (`CallerAssumption`), a routing whose tag is a server's only when it
is to a server (`RoutingAssumption`), providers that serve at least one node under names of their
own (`BodiesAssumption`: a list without nodes is a failed refresh, and the parser
numbers equal names), a user who is no provider and a Direct that is no tag of
a node (`ApartAssumption`). Configs are finite and as sing-box decodes them: a
local rule set downloads nothing, a remote one in one way at most
(`SectionsAssumption`); no tag of an outbound or DNS server is used twice, a selector has
members with its default among them (`ConfigAssumption`; sing-box refuses the
others); stored sections hold no placeholder (`SectionAssumption`); the graph that is
searched is finite (`NodesAssumption`). A merge is of nodes with a verdict
each, under tags that are not in use, into a config without dependency problems
of its own (`IncomingAssumption`, `AroundAssumption`; the problems a config has
already refuse no save).

Every invariant and every action property of the runs that pass is a theorem,
and so is the refinement. Only model-checked are the liveness properties
(CrashLoopEnds, StatusSettles, LastClickWins, QuitEnds,
QuitCallEnds, DisplaySettles), since fairness and ENABLED are outside the prover's
reach, and the four violations.

## Met while modelling

Disagreements and limits without a run of their own.

In the life cycle and its callers:

* The monitor asks about the closing session once, before it locks
  (`D/vpn_service.go:528`), so a session that begins to end after that question
  gets its sing-box back.
* "Turn off" in the give-up popup checks the status, then waits for `lifeMu`
  (`A:140`); a Start that holds the lock meanwhile is undone.
* The Wait goroutine may take the mutex before Start does
  (`F/process/manager.go:229`): a process that dies in its start grace is then
  also recorded as a crash (LastExit).
* A worker that read the status before the event loop may show it after
  (`overtaken` in StatusDisplay): the menu keeps the older status until the
  next change. A probe that began before a stop records its verdict after it;
  the next tick clears it. `failures` counts on over VPN runs that begin
  between two ticks.

In the update of files:

* Rollback restores the libraries although the rename of the binary has failed
  (`F/updater/updater.go:394`), which leaves the new binary with old libraries,
  and the monitor may start it; the ghost `restoreFailed` of UpdateSwap keeps
  this case out of its three properties.
* Install takes any existing target for the previous binary: a half-copied one
  left by a crash replaces the working `.old` (`F/updater/updater.go:346`).
* A crash in the middle of the history directory leaves it partial, and the
  next take-over skips it because it exists (`cut` "filling" in Takeover). A
  crash between config.json and the task is not made up for either: config.json
  ends the take-over (`cut` "task").
* When schtasks cannot be read, an existing task counts as this copy's own, also
  when it is another's (`OwnsTask`).

Between instances:

* "an existing mutex is always a genuine instance's"
  (`F/process/windows.go:70`): a helper that looks at the mutex has a handle of
  it for a moment, and a starter that comes then loses.
* An instance that starts while a helper still holds the old quit event cannot
  create its own and stays deaf to `--quit` until it ends; the helper then
  runs into its deadline (`Listen`).
* `--quit-installation` asks whose instance runs, then asks whatever instance
  is there to quit (`main.go:307`).
* A successor that waited 30 seconds in vain starts and loses to the mutex.

In the config and what is measured:

* When the list of subscriptions cannot be saved, `refresh` returns before the
  restart its config changes are due (`D/subscription_service.go:322`):
  sing-box keeps the old servers until the next change, and the tags that were
  not saved may be claimed by a second subscription (`parted`).
* A rollback archives the config it replaces and therefore refuses while
  config.json cannot be parsed (`RestoreVersion`): a half-written one is
  repaired from `.bak` or the history by hand only.
* After the clock was set back a new version sorts before the older ones and
  may be pruned at once (`setBack` in `NewestAreKept`).
* A route rule to a bypass outbound that is not there passes the checks, which
  say so (`F/configfile/dependency.go:214`): the settings page may delete the
  outbound or save the rule, and sing-box starts and fails what it matches.
* DisableChain stops the container when no detour, no rule and not route.final
  leads to it (`RouteReferences`, `F/configfile/editor.go:1135`); groups, DNS
  servers, rule sets and clients that name the bypass are not asked
  (`ContainerFirst` claims no more).
* A config that starts only because a rule set is cached is refused the next
  section that would bring a missing download detour, since the check counts
  it "either way" (`F/configfile/dependency.go:204`).
* EnableDirect and the switch that uses it are two operations
  (`D/dpibypass_service.go:180`): a DisableChain between them stops the
  container.
* `isolate` has a budget of halvings, since halving "would cost about two checks
  per node" when crashing nodes are in both halves (`F/configfile/refusal.go:211`).
  A round counts only when both halves crash, so a list of which every second
  node crashes never spends it: 20 such nodes take 39 checks.
* A test instance of a single server passes DNS rules over that name another
  outbound, so the options a route-options rule would have set for it are lost.
* A first DNS server without a tag is the default of sing-box; indexProbe takes
  its empty tag for no default (`F/configfile/latency.go:195`), so
  the test instance may use another server as its default and
  measure a name resolved otherwise than the VPN does. `MeasuredAsTheVPNDials` is stated for
  configs whose default server has a name (`DefaultIsNamed`); without that
  condition TLC finds the difference in the configs `Nameless` of MCLatencyService.
* A check of the delays that the page starts after RequestQuit has cancelled,
  or that has not registered its cancel by then, may switch before the quit
  gets opMu; `QuitCallsOff` is about the checks under way.
* A confirmation is decided on the last report, which another check may have
  replaced since the question was asked: the switch may then go to another
  server than the question named (`D/latency_service.go:255`).

## Not modelled

* `F/sharelink`: conversions from links and profiles to JSON, a formula per
  field. They have no state and no order; a model would be a second copy of the
  tables the unit tests compare.
* `F/configfile/guard.go`: a list of forms a section may not have. Refusal
  takes its answer as a node's verdict. `routingTarget` beyond the kinds that
  LatencyService tells apart, relay chains and endpoints in the merge, and the
  readers that only list what is there.
* The pages, the JSON of answers, and the checks of Host and Origin headers;
  the calls of schtasks, docker and the job object, whose outcomes are choices
  here; the comparison of version strings, which is the order of releases here.
* Paths, logging, certificates, clipboard, the vendored tray library, the
  release tools.
