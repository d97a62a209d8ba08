# A TLA+ verification of firefox-lldb

`firefox-lldb` lets LLDB debug the WebAssembly of a Firefox tab. LLDB speaks the
GDB Remote Serial Protocol (RSP), Firefox its Remote Debugging Protocol (RDP), and
the program in `src/src/` stands between them. This directory holds TLA+ models of
that program, the TLC configurations that check them, and TLAPS proofs. `PROJECT.json`
maps every definition to the source lines it models.

```
tlc -config MCRdpClient.cfg MCRdpClient      # any row of the table of runs
tlapm Targets_proofs.tla                     # the proofs
```

## 1. The system

LLDB (in wasm, or native) → `EmbeddedLldbBridge` / TCP → attach shim → the gdbstub
component in a Node worker → synchronous calls over shared memory → `RdpDebuggee` →
`RdpWasmSession` → `RdpClient` → Firefox. A platform server presents tabs as
processes; for each tab it launches, a spawner owns one such chain.

Everything on our side but the worker is one JavaScript thread. Handlers run to
completion, so the hard interleavings are those at `await`s, timers and promise
continuations, and those with Firefox, whose actors act at any time. One fact matters
a lot: one TCP chunk may hold several packets, and all of them are handled before
any promise continuation runs.

| Component | State | Operations | Hard | What makes it correct |
|---|---|---|---|---|
| `RdpClient` (rdp/client.ts) | request FIFO per actor, slot counter, tombstones, closed, greeting | request, send, close, retirement, packet / error / close handlers, timers | replies carry no id; timeouts; retirement with requests in flight | every caller gets its own answer, once |
| `RdpWasmSession`, targets (rdp/session.ts) | threads, generations, tombstones, TIDs, sources, detach timers | target-available / destroyed, sources, close | announce-first or destroy-first replacement; late and repeated packets | one live incarnation of the page, stable TIDs |
| `RdpWasmSession`, all-stop | paused, resuming and unwitnessed TIDs, active operation, completed stop | arm, collect, resume, step, interrupt, adopt, extend | threads act while a stop is collected | a reported stop is real; no pause is lost |
| `RdpWasmSession`, navigation | progress record, document facts | navigate, readiness | independent acceptance and readiness, either may never come | completes, fails or reacquires, exactly once |
| `RdpBreakpoints` (rdp/breakpoints.ts) | desired, applied per target, revisions, job queues | set, remove, addTarget, removeTarget, sources, close | awaits between snapshot and installation; rollback | Firefox holds what LLDB wants |
| `RdpTransport` (rdp/transport.ts) | byte buffer, outgoing queue | data, send, close | frames split and joined; several per chunk | frames come out whole, in order |
| `RdpDebuggee` (gdb/rdp-debuggee.ts) | stop labels, resync timer, frame snapshots, resource ids | continue, step, interrupt, prime, frames, modules, memory | Ctrl-C and resync race stops; snapshots over awaits | right reason, frames of one stop |
| gdbstub worker (gdb/worker/) | shared control word, current call, ready / stop promises | call, answer, start, stop | worker blocked while the host dies | nobody sleeps for ever |
| `GdbServerSpawner` | owned servers, closing promise | launch, kill, killAll | late launch after shutdown | nothing leaks, one stop each |
| `PlatformServer` | PIDs of tabs, pending and live server per tab | RSP commands, tab updates | concurrent launch / kill of a tab | one server per tab |
| tab session launcher | stage, acquired resources | launch, rollback, reacquire | cancellation in every stage | full rollback |
| platform session | failure promise, shutdown promise | start, fail, shutdown | failures during startup | shutdown in order, failures reported |
| Firefox processes (core/firefox*.ts) | process group, profile | launch, verify, close | hand-off to other processes | no process is left behind |
| tab watcher (rdp/browser.ts) | dirty, refresh, tab list | events, refresh | event during refresh | final list is fresh |
| RSP server, attach shim, packet parser | queue of input, listener, handshake | data, listen, close | close during bind | ordered replies, no leak |
| LLDB bridge, automatic attach | channel, socket, queued bytes | read, write, close | back-pressure, end or failure | bytes in order, bounded |
| symbols, source maps | registries, caches | fetch, convert | large inputs | correct bytes |
| REPL and MCP server (cli/repl.ts, mcp/) | lines, dispatch, prompt markers; child, its command and callers; owner's chain | send, interrupt, launch, replace, shutdown | the driver only counts markers; launches that supersede each other | replies belong to their command, one child at a time |
| CLI entry points, diagnostics | options, log | start, log | | tidy exit |

`PROJECT.json` lists the same components with their status, and the hazards: the places
where this code can go wrong in a way a unit test would hardly reach.

## 2. Modules

| Module | Models | Uses |
|---|---|---|
| `RequestLedger` | abstract: what `request` promises its callers | |
| `RdpClient` | rdp/client.ts, with its transport's socket and Firefox's answers | refines `RequestLedger` |
| `Targets` | target lifecycle of rdp/session.ts, with Firefox's watcher | |
| `Targets_proofs` | theorems about `Targets` | |
| `AllStop` | the stop operation of rdp/session.ts and the commands of gdb/rdp-debuggee.ts, with Firefox's threads | extends `Targets` |
| `Debuggee` | the execution half of gdb/rdp-debuggee.ts, with LLDB's gdbstub component and its user | extends `AllStop` |
| `Debuggee_proofs` | theorems about `AllStop` and `Debuggee` | extends `Targets_proofs` |
| `Navigation` | `navigate` of rdp/session.ts and its caller in core/tab-session.ts, with the documents Firefox loads | extends `Targets` |
| `Navigation_proofs` | theorems about `Navigation` | extends `Targets_proofs` |
| `Breakpoints` | rdp/breakpoints.ts, with the replay of rdp/session.ts and Firefox's breakpoint actors | |
| `Breakpoints_proofs` | theorems about `Breakpoints` | |
| `ServerLease` | abstract: what the owner of the per-tab servers promises | |
| `TabSession` | core/tab-session.ts, with the worker's life as gdb/worker/host.mjs reports it and the shim's bind and close | |
| `Spawner` | platform/gdb-server-spawner.ts | extends `TabSession`, refines `ServerLease` |
| `Spawner_proofs` | theorems about `Spawner` and `TabSession` | |
| `TabWatcher` | rdp/browser.ts (`watchAndPrimeFirefoxTabs`) and `watchTabs` of core/platform-session.ts, with Firefox | |
| `Platform` | core/platform-session.ts, platform/platform-server.ts and the listener of protocol/rsp-server.ts | extends `TabWatcher`, `ServerLease` |
| `Platform_proofs` | theorems about `TabWatcher` and `Platform` and, in its second half, about `RdpClient` | |
| `RemoteCall` | abstract: what the component's calls of the debuggee promise | |
| `WorkerRpc` | gdb/worker/host.mjs and component-worker.mjs | refines `RemoteCall` |
| `WorkerRpc_proofs` | theorems about `WorkerRpc` | |
| `PtyRepl` | mcp/pty-repl.ts and the command line it drives, cli/repl.ts, with the terminal between them | |
| `ReplOwner` | mcp/repl-owner.ts, and which command line the tools of mcp/server.ts may use | extends `PtyRepl` |
| `Repl_proofs` | theorems about `PtyRepl` and `ReplOwner` | |
| `MC...` | constants for TLC | |

Operators marked *Mutant* are faulty variants of the definition that follows them. No
specification uses them; each shows that a property notices a plausible bug.

### RdpClient

`pending` is `#pending`, a FIFO of request ids per actor; `pendingCount`, `retiredActors`,
`closed`, `nextRequestId` are the fields of those names; `ready` and `connected` are the
promises of the greeting and of `connect()`; `outcome` is each request's promise.
`server` is what Firefox still has to answer, per actor and in order; for a slotless `send` it
owes an event (`acks`) or, when the thread is in no state for it, an error (`refusals`), each
after the answers to the requests made before the send. `askedOf`, `answeredBy` and `misled` are
history variables.

Each method and handler is an action: `Request`, `RequestUnsendable` (the transport
throws), `RequestOverLimit`, `Send`, `SendUnsendable`, `DeliverReply` (answer or error; with an
empty FIFO, ignored), `DeliverRefusal` (the same handler, given the error of a refused send: it
fails the actor's oldest request), `DeliverEvent`, `RequestTimeout`, `Abort` and `AbortOverLimit` (`#retireActor`:
a set of actors retires together with a lifetime), `OwnerClose`, `TransportError`,
`TransportClose`, `Greeting`, `ConnectReturns`, `ConnectFails`. After `close` the socket is
`destroyed` and its chunk's remaining packets still come; then it is `gone`.

Abstracted: packet contents, the actor and method names, logging. A limit of 1024
requests is `MaxPending`, of 65536 tombstones `MaxRetired`.

### Targets

`threads` is `#threads`, a set of records; the other variables keep their names. A
generation is a number, 0 for none. `generationAborted` stands for `#generationAbort`,
`detachChecks` for the pending detach timers, `detached` for the reported ones. `dropped`
is a history variable: what was removed from `threads`; `since` in an entry of `sources` is
another, the next generation when it was entered. Sources come announced (`SourceAvailable`, never
under generation 0) and as a thread's answer (`SourcesReply`, for every current thread, so under
generation 0 for a worker in the gap between two pages).

The environment is Firefox: a page loads, is announced, is destroyed or swapped for
another (announced before or after), starts workers that die with it, announces sources,
and repeats packets late (`FirefoxEchoes`). Packets travel in `wire`, in order; `Deliver` is
`#onEvent` for the first. Assumed of Firefox: when a replacement is announced before the
old page goes, the workers of the replacement are not announced before the page itself.

`CloseSession` sets everything `close` sets; the handlers of the closed client change
nothing further.

### AllStop

`operation`, `witnessed`, `collecting`, `trigger`, `interrupted` are the locals of
`armAllStop` and `#collectStop`. `ready` separates the resolution of a collector's state
waiter from its continuation (`Settle`, one of `StartOver`, `WaitAgain`, `Publish`): packets of
one chunk may come between, nothing else can, because continuations run before
the next timer or socket event. For that reason the event loop waits while `ready`.

Firefox's threads run or not (`running`) and execute commands in the order sent
(`commands`). `FirefoxPauses` is a breakpoint, exception or finished step.
`FirefoxExecutes` answers `resume` and `interrupt` with an event; a command that does not
fit the thread's state is answered with an error, which is no event. A destroyed thread
executes nothing. Left out because `Targets` covers them: sources, repeated packets, and
the detach timers.

The module has the session's methods for LLDB's commands (`Continue`, `SingleStep`,
`Interrupt`, `Prime`, `AdoptPausedState`); `Debuggee` says when the adapter calls which.
`ReplacementSpec` is the session with these commands alone and with `StepReplacement` (a
step addressed to the TID of a page that was replaced), see Findings.

### Debuggee

LLDB is the gdbstub component (vendor/gdbstub-component/src/lib.rs): it blocks in `finish`
until a stop comes, takes the snapshot of frames, answers a stop tagged "interrupted" by
continuing at once, and panics if `finish` fails, which ends the tab's session (`lldb`). The
user may press Ctrl-C while any command is in flight (`TriggerInterrupt`), a read at the prompt as
well: cli/repl.ts does not ask what LLDB is doing.

`DoContinue` and `DoSingleStep` are the methods of those names: a Ctrl-C that came before
makes them interrupt only (`ArmForHost`), a pause nobody was told of is reported instead of
resumed past (`AdoptOldest`), else threads are resumed (`Execute`). `OnStopped` labels a
stop, `SnapshotThread` photographs one thread at a time, with packets between;
`SnapshotAgain` extends a stop by a target that has joined it, `HandOver` gives it to the component,
`SnapshotFails` is a stop that has become stale. `ScheduleResync`, `ResyncDeferred`, `ResyncAdopts` and
`ResyncForces` are the resync timer, which brings a page that arrives
while LLDB waits, and a page that compiles a module later, to a stop so that its modules are read.
`ListenToTargets` has the three listeners; a page of `ModulePages` compiles its module at any time
of its life (`ModuleCompiled`), and LLDB may be told of it first by its own question (`AllModules`).
`pausedBefore` is the
insertion order of `#pausedTids`, as pairs of TIDs, which decides whose packet labels an adopted
stop; `ownTids` says which of the packets are a thread's own. `published` and `held` are history;
a page is no longer `held` once it has announced a module that LLDB has not been told of.

Handles of WIT resources, and reads of memory and values, change nothing here and are left out.

### Navigation

A launch waits for the page, looks at it and may call `navigate` (`startup`); `progress` is the record of
that call and `request` its `navigateTo`. Firefox loads the document in the page that is
there or in a new one, announces it as `Blank`, the wanted or another URL, in any order
with its answer, if it answers; the page may move on by itself, be replaced, or stop the
load at a breakpoint. `HearTarget`, `HearStart`, `HearReady`, `HearPaused` and `HearReply` are
the handlers; `Settle`, `Fails`, `NavigationDeadline`, `RequestDeadline` the ends. Start and stop
of a load are sent by the page or by the tab (`tab` in the packet); what the tab sends is put down to the
page that is there when it comes (`Counts`). `credited`
records the document whose event made the destination ready, `origin` the page that was
known when the call was made.

Four cases are excluded from the properties because the code knows no better: a document
redirected within its page after it was announced can be missed, and so can one in a page
announced as about:blank after another candidate (section 5; only the deadline ends the call),
`navigate` may resolve on a document the page has loaded by itself
(tab-session.ts:113-117 looks at the result once more for that reason), and on a page that is still
loading when a `stop` of the last page, sent by the tab, comes late (section 5).

### Breakpoints

A key is a logical breakpoint; `SiteOf` snaps it to a site, where several keys may meet,
or to `NoSite` if Firefox refuses it. A call of `set` or `remove` (`CallId`) puts a job in the
queue of each target; `desired[k]` names the call whose object the map holds, since the
code compares object identities to see whether a call was superseded. `job` is the running
job of a target, at its snap or with a request under way; `stale` holds the targets for which
a revision number moved since their job looked. `Advance` is the code from one await to
the next: it starts over if stale, removes what is not wanted, adds what is missing, ends
otherwise. `RollBack`, `SetFails`, `SetReturns` and `RemoveReturns` are the continuations of the
call when all its jobs have settled. `AddTarget`, `AnnounceSource` and `RemoveTarget` come
from the session, whose replay closes it if a job fails (`ReplayCloses`).

There is one source URL and its positions, once fetched, are cached: a snap is one await.
Sites are positions, abstracted to names.

### TabSession and Spawner

A launch is a record `tab[p]`: `stage` and the other locals of `launch`, `outcome` for its
promise, `stop` for the await `stop()` has reached. The steps of a launch are functions on
such records, because what follows an await is decided at once: `Checkpoint` is the
function of that name with what is acquired before the next await, `Rollback` the catch
block, `BeginStop`, `StopWorker` and `Finish` the three parts of `stop`, `Finish` with the
one reacquisition after a lost navigation. `Abort` is the signal's listener. Each await
that can settle is an action, for each way it can: `SessionSettles`, `SessionRejects`,
`TargetLost`, `WorkerListens`, `ShimBinds`, `ShimRefused`, `WorkerExits`, `WorkerSticks`,
`ShimCloses`. `SessionLost` and `WorkerFails` may happen at any time.

`Spawner` adds the entry of `#servers` and the three promises around a launch: the
caller's (`call`), the launcher's (`outcome`), that of the stop (`stopping`). Each
continuation is an action of its own. `Kill` may hit a launch that is still pending, as the
code provides for, though LLDB learns a pid only from a launch that has returned. `KillAll` is
terminal and may time out (`KillAllTimesOut`), after which everything goes on.

Abstracted: the retries of the connection at startup are one await, and stages that skip
their await (no wasm, no navigation) take it. `session` is `closed` for either side's
reason. A handle's `stop` that throws is a worker whose `terminate` rejects; the adapter's
`dispose` and the shim's `close` do not fail. That a reported failure starts shutdown
(core/platform-session.ts) is left open: `KillAll` may come at any time.

### PtyRepl and ReplOwner

`PtyRepl` is one command line and its driver. The command line has a queue of `lines`, the dispatched
command (`running`) and a prompt with a marker after each drained queue (`DrainOn`); `Start`, `Line`,
`CommandEnds`, and the three things a Ctrl-C does are its handlers. Between the two are `input` and `output`, in order; a
marker carries what it was written for, which the driver cannot see. The driver's `promptTotal`, `command`,
`interrupt` are the fields of those names (a target, 0 for none), `sends` the promises of `send`, `sendQueue` its promise
chain: `Turns` is what a settled call leaves to those behind it. `launch` and `stop` are the awaits of `launch` and
`#shutdown`. `OutputArrives` takes any number of markers at once, and `OnExit` everything that the exit settles.

`ReplOwner` numbers the calls of `replace`, `shutdown` and `close`; `chain` is `#changes`, and a call's `stage` the await
it has reached. `Come` is a call's synchronous part (a new revision, an aborted launch), the others
its continuations. The child is that of the call that spawned last, so that `strays` records whether another was
running. `Tools` sends commands to the `Active` one only.

Left out: the text of the output and the reads of it, the limit on a command's length, and Ctrl-C over a line that is being
edited (a command is written with its end).

### TabWatcher and Platform

A tab is its `browserId`, a pid of a tab the tab. `work` and `todo` are where `refresh` is
between its awaits, `dirty` the request for another pass; `armed` is Firefox's rule that
only the first change after a list is notified. `loop` is `watchTabs`, which starts over when the
connection is lost in `--connect` mode (`Reconnect`) and throws otherwise (`WatcherThrows`).

`Platform` begins with the startup (`runtime`), whose catch block is `Rollback`, and ends with
the staged shutdown: `closing` names the await that shutdown or rollback has reached, and
the actions of `Cleanup` are its steps, each of which may fail without skipping the next
(`errors`). The servers are there as `ServerLease` promises them, which `Spawner`
implements. `job` is where `#launchServer` is, `serverByTab` and `byPid` are the maps
of the server, `handler` is what each connection's request waits for. One client is served at a time;
what a closed connection has asked for goes on.

`fail()` during startup is modelled as what happens: `shutdown`, a const initialised at
platform-session.ts:271, is not there yet, the call throws, `failed` never resolves, and the handler
of fatal errors (diagnostics/session-log.ts) aborts the startup, which rolls back.

### WorkerRpc

The component's thread and the host's event loop run side by side. `word` and `buffer` are
the shared memory; each access to it is an action: `RpcWrites`, `RpcSignals`, `RpcPosts`,
`FallsAsleep` and `RpcReturns` of the worker's `rpc()`, `DispatchSettles`, `Responds` and
`Notifies` of the host. `Atomics.wait` compares and sleeps in one step. The worker may crash or
finish, and `Terminated` ends it between any two of these. `inbox` holds its messages in
order; the `error` event has a channel of its own and may overtake them, `exit` comes last.
The `Handle...` actions are the host's listeners, `Fail` and `Stop` its methods.

Abstracted: the encoding of calls and results, which of them are valid, and the counts of
resource references. A dispatch that never settles stands for a debuggee method that waits
for a stop.

## 3. Runs

| Run | Bounds | Shows |
|---|---|---|
| `rdp_client` | 2 actors, one of them sent to, 1 lifetime, 3 requests, room for 2, 2 sends without a response | reply correlation, no stranded caller, slot accounting, final retirement, every caller of `request` and `connect` gets an end, refinement of the ledger |
| `targets` | 3 pages, 2 workers, 3 threads, 4 tombstones, 1 echo, 2 packets in transit | one incarnation, no resurrection, current sources, stable TIDs, agreement with Firefox |
| `navigation` | 2 pages, 3 URLs, 2 packets | the destination is neither missed nor confused with the old document, a load that stops at a breakpoint goes on, the call ends, a closed tab is reported |
| `debuggee` | 2 pages, the first with a module, 1 worker, 2 stops, 1 own pause, 1 Ctrl-C, 2 packets | a stop is real, pauses belong to live threads, no collection is stuck, no replacement and no late module is missed, no pause is resumed past unpublished |
| `allstop_replacement` | 2 pages, 1 worker, 2 stops, 2 pauses | violation, see Findings |
| `debuggee_ctrl_c` | 2 pages, 1 Ctrl-C | violation, see Findings |
| `breakpoints` | page and worker, 2 keys on one site, 1 illegal key, 2 calls, 1 refusal | Firefox and the books agree, nothing is installed late, no call is stuck |
| `servers` | 2 launches, 1 worker that cannot be terminated | nothing is left behind, shutdown releases late launches and ends, a lost session is reported, refinement of the lease |
| `servers_worker_loss` | 1 launch | violation, see Findings |
| `platform` | 1 tab, 1 start of Firefox, 2 connections, 2 servers | tabs and servers know each other, the inventory is current, failure and shutdown release everything or report |
| `worker_rpc` | 5 calls | a call is a procedure call, nobody sleeps for good, the owner is told |
| `repl` | 3 calls of the owner, 2 commands, queue of 2, 1 Ctrl-C per child | only a redrawn prompt misleads the driver, no prompt is missed, one command line at a time, every call ends |

Why the bounds suffice. *Client*: a mix-up of replies needs two requests of one actor, and
a third to receive what a slot drift, or a refusal taken for a reply, would misplace; two sends let a
second refusal add to the first; retirement needs an actor that
retires beside one that does not; the room for two makes the limit bite. *Targets*: three
incarnations give a replacement of a replacement while packets of the first are still
under way; two workers give one per side of a swap; one tombstone fewer than actors makes
the limit bite. *Navigation*: the page that is left and the one that comes; each may show any
URL (a third, checked once by hand for a page left while it is loading, shows the second
of the excluded cases and nothing else). *Debuggee*: the second stop shows what the first left behind;
a thread pauses by itself while others are being collected, which takes one pause since the first
stop comes from an interrupt (without modules, three stops and two own pauses pass as well); the module may be compiled
before the first stop, at a stop, while LLDB waits, or while its page is being replaced; a page, its
replacement and a worker are one target more than a stop can begin with. *Breakpoints*: two keys on a
site, because a site stays while either is wanted; two calls, because a call can be
superseded by one and not by itself; two targets, because positions are borrowed from a
peer. The keys, and the calls, are interchangeable (`SYMMETRY`): they
are compared for equality only. The constraint `OneCallWithPeers` keeps the product of the
two small: once a worker is there, one call is unused and one key at most in use, the
session stays open, no request is refused, and only the worker can die. Two racing calls
and refusals are explored on the page alone, peers with one call. *Servers*: launches meet only in the owner's shutdown, so two show what more
would. *Platform*: a tab and its successive servers, so one tab, two launches and two
connections; two tabs meet in the watcher only, whose lists are sets. *Worker*: calls
differ only in their number; a few suffice for a late response to
meet a later call. *REPL*: a launch, the one that supersedes it and a shutdown or close behind both;
a command that runs, and one behind it that is refused or takes its turn, of either kind (a Ctrl-C acts on
the two differently). The code's queue of 32 is two, so that it is full with both.

Bounds on histories (`MaxStops`, `MaxPauses`, `MaxErrors`, `MaxEchoes`, `MaxWire`,
`MaxRequests`, `MaxAcks`, `MaxStarts`, `MaxCalls`) are guards of the environment or of LLDB and cut
behaviours short; nothing else depends on them. Deadlock checking is off everywhere:
a closed session, or LLDB with nothing more to ask, is a proper end.

### Properties worth a second look

`OwnReplyUnlessMisled` and `ImplementsLedger` are about the lack of ids in RDP: the n-th answer of
an actor settles the n-th question, though entries leave the FIFO by timeouts, retirement
and failures. They hold because a timeout closes everything, and a retired name is never
asked again. What does shift the answers is an error that refuses a slotless send (section 5). The
two say how far: on that actor only, a request may get the answer to an earlier one, late by one for
each such error (`lag` in the ledger), until as many answers have come that nobody waited for.

`SourcesAreCurrent` relies on clearing the caches with each page: an entry of generation 0, which a
worker in the gap can make, would be active again in the next gap.

`StopIsReal` says that while `assertStopped` accepts a stop, no thread runs and no resume is
under way. It relies on `#requestResume` taking the thread out of the paused set at once.
`PausesAreOwned` relies on `#removeThread` clearing the bookkeeping of a TID that a replacement
inherits.

`CollectionNotStuck`, `ReplacementNotMissed` and `DestinationNotMissed` are liveness stated as invariants: in a state
where nothing is on its way (`Quiet`, `NavQuiet`: no packet, no command in Firefox, no continuation
or timer due), a collection must not still be waiting, nor a page that LLDB has
never been stopped on, nor a navigation whose destination has loaded. What is left
waiting there waits for ever, or for a deadline that is meant for a Firefox that
does not answer. `PauseIsPublished` is the reason for the unwitnessed set: no thread is
resumed from a pause that was part of no published stop. That it is shown is
more than holds, see Findings.

`ReplacementNotMissed` counts a page as seen only as long as no stop has been missing a module of its:
an announcement while LLDB waits, or while a stop is being read, has to lead to another stop.

`NotTheOldDocument` and `DestinationNotMissed` pull in opposite directions: acceptance and
readiness come in any order, and each event carries a URL that may be stale. What is promised when
the tab sent the event is less: the page that was there is gone or has gone on to the document asked
for, but the new page need not be ready.

`Reconciled` allows no difference when a target's queue is empty and its last job was
good; a job that failed leaves the target `unsettled` until the next one.
`NoLateInstall` is the purpose of the revisions and of the rollback: what a call no
longer wants, because it was removed, superseded or rejected, is not installed by
a job that had looked before, and is gone once the calls about its site are over.

`NothingLeftBehind` covers every stage a launch can fail or be cancelled in, with results
that arrive late. `ImplementsLease` adds the order: once the end of a launch has begun
nothing is acquired for it, no port is published after shutdown, nothing is forgotten while
it is held. `SessionLossReported` has no gap between the launch's own check and the
listener that takes over from it; `WorkerLossReported`, its counterpart, does.

`TabKnowsItsServer` relates four maps that are changed at different awaits, by requests whose
connection may be gone: a live server of a tab is the one its tab maps to, a server that was
returned and that a tab maps to is live unless shutdown has begun, at most one server per tab
is not being stopped (a kill in progress may overlap the next launch), and what LLDB was told
leads to a server that is there. `TabsAreCurrent` is the coalescing of events: one during a refresh is not lost.

`Served` is the absence of a lost wake-up between `Atomics.wait` and `Atomics.notify`, with
the response before, between or after; `OwnerIsTold` covers a worker that dies in each of its phases. What it
allows, a worker that ends after `done`, is reported to nobody: that relies on LLDB killing
the process it has spawned (see the hazard at host.mjs:197).

`OnlyCtrlCMisleads` is what a driver that counts prompts can promise, over timeouts, calls in the queue and
lines typed ahead; `PromptNotMissed` its other half, that a command is not believed to run for ever. `OneOwned`
is the reason for the owner's chain: a launch that has lost leaves nothing running, unless a failure is reported.

### Fairness

- `RdpClient`: timers fire, a destroyed socket emits `close`, `connect` continues. Firefox
  owes nothing: answers have no fairness.
- `Navigation`: packets sent are delivered, the detach timer and the deadlines of the navigation and of
  its request fire. Firefox owes no document and no answer.
- `Spawner`: continuations run, `terminate` settles, the operating system binds and closes,
  an aborted connection and calls on a closed session reject. Firefox and callers owe nothing.
- `Platform`: sockets close, the steps of a shutdown end or time out, an aborted startup and probe
  reject, a watcher that has thrown is heard. Firefox and LLDB owe nothing.
- `ReplOwner`: continuations run, timers fire, the terminal delivers output. The command line owes nothing: it
  may ignore what it is sent and never end.
- `WorkerRpc`: the event loop handles what has come, writes its response and notifies, and its timers
  fire; a thread that has ended or is terminated exits. Neither the component nor a dispatch has to get
  anywhere.

`Targets`, `AllStop`, `Debuggee` and `Breakpoints` have no fairness: that nothing is stuck in them
is an invariant (`CollectionNotStuck`, `NoCallIsStuck`).

## 4. Proofs

About `RdpClient`, the second half of `Platform_proofs` proves, for any sets of actors and
lifetimes and any limits, from the module's assumption about its constants only:

| Theorem | States |
|---|---|
| `TypeCorrect` | `Spec => []TypeOK` |
| `BooksBalance` | `Spec => [](Types /\ Books)`, the inductive invariant |
| `RepliesAreOwn` | `Spec => []OwnReplyUnlessMisled` |
| `NobodyStranded` | `Spec => []NoStrandedCaller` |
| `SlotsAreAccounted` | `Spec => []SlotsAccounted` |
| `RetirementIsFinal` | `Spec => RetiredIsFinal` |
| `ClientImplementsLedger` | `Spec => ImplementsLedger` |

None of the three invariants is inductive. `Books` adds what ties the client to Firefox:
on an open connection, the FIFO of an actor that is not retired is an *end* of the sequence of what
Firefox still owes it (`EndOf`), and all of it unless a refusal of that actor has been taken for a
reply (`InStep`); what is owed is in the order it was asked for (`InOrder`); a closed client or
retired actor has an empty FIFO (`Quiet`); a request is pending exactly when it is in a FIFO
(`PendingIsQueued`), in one place (`QueuedOnce`), and ids not yet given out are unsent
(`FreshUnsent`). `InStep` gives `OwnReplyUnlessMisled`: the heads of both sequences are the same
request, and else that of the FIFO is later (`HeadOfEnd`). `TypeCorrect` includes that the slot counter
stays within `MaxPending`; that it is never negative needs the counting too. `QueuedOnce` makes the counter
arithmetic work: closing empties all FIFOs and zeroes the counter, retirement subtracts
lengths, and cardinality lemmas connect both with the set of pending requests. There is one
lemma for each kind of step, and `BooksStep` puts them together.

For the refinement each client step maps to an ask, an answer, one that nobody waits for, a mistake,
a retirement, a shutdown or a stutter of the ledger (`RequestIsAsk`, `ReplyIsAnswer`,
`RefusalIsMistake`, `AbortIsRetire`, `CloseIsShutdown`, `LedgerStep`); the ledger's `lag` is the
difference of the two sequences' lengths.

`WorkerRpc_proofs` proves, for every number of calls:

| Theorem | States |
|---|---|
| `WorkerInvariant` | `Spec => []Inv`, the inductive invariant |
| `TypeCorrect` | `Spec => []TypeOK` |
| `ComponentIsServed` | `Spec => []Served` |
| `CallsAreProcedureCalls` | `Spec => ImplementsCalls` |
| `OwnerIsNotLeftWaiting` | `Spec => []OwnerIsNotForgotten /\ [][ToldOnce]_vars` |

`Served` speaks of who sleeps and who would wake him, and says nothing of how a call gets
there. `Inv` follows the call: the host's inbox is one of six sequences, between calls
nothing is under way (`BetweenCalls`), and a call that is made is in one place, which is the
message, the dispatch, the response about to be written, or nowhere because the worker is
being terminated (`Waiting`). A response is the one to the last call, and a thread asleep
over it is being woken (`Answered`); a worker that has ended leaves no call the host would
still carry out (`Gone`). The refinement follows because a call is executed only out of the
inbox and returned only after its response. `OwnerIsNotLeftWaiting` is the safety core of
`OwnerIsTold`. `Telling` says who is still to tell the owner how startup or the worker ended: the
timer, the termination, or an exit that is handled last of all. `Left` counts what a host has to do
once its worker's thread has ended, and every step that is then taken, by anybody, decreases it.

`Spawner_proofs` proves, for any number of launches and of workers that cannot be
terminated:

| Theorem | States |
|---|---|
| `SpawnerInvariant` | `Spec => []Inv`, the inductive invariant |
| `TypeCorrect` | `Spec => []TypeOK` |
| `NothingIsLeftBehind` | `Spec => []NothingLeftBehind` |
| `ShutdownIsComplete` | `Spec => []DrainedMeansReleased` |
| `LossIsReported` | `Spec => []SessionLossReported` |
| `LeaseImplemented` | `Spec => ImplementsLease` |
| `StopsComeToAnEnd` | `Spec => []NobodyWaits /\ OnlyForward` |

The three safety properties speak of a launch only at its ends. `TabOK` fills the way
there: what has been acquired at each stage (`Acquiring`), where a rollback or a stop
stands (`RollingBack`, `Stopping`), what a published server consists of (`Serving`), and
that a launch that is over has given everything back (`Ended`), or all but its worker
(`Broken`). `EntryOK` ties the entry of `#servers` to that: an entry is forgotten only if
its launch has ended, an acquisition that is to end has been aborted, and after shutdown
whatever is owned has been told to end. `Owner` is about `killAll`: what is owned afterwards
is among what it awaits. The steps of a launch are functions on its record, and the lemmas
follow them from the inside out: `FinishIs`, `StopWorkerIs`, `BeginStopIs`, `RollbackIs`
and `CheckpointIs`; each step of `TabSession` is then one of them after one field has
changed (`TabStepMoves`). Every step keeps the invariant and is one that `ServerLease`
allows (`EveryStep`): both follow from what the step does to one launch and its entry
(`OneLaunch`, `LeaseStep`), except for `killAll`, which is the lease's shutdown.

`StopsComeToAnEnd` is about a stop and about everything that is left after `killAll`. For each of
these launches the guard of a step that needs neither Firefox nor a caller holds (`GoesOn`), with
one exception, a worker that cannot be terminated (`Stranded`). Attempt, stage and what has been
given back, in this order (`Later`), or what the entry has said (`Said`), go up with each such step,
and down with no step of anybody. There are two attempts of eleven stages, so the steps are
finitely many.

`Targets_proofs` proves, for any pages and workers, any limits and a wire of any length:

| Theorem | States |
|---|---|
| `SessionInvariant` | `Spec => []Inv`, the inductive invariant |
| `TypeCorrect` | `Spec => []TypeOK` |
| `OnePageAtATime` | `Spec => []OneIncarnation` |
| `DroppedStaysDropped` | `Spec => []NoResurrection` |
| `SourcesFollowThePage` | `Spec => []SourcesAreCurrent` |
| `TidsAreStable` | `Spec => StableTids` |
| `AgreementInvariant` | `Spec => []AgreeInv`, the invariant of session, wire and Firefox |
| `SessionAgrees` | `Spec => []AgreesWithFirefox` |
| `ClosedTabsAreNoticed` | `Spec => []ClosedTabIsForeseen /\ [][GraceIsSpent]_vars` |

The first six need nothing of Firefox but that a packet names an actor: the session is
right against any order of announcements. `Threads` puts every TID below `nextTid` and apart from the one
that is reserved; `Generations` says that a TID is reserved and a timer runs only in the gap
between two pages, and that the active generation is the last one given out; `Graves` that
what was dropped is a tombstone and a tombstone is no thread, which is `NoResurrection`;
`Current` that what the session answers with about sources was entered since the last page came or
went, where the gap is the hard case (`RememberStep`);
`Reports` that a generation is reported as a closed tab at most once, so a TID that is given
up is given up with a new report. There is one lemma for each handler (`PageStep`,
`WorkerStep`, `PageGoesStep`, `OtherGoesStep`, `SourceStep`, `RememberStep`, `GraceStep`), each with the
case in which a limit is reached and the session closes.

`AgreesWithFirefox` is the one property that depends on what Firefox sends, and compares the two
only when the wire is empty. `Agreement` says what is true before that, by counting packets. A
target *enters* at the packet that makes it a thread: at 0 if it is one, at its first
announcement if no destruction comes before that, and never if it is a tombstone (`Enters`). A
page *ends* at its destruction or where another page enters (`Ends`). `Seen` and `Living`: a live
target enters and has no end of its own. `Mourned`: the end of a target that is gone comes after
it enters. The subtle part is that a page takes its workers with it, so that a worker announced
early could be lost with the wrong page. `Succession` excludes that: a live page enters after all
others, and its workers enter where every other page is over (`OverBy`); `Gap` says the same of
the place after the last packet while the next page is loading, which is where its first workers
are announced. A handled packet moves every place up by one (`EntersMove`, `EndsMove`,
`OverByMoves`, `DeliverAgrees`); `Handled` is what the session's handlers do to its threads and
tombstones, and follows from the handlers by `Inv`. A packet that is sent adds one place behind
all others (`EntersGrow`, `StaysOver`), and there is a lemma for each step of Firefox
(`LoadsAgrees`, ..., `HeardOfAgrees`). `ClosedTabsAreNoticed` needs both: a page of LLDB's that
Firefox has closed is a thread whose end is on the wire (`Gap`), or its TID is in reserve, and a TID
is in reserve only while a grace timer is there to give it up (`Reserved`).

`Breakpoints_proofs` proves, for any targets and sites, any number of calls of each and any
lengths of retry:

| Theorem | States |
|---|---|
| `BreakpointInvariant` | `Spec => []Inv`, the inductive invariant |
| `TypeCorrect` | `Spec => []TypeOK` |
| `IdleMeansReconciled` | `Spec => []Reconciled` |
| `NothingComesBack` | `Spec => []NoLateInstall` |
| `CallsComeToAnEnd` | `Spec => []EveryCallGoesOn /\ NoGoingRound` |

`Reconciled` speaks of a target with nothing to do. `Inv` says what is true of it until
then: what the session has written down for a target is what Firefox has, but for the one
site whose answer is on its way (`InHand`), and a queued job either reads its snapshot
afresh or is followed by one that does. For `NothingComesBack` it has to be known who still
answers for a site that must go: a queued job of a call under way (`Answered`), so that a
call cannot return before its removal was carried out. There is one lemma for each operator
that a step is built of (`EnqueueIs`, `TailIs`, `AdvanceOK`, `EndOK`, `RequeueOK`) and one
for each step (`CallStep`, `RollBackStep`, ..., `TargetGoesStep`). `NoCallIsStuck` speaks of
what is enabled, and stays with TLC; `EveryCallGoesOn` says more with the guards written out: each
call by itself has a result, or a job in a queue whose first job can go on. `NoGoingRound` is about
the loop of a job, which starts over when what is wanted has changed: every request it makes is
`Useful`, so each of its steps and each answer brings its target `Nearer` to its last job, and only
`News` (a call, a rollback, a target, a source) takes a target away from it.

`Debuggee_proofs` proves, for any pages and workers, any number of pauses, commands, targets
and stops, and a wire of any length, from the assumption that a session is started on a page
it has room for:

| Theorem | States |
|---|---|
| `DebuggeeInvariant` | `DebuggeeSpec => []DebuggeeInv`, the inductive invariant |
| `PausesBelongToTheirThreads` | `DebuggeeSpec => []PausesAreOwned` |
| `StopsAreReal` | `DebuggeeSpec => []StopIsReal` |
| `AllStopIsCoherent` | `DebuggeeSpec => []CoherentAllStop` |
| `StopInvariant` | `DebuggeeSpec => []StopInv`, the inductive invariant of a stop |
| `CollectionsEnd` | `DebuggeeSpec => []CollectionNotStuck` |
| `ReplacementsAreHeld` | `DebuggeeSpec => []ReplacementNotMissed` |
| `PausesArePublished` | `DebuggeeSpec => PauseIsPublished` |
| `DebuggeeTypeCorrect` | `DebuggeeSpec => []DebuggeeTypeOK` |

The first two properties compare the session's sets of TIDs with threads in another process, so the
invariant has to say what lies between the two. For each thread the session knows, the
packets and commands under way are of one of four shapes, and its books say which: it
`Runs`, with its pause perhaps on the wire; it `Stands`, with nothing to come; its resume is
`Ordered`; or it has `Resumed`, and says so before any further pause. A target that is still
`ToCome` runs when it is announced, and is announced before it pauses. Most steps leave all
that alone (`Unmoved`, `NudgeStep`); a report or a resume moves one thread from one shape to
the next (`PausedStep`, `ResumedStep`, `ResumeStep`), and a target packet changes who is
watched (`DeliverMoves`, `TargetStep`, on top of the theorems about `Targets`). `StopIsReal`
follows by counting: `assertStopped` compares sizes, and as many TIDs as there are threads,
all of them threads' TIDs, are the TIDs of all threads. `StepReplacement` is no step of
`DebuggeeSpec`: with it the invariant fails, which is the finding of section 5. Without it the
property of that finding holds (`AllStopIsCoherent`), so that this step alone breaks it.

The next three speak of what a stop leaves to be done. `StopInv` adds to `DebuggeeInv` what the
books of an operation say (`Books`), and why nothing is waited for in vain. `Collection`: every
thread the collector has interrupted is paused or has been `Called`, which means that an
interrupt is on its way to it, or its pause to the session, or that it is gone; and while the
trigger is there, every thread that runs is one of the interrupted. `Farewell`: of a target that
is gone the session hears, and after its announcement, so that a collection waiting for it goes
on. `Replacements`: a page that LLDB has not seen held, or not since it compiled a module, is `Expected`, by a
Ctrl-C, the resync check, or the operation in which it has been called; `ResyncKept` keeps that record
attached to the page that is there. A module may come for a page LLDB has held before, and so for a thread
that is just being let go: `Called` therefore asks that an interrupt is behind every resume (`Summoned`), and
`Witnessing` that threads are let go only when an operation begins. Each is false in a state where nothing
is on its way and somebody waits (`QuietIsCollected`, `QuietIsReplaced`). For `PauseIsPublished`, every thread
stopped for a reason of its own is in the paused set (`ownTids`), and every step that resumes one
finds it published (`PausesStay`). `DebuggeeTypeCorrect` says of the types what the
invariants had no use for. Two of its parts depend on the steps taken together: that LLDB waits
during an operation and only then, which is in `Books`, and that the paused TIDs are in one order
(`InsertionOrder`), since no step pauses more than one (`OnePause`) and every step that changes
them keeps what is beside them (`PausesAreFollowed`).

`Navigation_proofs` proves, for any number of pages, any limits of the session and a wire of any
length:

| Theorem | States |
|---|---|
| `NavigationInvariant` | `NavSpec => []NavInv`, the inductive invariant |
| `OldDocumentRefused` | `NavSpec => NotTheOldDocument` |
| `DestinationFound` | `NavSpec => []DestinationNotMissed` |
| `LoadGoesOn` | `NavSpec => []LoadIsNotHeld` |
| `NavigationIsTimed` | `NavSpec => []NavigateIsTimed /\ []FailureCloses /\ [][LaunchGoesForward]_navVars` |

The properties compare what `navigate` believes of a document with the document Firefox shows,
and everything it believes came over the wire. So `NavInv` has three layers. Of each page,
`Shown` says which states its document can be in, `Telling` that no packet says of it what is not so,
and `Ordered` that what is said of a document comes behind what announces it; with a document
that is due, its last event is behind all that the session must have heard before
(`Final`). `Heard` ties the page that is there to the session: unless its announcement
is still to come, and is then the last, it is a thread. `Pending` is the account of a navigate under
way: `Origins`, which generation it started from; `Watched`, that an awaited document which
is due has its final event on the wire; `Credited`, that the page of a destination once taken is not
the one on the old document, and is what the event was about unless the tab sent that (`Ready`);
`Held`, that a page halted in its load is being resumed or has its pause
on the wire. `Watched` is why one missed event is fatal, and where the two exceptions of
`DestinationNotMissed` come from: a document moved or announced as blank (`Named`) is not
recognised when that event comes. There is one lemma for each step of Firefox (`LoadsKeeps`,
`AnnouncesKeeps`, `SwapsKeeps`, ...), of a handler (`HearTargetKeeps`, `HearStartKeeps`,
`HearReadyKeeps`, `HearPausedKeeps`, `HearReplyKeeps`), of the caller and of the timers; the
session under them keeps its invariant by the lemmas of `Targets_proofs`, which this
module extends. `NavigationIsTimed` needs of the wire only that it answers the request at most once
(`Asked`): a navigate that has not settled has a deadline running, that of the destination or
that of the request, and none is armed again.

`Platform_proofs` proves, for any number of tabs, requests, connections and starts of
Firefox, from the assumption that a browserId is none of the watcher's own states:

| Theorem | States |
|---|---|
| `PlatformInvariant` | `PlatformSpec => []PlatformInv`, the inductive invariant |
| `ShownTabsAreCurrent` | `PlatformSpec => []TabsAreCurrent` |
| `TabsKnowTheirServers` | `PlatformSpec => []TabKnowsItsServer` |
| `ReleasedForGood` | `PlatformSpec => []DoneMeansReleased` |
| `SessionKeepsTheLease` | `PlatformSpec => LeaseSpec` |
| `EndsGoAhead` | `PlatformSpec => []NothingIsWithheld /\ [][NeverBack]_platformVars` |

`PlatformInv` has a part for each of the three. For the watcher, at most one request or
answer is under way (`OneRequest`), and `Followed` says what makes notifications that come only
once sufficient: a list on its way is Firefox's own, with the next change armed, or a notification
comes behind it; what is shown is Firefox's list unless a query, a notification or `dirty` is
still to come. A second invariant of that shape holds for which tabs are configured
(`Primed`). For the server, a tab in any map has exactly one owner through each await of a launch
(`Ownership`), what a launch holds depends on its stage (`Progress`), and the leases say the same
(`Leasing`). For the session, `CleanedUp` says what each stage of the shutdown has left behind and that no
request begins after it. `DoneMeansReleased` is the safety half of the run's property `ShutdownReleases`, and `EndsGoAhead`
the safety core of its other half: `Ending` says that whatever a failure, a shutdown or a rollback
awaits is there or under way (a startup that is aborted, a server that is being stopped, a watcher
that has ended), and each step of the end goes to a later place in its order, for good.
With `LeaseImplemented` of `Spawner_proofs`, `SessionKeepsTheLease` closes the
composition: the platform asks of the servers what the lease allows, and the spawner does
what the lease promises.

`Repl_proofs` proves, for any commands, any number of calls and of interrupts and any
limit of the queue:

| Theorem | States |
|---|---|
| `ReplInvariant` | `Spec => []ReplInv`, the inductive invariant |
| `MarkersCorrelate` | `Spec => []OnlyCtrlCMisleads` |
| `PromptsAreSeen` | `Spec => []PromptNotMissed` |
| `CommandLineIsOwned` | `Spec => []OneOwned` |
| `CallsComeToAnEnd` | `Spec => []NoCallIsForgotten /\ [][GoesForward]_vars` |

Driver and command line share nothing but a byte stream, so the invariant is about what is on
its way. `Counting`: what is waited for is always the *next* marker, and one is still to
come unless the command line is done. `Matching`: as long as no Ctrl-C was misread, the first
marker is the end of the command whose call is first in the queue, or that command is on its
way exactly once (`OneLine`) and no other is (`NoLine`). A Ctrl-C's marker in that place
(`Misled`) is the one way out, which is why the theorem has its condition. For the owner,
`InOrder` says that calls take their turns as they came, so that the last to come is the last to
end; `InTurn` what the call whose turn it is has found; `Owned` whose the child is. Each step of a call ends
it or goes on to its next await, which `EndKeeps` and `AwaitKeeps` prove once for all.
`CallsComeToAnEnd` adds what is awaited. `ChildWaits`: the queue holds each send that has not
returned, once (`QueueIs`), none is left when the child has exited, and a launch that fails is
stopping its child. `OwnerWaits`: a call awaits the end of a child only after a stop of it has begun.

Only model-checked: all liveness, since fairness is beyond the prover, and `NoCallIsStuck` of
`Breakpoints`, which speaks of `ENABLED`. Every other invariant and action property of a passing
run is a theorem. What liveness rests on is proved in two parts. `NoStrandedCaller`,
`SessionLossReported`, `DoneMeansReleased` and `Served` say what the end is like.
`OwnerIsNotLeftWaiting`, `StopsComeToAnEnd`, `ClosedTabsAreNoticed`, `NavigationIsTimed`,
`EndsGoAhead` and the two `CallsComeToAnEnd` say why it comes: whenever somebody waits,
a step that is owed to him can be taken, a packet for him is on the wire or a timer of his runs (but
for the worker that cannot be terminated), and no step of anybody takes back what has been reached. In `Spawner`, `WorkerRpc` and `Breakpoints` a measure goes with it
that the steps owed decrease. The last inference, from these facts and the fairness of section 3
to the leads-to, is TLC's.

## 5. Findings

**A step to a replaced page resumes unrecorded** (run `allstop_replacement`). The page's
TID is handed to its replacement, which runs, and LLDB may still step the TID off its
breakpoint. `stepOne` (session.ts:1457) sends `resume` to the replacement; because that was
not paused, `#requestResume` does not note the TID in `#resumingTids`. If the replacement
pauses by itself before Firefox gets to the command, the stop is collected and published
with the resume still on its way, and the thread then runs although LLDB has been told that
everything is stopped. `docs/COMPATIBILITY.md:27` documents the step with the old TID;
session.ts:1462 promises a "coherent all-stop". The window is one round trip.

**A worker that dies while the shim binds is not noticed** (run `servers_worker_loss`).
`onFailure` leaves failures before `stage` is `ready` to the launch (tab-session.ts:190),
but by then `gdbServer.ready` has resolved, and the last checkpoint looks at the signal and
the RDP connection only. The launch returns a port with no server behind it, and `failed`
does not resolve. The comment at tab-session.ts:188 and `INTERNALS.md:84` say that every such
failure belongs to one of the two. The window is the shim's bind.

**A Ctrl-C at the prompt makes the next continue wait for ever** (run `debuggee_ctrl_c`).
`triggerInterrupt` sets `hostInterruptPending` whatever command is in flight. The next
continue takes the branch for it (rdp-debuggee.ts:1096), which interrupts threads that are all
paused; Firefox answers with an error, no pause follows, LLDB waits, and pressing Ctrl-C again repeats
that. `primeStop` has the guard for exactly this and explains it (1176-1178, "Same guard as
#doContinue/#doSingleStep"); in those two methods the guard comes after the branch. Two relatives with the
same end: a worker that ends while it is being stepped leaves LLDB waiting with every
other thread paused, and a preferred worker may die before it answers the interrupt.

Met while modelling, without a run of their own:

*A refused interrupt settles somebody else's request.* The client sends resume and interrupt without a request
slot because their "response is an event" (client.ts:241-245, and 5-7). But of a paused thread, "Interrupting it
would draw an alreadyPaused error reply instead of a paused event" (rdp-debuggee.ts:1175-1178), and where a pause
crosses the interrupt (session.ts:1585-1597, and the forced resync) no guard of ours can prevent it. The error
carries no event type, so the packet handler gives it to the thread's oldest request (100-117), one for
its frames or sources, say, whose answer then goes to the next one. Nothing resynchronises the two but
answers that nobody waits for. `OwnReplyUnlessMisled` names this as the one way to a wrong reply.

*A source learnt in the gap is hidden from its page.* A worker announced between two pages has generation 0 until
the page adopts it (session.ts:688-695). If it answers `sources` in the gap, its modules are entered under generation 0
(1095-1096), which the new page's is not: `urlForSourceActor` does not find them, and since the URL is known,
`wasm-source` is not emitted when the page or the worker announces it (862-865).

*A late `stop` of the tab counts for the new page.* A `tabNavigated` from the tab's actor is put down to the page that
is current when it comes (session.ts:727, 768-769). When the page before has ended its load of the same URL, or of one
the navigation has just been told of, and was then replaced, its `stop` completes the navigation of a page that
may still be loading. `NotTheOldDocument` without `credited.tab` is violated by this.

*A module that a worker compiles first is not announced.* Whether a module is new is asked of all targets together
(session.ts:862-863), but the adapter stops only for those of the page (rdp-debuggee.ts:205). If a worker has announced the
same URL, the page's announcement is not new, and LLDB learns of the module at its next stop only.

*A breakpoint can be taken for an interrupt and skipped.*
`#doContinue` reports a pause LLDB was not told of before it resumes (1099-1100), through
`adoptPausedState`, which labels the stop by the thread that has been paused longest. If that one
was paused by the session's own interrupt, the stop is tagged "interrupted", the component
continues without showing it, and the breakpoint of the other thread is resumed past.
For the same reason a stop forced by a resync can be labelled "interrupted", and the new
page's modules are then not listed.

*A Ctrl-C can be taken for the end of a command.* The marker that follows a prompt is "not emitted on prompt
redraw" (cli/repl.ts:19), but `onInterrupt` redraws the prompt with `prompt()`, marker and all (159, 73-76),
whenever LLDB runs nothing: during a JavaScript command, or when the interrupt crosses the end of a
command. The driver counts it (pty-repl.ts:84), reports the command as ended, and attributes its output to the
next. `OnlyCtrlCMisleads` shows that there is no other way.

*A destination that comes as about:blank can be missed.* "A process-switch navigation may first announce a
replacement frame as about:blank, then complete that same target via tabNavigated" (session.ts:741-743;
test/unit/session.test.ts:1712 tests it with one replacement). With two it does not: the
first, announced under another URL, becomes `destinationGeneration`; the second is
announced as about:blank, so `#observeNavigationTarget` returns early and the first's
generation stays (462-463); when the second loads the document asked for,
`#completeNavigation` refuses it as not that generation's (483-487), and `navigate` ends at its
deadline only. It takes three pages; `DestinationNotMissed` therefore assumes that
`destination` is unset or the present page's.

## 6. What is not modelled, and the plan

The models cover what this repository itself wrote about state and order; three quarters of
the source lines are two generated bindings (gdbstub.js, sourcemap.js), which are
external here.

Not modelled by choice: Firefox process handling and ports (the operating system),
symbols and source maps (bytes), what the REPL's commands do and print, options, and logs; generated and vendored
code.

Limits of what is modelled: in `Breakpoints` the last snap of `set` cannot fail, since
positions are cached (in the code it can, and the call is then rejected while the
breakpoint stays: breakpoints.ts:131); a request in flight
to a thread that is destroyed is answered with an error, where Firefox may leave it to the
client's timer, which closes the connection; there is one source. In `Debuggee` a page has one module, and no worker
one of the same URL (section 5). In `Navigation` the tab announces the document asked for, and no others.
`AllStop` has no
cancellation of an operation other than teardown. In `WorkerRpc` messages are well formed.
In `Platform`, tabs other than one are absent, and the verification of the connection is one await.

Next, in this order:

1. Attach shim and LLDB bridge: back-pressure, end of stream against failure, the cleanup deadline.
2. The framing of transport and packet parser against a reference definition.
3. Breakpoints with several sources and with refused positions, composed with the
   client's timeout.
4. Proofs of what these models add. About the present ones, liveness itself is left, which needs a
   prover that has `ENABLED` and fairness. `SessionKeepsTheLease` and `LeaseImplemented` meet in
   `ServerLease`; a theorem about both modules together would be their conjunction and no more.
