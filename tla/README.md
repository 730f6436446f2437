# UOS TV: TLA+ specifications

UOS TV is the userland of a TV box: a PID 1 (`inis`), a service supervisor
(`monitord`), a message bus (`stardust`), an updater (`otad` with `rauc-rs`,
`casync-rs`, `update-verify`), a dozen small daemons and a web UI (`luna`). This
directory holds TLA+ models of it, the TLC configurations that check them on
small instances, and TLAPS proofs for every instance.

## 1. The system

### Inventory

| Part | State | Operations | Talks to |
| --- | --- | --- | --- |
| stardust broker (`crates/stardust/src/broker.rs`) | `services`, `subscriptions`, `connections`, the command queue, one channel per receiver | accept, register, subscribe, unsubscribe, route, call, unregister | clients over a Unix socket, the WebSocket bridge through `BrokerHandle` |
| WebSocket bridge (`ws.rs`) | per client: event sender, forwarding tasks, the call it awaits | subscribe, unsubscribe, publish, call, register, forward | broker, luna |
| stardust client (`client.rs`) | frames to write, pending calls, receivers per topic, all shared by clones | connect, clone, register, publish, subscribe, call, time out, drop | broker |
| monitord supervisor (`crates/monitord/src/supervisor.rs`) | per service: status, Child handle, pid, crash timestamps, health failures; timers | boot, start, reap, restart, health check, kill, kick the watchdog | service processes, broker (health checks), hardware watchdog |
| monitord graph (`graph.rs`) | dependency edges; colours and path of the search; in-degrees and queue of the sort | build, search for cycles, sort | manifests, supervisor |
| inis (`crates/inis/src/main.rs`) | `/data`, its seeded configuration, monitord's pid, restart count | mount, seed, harden, spawn, reap, restart, give up | monitord, kernel |
| otad with rauc-rs (`crates/otad`, `crates/rauc-rs`) | update state, downloaded files, slots, next slot to boot | poll, download, hash, verify, install, reboot | update server, RAUC, UI over the bus |
| update-verify | keys, allowed devices, maximal age | verify a bundle | nobody: otad holds a verifier and does not ask it |
| casync-rs | chunks, index, chunk store | chunk, index, diff, store, reconstruct, verify, clean up | command line |
| netmd | what sysfs showed last | detect, publish on change, scan, disconnect | sysfs, wpa_cli, broker |
| audiod | volume, mute | five commands, publish every minute | ALSA, broker |
| inputd | devices, two channels | read, translate, bridge, publish | evdev, broker |
| notifd | notifications behind a mutex | show, dismiss, dismiss all, publish | broker |
| logd | channel, current file, its date and size | receive, rotate, write | datagram socket, files, kernel log |
| pkgd | registry, app directories | start, install, uninstall | files, download server, broker |
| powermand, dispald, devmand, lumind, lunad, wifid | little or none | timers, device access | kernel |
| luna (`luna/js`) | WebSocket, timers, pending calls, subscriptions | connect, reconnect, call, dispatch | WebSocket bridge |

### What is hard about it

The hazards are listed, each at its line, in `PROJECT.json`. In short:

* *Bus.* Every connection has its own task, and all of them feed one actor through a
  FIFO queue; but a new connection writes the table `connections` past the actor.
  Routing looks ids up long after a message was read. Calls race a timeout.
* *Supervisor.* One task does everything in turn, waits included, while processes exit
  at any moment. A service's status, its Child handle, its pid and its process are four
  views of one thing that three functions update. The table is a `DashMap` that is
  modified while it is iterated.
* *Graph.* Search and sort iterate over hash maps: they must be right for every order,
  and a test sees one.
* *PID 1.* Children exit while nobody looks; SIGCHLD is ignored; the services of a dead
  monitord become children of inis; the power fails while files are seeded.
* *Updates.* Crashes and power losses between the steps of an installation and in the
  middle of a write; resumed downloads; a chunk store that never rewrites a chunk.
* *Daemons.* Spawned tasks overtake one another; a mutex is taken twice for one command;
  sysfs is read file by file; tokio files write in the background; channels fill up.
* *Clients.* Timeouts race answers, clones share tables, sockets close and are replaced.

### What makes each part correct

* broker: no table entry outlives its connection; nobody gets its own messages; each
  sender's messages stay in order; publications reach the subscribers;
* bridge: a call returns to its caller exactly once, and publications reach the clients
  that have subscribed;
* supervisor: exactly the processes that run have a handle, none is started twice or
  revived, the crash budget holds, reported exits are noticed, the watchdog is kicked;
* graph: only acyclic graphs are accepted, reported cycles exist, the order is a start
  order;
* bus client: the table of pending calls is exactly the calls somebody awaits; a
  publication reaches the subscriber's receiver;
* inis: monitord is restarted, never runs three times over, edited configuration is kept;
* updates: the running slot is never written, what boots next is complete, a torn download
  recovers, the device never comes below a release it has had;
* chunk store: chunks tile a file, a delta gives the file or an error;
* daemons: what was read, received, shown or set is published or written, in the order and
  to the end that each daemon owes its users;
* luna: one socket at a time, every call settles.

## 2. Modules

| Module | Models | Uses |
| --- | --- | --- |
| `Broker` | `broker.rs`, callers of `BrokerHandle` left open | |
| `BrokerProofs` | proofs about `Broker` | `Broker` |
| `WsBridge` | `ws.rs` on top of the broker | extends `Broker` |
| `WsBridgeProofs` | proofs about `WsBridge` | `WsBridge`, `BrokerProofs` |
| `ServiceLifecycle` | what monitord promises of one service's life (abstract) | |
| `Supervisor` | `supervisor.rs` | instantiates `ServiceLifecycle` |
| `SupervisorProofs` | proofs about `Supervisor` | `Supervisor` |
| `DependencyGraph` | `graph.rs` | |
| `DependencyGraphProofs` | proofs about `DependencyGraph` | `DependencyGraph` |
| `BusClient` | `client.rs`, any peer at the other end of the socket | |
| `ClientBus` | clients and broker together | extends `Broker`, `BusClient` |
| `Inis` | `inis/src/main.rs` with the processes and the power supply | |
| `SlotPair` | what an A/B update promises (abstract) | |
| `Ota` | `otad` with RAUC, the boot loader and the server | instantiates `SlotPair` |
| `OtaProofs` | proofs about `Ota` | `Ota` |
| `Casync` | `casync-rs` | |
| `UpdateVerify` | `update-verify` | |
| `UpdateProofs` | proofs about these two | `Casync`, `UpdateVerify` |
| `Netmd`, `Audiod`, `Inputd`, `Notifd`, `Logd`, `Pkgd` | the daemons of these names | |
| `LunaBus` | `luna/js/bus.js` | |
| `DaemonProofs` | proofs about the daemons but `Audiod`, inis and the two bus clients | `Inis`, `BusClient`, `LunaBus`, `Netmd`, `Inputd`, `Notifd`, `Logd`, `Pkgd` |
| `MCBroker`, `MCWsBridge`, `MCSupervisor`, `MCClientBus` | constants for TLC | |
| `MCDaemons`, `MCUpdate` | several units that share no state, in one run | extend them |

Operators whose comment begins with "Fault:" are mutated forms of the definition that
follows them. No specification uses them; they serve to show that each property can fail.

### Broker

`connections`, `subscriptions` and `services` are the tables of `BrokerState`; `cmds` is
the actor's channel, `outbox` the per-receiver channels and `received` what was written
to a Unix client's socket. `Accept` is the accept loop together with the insertion a
connection task makes itself; `Read...`, `Forward` and `Close` are the arms of its select
loop; `Handle...` are the methods of `BrokerHandle`; each `Do...` is one arm of the match
in `run_broker`. `DoUnsubscribeDirect` changes nothing, and `DoCall` answers
ServiceNotFound without routing: so does the code. A message carries its id, method,
destination and author; `Message::matches_topic` is the constant relation `Matching`.

`u64::MAX`, the id `RegisterService` stores, is -1. `SynBase` is 100000 in the code and
10 in the runs.

### WsBridge

A client's task handles one frame to the end: `wsWait` is the call it awaits meanwhile.
A subscription's forwarding task (`WsForward`) owns the receiver and lives on after the
client. Each action is a call of `BrokerHandle` or leaves the broker alone, by definition,
so what is proved of `Broker` holds with the bridge as well. What the bridge itself owes its
clients is `CallAnsweredOnce`, `CallReturns` and `EventsArrive`: events come from other tasks
than the one that awaits a call, and must not wait for it.

### Supervisor and ServiceLifecycle

`pc` says where the single task is: in the boot loop, in one of the parts of
`start_service` (waiting for dependencies, spawning, settling), in the select, in one of
the two iterations, in the restarts, or in `kill_service`. `caller` is who called
`start_service`. `proc` is the process as the kernel sees it and may exit at any step
(`ProcExit`); "gone" is an exit that the kernel does not report, since SIGCHLD was ignored
when monitord was started (inis ignores it, `inis/src/main.rs:380`, and a monitord that it
starts again inherits that): `try_wait` then fails, and the entry stays as it is
(`MonitorError`). Time is abstracted: a timeout is taken when its condition cannot change any
more, and of earlier crash timestamps any number may still be inside the window.

`MapOutcomes` says what `DashMap::get_mut` may do while an iterator of the same task holds
the shard. The library blocks ("blocked"); the code is written as if it did not
("borrowed"). Safety is checked and proved for both. Liveness is checked for "borrowed",
the supervisor as designed, and run `sup_wedged` shows what happens as it is. The pid that
the table keeps beside the handle is not modelled.

`ServiceLifecycle` is the abstract specification: one service's status and whether its
process is alive. `FollowsLifecycle` states that the supervisor implements it.

### DependencyGraph

`Build` checks that every dependency exists, the `Dfs...` actions are
`verify_no_cycles` and `dfs_cycle_detect` with the recursion as an explicit stack
(`path`, and in `left` what each visit has still to look at), the `Sort...` actions are
`topological_sort`. Iteration orders are nondeterministic.

### BusClient and ClientBus

`clientOut` is the channel `tx` to the I/O task, `clientTopics` the keys of `subscribers`,
`clientPending` the table `pending`, `clientWaiting` the calls that have not returned. An
answer's removal from the table and the return of its call are one step (`ReadFrame`), and a
call whose future is dropped before either, which leaves its entry in the table, is not
modelled.
`ReadFrame` is the first arm of the task's select, `WriteFrame` the second, `ClientEnds`
its breaks; the other actions are the methods and `Drop`. `ClientBus` joins `WriteFrame`
with the broker's `Read...` actions and `Forward` with `ReadFrame`. `Quoted` is what
`serde_json::to_vec` does to a topic; the broker takes the bytes as they are.

The daemons' command handlers are modelled as they stand, their inputs left open. Over the
Rust client no command would arrive today, for the reason that `client_pubsub` shows.

### Inis

`inisPc` follows `main` and `main_loop`. A monitord's pid is its number. `zombies` are
children that exited before `main_loop` ignored SIGCHLD; later ones vanish (`Exited`), so
`Reap` finds only the early ones and everything else depends on ECHILD (`NoChildren`). The
orphans of a dead monitord are counted in `orphans`. `/data` is the partition or the root
file system, different from boot to boot if a mount fails.

### Ota and SlotPair

`otaPc` is the orchestrator's next step; `otaState` the state it publishes. A downloaded
file is absent, a prefix, the bundle, or corrupt, and then shorter than the bundle ("junk")
or not ("stale": there is no range left to ask for, and the answer is 416). A file that exists
and an answer other than 206 are returned without a hash (`DownloadSkipped`), as in the code;
the bundle check by RAUC catches what that lets through, but the file stays. Removing a
corrupt file may fail, which nobody notices (`RemoveFails`). The hash of a resumed file may be taken before
the appended part is on disk (`"rehash"`): tokio's `write_all` does not wait for it.
RAUC is external: `InstallBegins` writes the other slot and takes it out of the boot order,
`InstallEnds` activates it. Nobody calls `confirm_boot`: a new slot stays unmarked, and the
boot loader may fall back. `UpdatesLikeSlotPair` states the refinement.

### Casync and UpdateVerify

`GearByte` is one turn of the loop of `chunk_gear`, with the hash modulo `HashMod` (2^64).
`StoreTorn` is a power loss during `fs::write`: any shorter file may be there afterwards. The
delta update that `Casync` goes through is composed by the model from the functions of the
library. The command line offers them one by one, and its `extract` (`casync-rs/src/main.rs:68`)
puts a file together and never verifies it: `DeltaRebuilds` is a property of the library with
`verify` called after `reconstruct`, not of that command. The sizes `ChunksTile` asks for are
those of one of the strategies. `chunker.rs:150` says that a boundary needs more than
`min_size`; the code and the model take it from `min_size` on.

`UpdateVerify` installs every bundle that `verify_bundle` accepts; the version installed
at first may be unknown (`current_version` is None). A version is a sequence of parts; each is
the number it begins with and whether it is nothing else. `Parse` drops the others whole, as
`filter_map` does, and `is_downgrade` compares what is left. What is a downgrade in truth
(`Below`) is the order of the releases, by all the numbers, and owes nothing to `Parse`:
`NoDowngradeEver` says what the code achieves of it.
A version without any number is, in the code and in the model, never a downgrade, and nothing
is a downgrade from it: what is said of versions is said of those that have one.

### Daemons

`Notifd`: each task changes the store and publishes it under two separate locks; lists that
have not been sent are in `notifOut`. Timestamps are what the clock says: equal ones, and a
clock set back, are possible, and which of several equally old notifications are left out of a
list is arbitrary. `Audiod`: `audioOut` are states handed to tasks that
have not sent them. `Netmd`: `ReadType`, `ReadFlag`, `ReadCarrier` and `ReadIp` are four
reads of sysfs, between which interfaces change; `Same` compares what the code compares, and
the type is not among it. A status is made by the detection (`netMade`) and sent by a task of
its own (`netOut`), so that an older one may arrive last (`netLast`). `Logd`: `logFlight` is the write that tokio carries out in
the background, `logLate` those of files that have been replaced. `Inputd`: three
stages and two channels; a device is read in batches (`keyBatch` is what one read fetched),
whose events are translated one by one, and the devices take turns, so events are ordered
device by device. `Pkgd`: `pkgDirs` is what is on disk; a re-install that fails over an older
manifest and a removal that is cut off are remembered in `spoilt`, since the code leaves a
manifest beside an incomplete bundle there.

### LunaBus

Sockets are numbered, `lunaWs` is `this.ws`; the events of older sockets still arrive.
`connected` is also set by `_setupFallback`. The constructor of `WebSocket` is taken not to
throw: its URL is a constant.

## 3. Runs

| Run | Checks | Bounds |
| --- | --- | --- |
| `broker` | `TypeOK`, `NoDanglingRoute`, `PublishReachesSubscribers`, `ClosedIsForgotten` | 2 Unix connections, 1 direct subscription, 1 message, 2 queued commands |
| `broker_delivery` | `NoEcho`, `PerSenderOrder` | 2 connections, 2 messages |
| `ws_bridge` | `CallAnsweredOnce`, `CallReturns`, `EventsArrive` | 2 clients, 2 messages, 1 subscription, 1 bad frame |
| `sup_safety` | `TypeOK`, `Supervised`, `StartsOnlyDead`, `CrashBudget`, `BootedCritical`, `FollowsLifecycle` | 4 services of different kinds, 3 exits of which any may go unreported, both map outcomes |
| `sup_live` | `ExitNoticed`, `WatchdogKicked`, `BootCompletes` | 3 services, 2 exits of which any may go unreported |
| `daemons` | `GraphTypeOK`, `OnlyAcyclicSorted`, `CycleIsReal`, `SortIsStartOrder`, `MCTerminates`; `AtMostTwoMonitords`, `ConfigKept`, `MonitordComesBack`; `ShownIsPublished`; `LogComplete`; `MCStatusConverges`; `KeysInOrder`; `InstalledWhole`; `PendingAwaited`; `OneSocketOneTimer`; `PublishedIsRecorded`, `MCNetStatusSettles` | all graphs over 3 services and an unknown name; inis with 3 restarts and a power loss; 3 notifications of which 2 are visible, over 2 timestamps; 4 log entries over 2 days in files of 2; 3 volume commands; 2 devices, 3 events and a channel of 1; 2 apps, 3 commands, 2 crashes; a loopback and a device that may be wireless, 2 changes, 2 statuses on their way; a client with 2 handles, frames and ids; 3 sockets and a call |
| `update` | `UpdatesLikeSlotPair`, `DownloadRecovers`, `ChunksTile`, `DeltaRebuilds`, `NoDowngradeEver` | see `MCUpdate.cfg`: 3 versions on the server, 2 faults, all files of a few bytes over two values, 8 versions of 1 to 3 parts with numbers up to 10, with suffixes and with words |

In `daemons` and `update` the initial state names a unit and only that unit moves: the
state spaces of parts that share nothing are added, not multiplied. A property of one unit
holds trivially while another moves, except the three `MC...` ones, which name their unit.

Two connections are enough for every pair of a sender and a receiver and for a connection
that goes while another stays; two queued commands for a command overtaken by an
Unregister; two messages for an order. Two exits of one service exceed the crash budget
of 1, and the third exit hits another service meanwhile. The bounds stop the environment
(connections, messages, exits), never the code, so a run may stop when they are used
up: deadlock checking is off for this reason. `DependencyGraph` ends by itself.

For the new units: three restarts let monitord die, come back and die again, and the limit
be reached; two visible notifications of three let one be pushed out; four entries in files
of two rotate by size and by date in one run; a channel of one is full at once; two network
changes hit two reads of one detection; three sockets let two reconnections follow each
other.

Two faults let a download be spoilt and the repair fail as well; two statuses on their way are
an overtaking.

Five runs show that the code does not do what its comments say:

* `ws_collision`: a direct subscription's id is `connections.len() + 100000`. After a
  Unix connection has gone, the next subscription gets an id in use, and the other
  subscriber's sender is replaced (`broker.rs:248`).
* `ws_publish`: WebSocket publications are sent as connection 0, which is the first Unix
  connection; that one never gets them (`broker.rs:179`).
* `sup_wedged`: with DashMap's locking the supervisor blocks itself at its first pass over
  a running service, and the watchdog is not kicked any more (`supervisor.rs:550`).
* `client_pubsub`: a client subscribes to a topic in quotes, which matches nothing
  (`client.rs:137`, `broker.rs:341`); an ignored test expects the message to arrive.
* `inis_orphans`: while an orphaned service runs, a monitord that died is not restarted
  (`main.rs:437`), against "Restart monitord if it died" (`main.rs:392`).

Three more differences between comments and code are part of the modules, and the properties
of the passing runs leave them out by name, without a run of their own:

* A child that ended and was reaped elsewhere keeps its handle and its status for ever, as
  the error of `try_wait` is only logged (`supervisor.rs:604`, `MonitorError`), against
  "Monitor semua service — cek yang mati, handle restart." (`supervisor.rs:536`).
  `ExitNoticed` is about the exits the kernel reports.
* A corrupt file of a bundle's length, left over by a crash or a removal that failed, is
  returned unhashed at every poll and never removed (`downloader.rs:121`, `"stale"`), against
  "SHA-256 verification setelah download" (`:6`) and "Hapus file korup" (`:149`).
  `DownloadRecovers` leaves that case out (`Stuck`).
* 2.0.0 is accepted after 2.0.1-alpha, whose last part is dropped
  (`update-verify/src/lib.rs:228`), against "Check version (no downgrade)" (`:10`).
  `NoDowngradeEver` is about releases the device has had.

### Fairness

The actor, the connection tasks, the clients' tasks and the forwarding tasks are tokio
tasks that the runtime always polls again: weak fairness of the actor and of each
`Forward`, `WsAnswer` and `WsForward`. Nothing is assumed of clients except that one that
stays connected reads its socket (the fairness of `Forward`: a client that never reads would
block `framed.send` for ever). The supervisor's task has weak fairness, and `tokio::select!` picks at random among ready timers: strong fairness of each
timer. `DependencyGraph` is a function call: weak fairness of its steps.

inis is always scheduled again: weak fairness of its own steps, none of exits. notifd's
tasks, audiod's loop and each of its sending tasks, netmd's steps and its eldest sending task:
weak fairness, as tokio polls them; netmd's timer has strong fairness, since select! picks at random between it and
requests. Ota: monitord restarts otad and its task is polled (weak fairness); a server that
is asked for ever answers now and then, also with the rest of a file if there is a rest, and otherwise with 416 (strong fairness of
those answers). No removal that fails, no crash, write error or change of the environment is fair. `MCDaemons` and
`MCUpdate` state the fairness of each unit for its own part of the state.

## 4. Proofs

Every safety invariant, every action property and every refinement that a passing run checks
is also a theorem, proved by TLAPS for all values of the constants that satisfy the named
assumptions of their modules. The bounds that keep TLC's state spaces finite are constants
too, so the theorems hold however large they are. `PROJECT.json` lists the theorems; each
proof module states its invariant, one lemma per group of actions, and the theorems.

Most properties are not inductive. What had to be added to each, and why:

* **Broker.** `TypeCorrect`, `SenderExclusion` (`NoEcho`), `NoDangling`, `InOrder`
  (`PerSenderOrder`). The first two need that every queued Route carries its author's id and
  that a Unix id's channel is its own. `NoDangling` needs to look into the queue: for every
  connection that is gone or mentioned in a queued command, either its task runs or an
  Unregister follows that command. It assumes `MaxConns <= SynBase`: beyond 100000 Unix
  connections the two id ranges meet. `InOrder` (`OrderInv`) takes what a client received and
  what its channel holds as one stream: its message numbers do not decrease, those of the
  queued Routes increase, and every number in a stream is below every one in the queue.
* **Bridge.** `BrokerUnderBridge` carries the broker's theorems over: the bridge calls
  `BrokerHandle` and does nothing else to the broker, as its actions are written. `BridgeTypeCorrect` has the form of the bridge's state: one forwarding task
  for each direct channel, at most one awaited call per client (`WsTypeOK`).
  `CallAnsweredOnceAlways` (`CallInv`): a call somebody awaits was sent, is awaited by one
  client and has no answer yet, and what was answered was sent. Since numbers are handed out
  in order, the next call is then one that nobody awaits and nobody was answered, whatever
  the actor still does with the calls that timed out.
* **Supervisor.** `Invariant` and from it `TypeCorrect`, `SupervisedAlways`,
  `StartsOnlyDeadAlways`, `CrashBudgetKept`, `BootedCriticalAlways`; and `Implementation`,
  that the supervisor implements `ServiceLifecycle`. The inductive invariant adds, for
  each program point, which status the service being worked on has, that `to_restart` holds
  distinct Failed services without a process, and where boot is in `Order`.
* **DependencyGraph.** `TypeCorrect`, `OnlyAcyclicAlways`, `CycleIsRealAlways`,
  `StartOrder`. The invariant says of the search that the path holds the services in
  progress, each needing the next, and that finished services hold no cycle; of the sort
  that in-degrees count the dependencies outside the result and that the queue holds those
  with none. Completeness of the sort follows by contradiction: among the services left
  out, one would have no open dependency, and would be queued. `StartOrder` is what
  `Supervisor` assumes of its constant `Order`.
* **Ota.** `Implementation` (`UpdatesLikeSlotPair`), step by step, and `AlwaysBootable`. The
  invariant adds what each stage hands to the next (`HandedOver`: what is installed is the
  whole file that the check accepted, and the slot being written is out of the boot order),
  and that the running slot and the one that boots next are complete (`Complete`): the
  machine may restart between any two steps.
* **Inis.** `AtMostTwoAlways`: the monitords alive are among the first one and the one whose
  pid inis knows; the first can be overlooked because inis ignores SIGCHLD only after it was
  spawned. `ConfigKeptAlways`: what is still to be copied was never edited, since no monitord
  runs while files are seeded.
* **Daemons.** `KeysInOrderAlways`: the published events, the channels and what was read form
  one line, each part ordered device by device and before the next. `LogCompleteAlways`: what
  was taken from the channel stands once in a file, in flight, or in a late write, each in its
  day; only while no write failed. `InstalledWholeAlways`: an app between its two writes has
  a whole bundle. `VisibleIsPublishedAlways` is the safety under `ShownIsPublished`: what every
  list must hold (`MustShow`: not as many as are shown are at least as new) was sent, is on its
  way, or a task holds the promise to publish; `ListHasMust` is the counting argument that no
  choice among equal timestamps can leave it out. `PublishedIsRecordedAlways`: in a detection
  what is recorded differs from the status made last, the types apart, only if the change is
  noted; since a type never turns into the loopback's, what is online does not depend on it.
* **Clients.** `PendingAwaitedAlways`: calls are only awaited while a handle exists.
  `OneSocketOneTimerAlways`: all sockets but the last are over, and a retry timer runs exactly
  when the last one is over too.
* **Update.** `ChunksTileAlways` (`TileInv`: the chunks so far tile the file up to the chunk
  that is being looked for) and `DeltaRebuildsAlways` (`StoreInv`: a stored file is its chunk or
  shorter, the chunks of the last index stay stored, what is not stored is still to be). The
  second needs no perfect store: pieces none of which is longer than its chunk give at most
  the length of the file (`RebuiltBound`), and verification compares the result with every
  chunk of a tiling, so what passes is the file. Both hold for every gear table, mask, hash
  width and chunk size that `CasyncAssumption` allows.
  `NeverDowngraded`: no version installed is below one that was installed before, in the order
  of `is_downgrade` itself, for versions of any length that have a number; the heart is
  that this order, in which a missing part is 0, is transitive. `NoDowngradeEverAlways`
  derives the property of the run, whose order is that of the releases: of a release `Parse`
  keeps every number, and of a pre-release whose suffix is in its last part all but perhaps the
  last (`ParsePreRelease`), so the verifier can only take it for less than it is
  (`NotBelowRelease`). It holds for versions of any length and any numbers; that each has a
  part that is a number is the only assumption, and the code needs it.

Two things about the method. `Parse` and `FlattenSeq` are recursive functions over data. The
library's induction theorems cannot be instantiated by the installed provers, so
`UpdateProofs` proves induction over a range of numbers with a *set* for the hypothesis
(`RangeInduction`, from the least element of a set of numbers), and from it that a function
that iterates a step exists and is the one `CHOOSE` takes (`RecursiveFunction`). And proofs
about sequences that move an element from one queue to the next use a few lemmas
(`MoveHead`, `SortedAppend`, `StreamType`) instead of the positions.

Only model-checked: the liveness properties, which are temporal under fairness and need
ENABLED (`PublishReachesSubscribers`, `ClosedIsForgotten`, `CallReturns`, `ExitNoticed`,
`WatchdogKicked`, `BootCompletes`, `MCTerminates`, `MonitordComesBack`, `ShownIsPublished`,
`MCStatusConverges`, `MCNetStatusSettles`, `EventsArrive`, `DownloadRecovers`); and the runs that show a
violation. `Audiod` and `ClientBus` have no theorem: the one has a liveness property only, the
other only serves to show a violation.

## 5. Not modelled, and the plan

Not modelled, and why:

* YAML parsing and validation, logging, capability dropping, build scripts, styling: no
  state that changes, or not this code's concern.
* `shutdown_all` of monitord and `do_shutdown` of inis: nothing sends on `shutdown_tx`, nothing
  sets `SHUTDOWN_REQUESTED`. `WifiManager::connect`, `confirm_boot`, `mark_boot_failed`,
  `download_index`, `connectivity.rs`, `ethernet.rs`: no caller.
* powermand: its state only moves Active, Dimmed, Suspended, since `last_activity` is never
  updated. wifid: a one-shot sequence. dispald, devmand, lumind, lunad: wrappers.
* Parsers of wpa_cli and RAUC output, the encoding of messages and of the index: functions
  without state; their outcome is an input of the models.
* How a running `rauc install` ends when otad dies meanwhile is decided at that moment: nothing
  looks at the slot before the next boot.
* The order in which overtaking lists of notifd reach the screen.
* Real time: 30 s waits for dependencies hold up the watchdog.

Left to do:

1. The supervisor beside the orphans of its predecessor: `Inis` and `Supervisor` composed.
2. The pid in the supervisor's table beside the handle, and a type of interface that changes
   under netmd's comparison.
3. The safety under the liveness properties that have none yet (a crashed service stays noticed
   until it is handled; a closed connection's Unregister is queued or done).
