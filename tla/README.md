# TLA+ models of ecu-telemetry

A fleet of ECU agents (C++, `src/firmware`) streams telemetry over UDP and keeps
one TCP control channel to a Python backend (`src/backend`), which stores the
data, raises alerts, and pushes configurations, firmware updates, injected faults
and commands; `src/sim` runs scenarios against both. These modules model the parts
of that system whose correctness depends on order, failure and time, check them
with TLC on small instances, and prove with TLAPS, for every value of the constants,
all of the safety properties that TLC checks.

Run everything from this directory: `tlc -config MCConfig.cfg MCControlPlane`,
`tlapm ControlPlane_proofs.tla`, and likewise for the pairs in *Runs*.

## Inventory

| component | state it keeps | operations | what is hard | what makes it correct |
|---|---|---|---|---|
| TCP control link (`agent.cpp` socket, `ingest.py` streams) | two byte queues per connection | connect, send, read, EOF, error | connections linger after being replaced; `write()` succeeds on a dead peer | frames in order per connection, none invented |
| ECU agent, control side (`agent.cpp`) | connection, configuration, firmware, download, reboot | connect, handle CONFIG_SET / FW_UPDATE / CMD, heartbeat, download, reboot | channel lost in every phase; process restart forgets what was pushed | configuration and firmware never go back; a download ends with its channel |
| fault injection and flags (`agent.cpp`, `physics.hpp`, `api.py`, `db.py`) | injections with expiry, plant mask, board flags, `fault_injections` rows | FAULT_INJECT, clear, scheduled fault, expiry, sampling, ack | injections overlap and share flags; an expiry ack meets a new request; a failed sensor read | a flag is on exactly as long as someone asked for it; acks tell what runs |
| backend control plane (`ingest.py`, `api.py`, `db.py`) | writer registry, device row, `device_config`, `fw_jobs` | accept, register, dispatch each frame, put_config, firmware_deploy, device_cmd | reconnect, crash between INSERT and push, stale reports, re-push | one live writer; the newest configuration reaches the device; finished jobs stay finished |
| presence (`ingest.py`) | `DeviceStats`, `devices.online`, `device_stats` | frame seen, offline loop, stats loop, stop, restart | restart between the two writes of `_set_online` | only silent devices go offline, and all of them do |
| alert engine (`anomaly.py`) | `st.active`, alerts table, rules | mark, resolve, tick, acknowledge, edit rules | alerts left by an earlier process, rule edits while open | one open alert per rule, resolved neither early nor never |
| rule conditions (`anomaly.py`) | configuration and hardware caches, rate history, z-score streaks, rules | evaluate a sample, edit rules, invalidate | caches refilled while a push waits in `drain()`; pruning, warm-up and gate over time | a rule fires exactly when its condition holds over the whole history |
| telemetry sequence (`agent.cpp`, `ingest.py`, `lossy_proxy.py`) | `udp_seq_`, `last_seq`, gaps, window | send, note_seq, loss_pct | loss, duplication, reordering, wrap, restart | every frame counted exactly once |
| telemetry store (`db.py`) | row buffer, raw and rolled-up tables, watermark | buffer, flush, rollup, prune, query | flush and rollup race, late rows, downtime | no row dropped, none pruned before its rollup, none counted twice |
| codec, stream decoder (`protocol.py`) | byte buffer | feed, resynchronise | frames split anywhere, garbage between them | what is decoded was sent; the stream recovers |
| event bus, SSE (`bus.py`, `api.py`) | one bounded queue per subscriber | publish, subscribe, stream, disconnect | slow reader, full queue, clients that leave at any time | order kept, only overflow lost, the newest event kept |
| diagnostics (`diagnostics.py`) | none (reads alerts, sample, injections, jobs) | build_context, heuristic_diagnosis | a chain of tests by rule name over a context of stale parts | an injection is named; "nominal" only when quiet |
| SIL scenario runner (`run_sil.py`) | child processes, schedule, results | validate, start, walk, poll, kill, report | signals at any point, children that die, a backend that does not answer | exit status 0 is earned; no process left behind |
| fleet runner, bench, dashboard, command line, logging | none that others read | | | |

Interactions. The agent and the backend exchange frames over one TCP connection
at a time (HELLO first) and telemetry over UDP. Inside the backend every
coroutine runs on one event loop and shares `Ingest.writers`, `Ingest.stats`, the
engine and the SQLite connection; `_persist_stats` and `flush` run in worker
threads. API requests call `Ingest.push_*`, which write to the registered
connection. `_set_online` calls the engine; `_stats_loop` calls `engine.tick`; every
dispatched LOG frame and telemetry sample is published on the bus, which the SSE
streams of the dashboards consume. The scenario runner starts backend, proxy and
agents as processes and talks to the API.

`PROJECT.json` lists every component with its status, and under `hazards` each
place where the code is hard to test, with the properties aimed at it.

## Modules

| module | models | composes |
|---|---|---|
| `ControlLink` | connection slots, frames, what a send on either side does, cut links | |
| `EcuAgent` | the control side of `agent.cpp` | extends `ControlLink` |
| `Ingest` | the TCP half of `ingest.py`, the pushing endpoints of `api.py`, their tables | extends `ControlLink` |
| `ConfigService` | abstract: what is promised about configurations | |
| `ControlPlane` | one agent, the backend, an operator and faults; properties | extends `EcuAgent`, `Ingest`; implements `ConfigService` |
| `AlertEngine` | the alert lifecycle of `anomaly.py` | |
| `Monitoring` | presence, statistics and loops of `ingest.py` driving the engine; properties | extends `AlertEngine` |
| `RuleConditions` | which rules a sample makes true, with the caches, histories and requests behind it; properties | |
| `TelemetryLoss` | numbering in the agent, the network, `note_seq`, `loss_pct` | |
| `TelemetryStore` | buffer, flush, rollup, prune and 1-minute query of `db.py`, `maintenance_loop`, a query thread | |
| `StreamDecoder` | `StreamDecoder.feed` of `protocol.py` over bytes | |
| `LiveStream` | abstract: what a subscriber of the bus is promised | |
| `EventBus` | `bus.py` and `events_stream` of `api.py` | implements `LiveStream` |
| `EventPath` | bytes of a connection to events of a dashboard; fairness | extends `StreamDecoder`, `EventBus` |
| `FaultInjection` | injections in the agent, their frames, acks and rows | |
| `Diagnostics` | the heuristic of `diagnostics.py` as a function of its context | |
| `FaultDiagnosis` | from a request over telemetry to alert and diagnosis; properties | extends `FaultInjection`, `Diagnostics` |
| `SilRunner` | `run_sil.py`: scenario, processes, walk, report; properties | |
| `X_proofs` | theorems about `X`: `ControlPlane`, `Monitoring`, `RuleConditions`, `TelemetryLoss`, `TelemetryStore`, `EventPath`, `FaultDiagnosis`, `SilRunner` | extends `X` |
| `MC...` | constants for TLC | |

Definitions whose comment starts "Mutant of" are deliberately wrong variants of a
neighbouring definition. No specification uses them; putting one in the place
of its original must break the property it is paired with in `PROJECT.json`.

### Control plane

*Connections.* A slot of `Conns` is a connection with two independent ends:
`conn = c` is the device's, `handler[c]` the `_handle_tcp` coroutine. A slot is
reused once both ends are gone, so two slots cover every number of reconnections
with at most two connections alive at once. This gives the awkward
histories: an old handler still reads frames that had arrived before its writer
was closed by `_register`; an old connection registers after a newer one and
takes over the registry; a handler ends long after its successor registered.

*Atomicity.* The agent is a single `select()` loop; each handler is one step. In
the backend a coroutine gives up control only in `reader.read()`; `drain()`
suspends only above asyncio's 64 KiB high-water mark, which these frames do not
reach, so one dispatched frame and one request are each one step. The processes
may die between two database writes or between a write and a push: these are the
`...Interrupted` and `Crash...` actions.

*Sending.* `DeviceSends`/`BackendSends` queue a frame only if the other end can
still read it. `SendResults` is what `Ingest.send` answers: `False` without a
writer, `True` on a sound connection, either one when the peer is gone and
asyncio may not know yet. A frame sent by the device while `sendFrame` itself hits
an error is the handler step followed by `TcpFail`. At EOF or on an error, frames
that arrived but were not yet parsed may be processed first or discarded.

*Data.* A firmware version string is its number and whether some field is
zero-padded (both parsers accept padding, both printers drop it). A configuration
is its version and whether the device's validation accepts it: `put_config` lets
`rpm_limit = 0` through and the agent rejects it. `Booted` returns to the
configuration given on the command line because the `.applied` file that
CONFIG_SET writes is never read back.

*Telemetry and the device row.* UDP telemetry can create the device row before the
first HELLO (`FirstTelemetry`), so an operator may store a configuration or a job
for a device whose reported version is still unset (0).

*The abstract specification.* `ConfigService` has two variables, the stored rows and
what the device runs, and no connections: a row is stored above the earlier ones, the
device starts running a valid stored row newer than what it runs, it answers a row
("applied" iff valid), the newest row is pushed again and its answer forgotten, the
device restarts. The refinement mapping `Rows` forgets whether a row without an answer
is pending, queued or sent. A CONFIG_SET the device has already applied, a rejected one
and everything about connections and firmware are stuttering steps.

### Monitoring

Time is an age attached to every timestamp, capped where no comparison in the code
distinguishes larger values; `PassTime` ages everything at once. `seen` (memory),
`row.seen` (`devices.last_seen`) and `saved.seen` (`device_stats`) are separate,
because a restart rebuilds memory from the last two. `ConfigAck` is the one step that
renews `row.seen` alone: an applied CONFIG_ACK goes through `upsert_device` but not
through `_seen`. Which rules a sample makes
true is an arbitrary subset of the rules in force. `LogFrame` needs the device row
because a LOG frame follows a HELLO on its connection. The `Crash...` actions stop
the process between the two writes of `_set_online`. `quiet` and `hot` are ghost
ages: when the device was really last heard, and when a rule was really last true.

### Telemetry sequence

Each frame carries the 32-bit number (modulo `SeqMod`) and, as a ghost, its true
position. `net` is a set: delivery in any order, with copies, or never. `InRange`
is the one assumption on the network: no frame is late by, and no outage lasts,
half a turn of the counter (2^31 frames). The ghost `taken` is the history of the
frames that `note_seq` counted, each with its position and its expected count.
`WindowExact` compares the deque with it: the window is the newest `LossWindow`
entries of the history, in order, and its sum is what the device sent over that stretch,
unless the stretch has a jump longer than `RestartGap`, which the code forgives
(`forgiven`).

### Telemetry store

`flush` and the 1-minute query hold a lock per statement and run in worker threads,
so each locked section is one action: the maintenance thread and one query thread
(`api`) interleave with each other and with the receive path. A second query thread
would only add another holder of taken rows. A bucket is the set of rows
folded into it. `late` is a ghost: rows inserted when the watermark had passed them.
`PassTime` assumes that a round of `maintenance_loop` takes less than one time unit;
`StoreAssumption` says that the retention exceeds a rollup period and a minute, as
24 h does. Dead locals of the loop are reset when a round ends.

### Event path

`StreamDecoder` works on bytes, scaled down: two magic bytes, one byte that is both
version check and length, a one-byte CRC. The CRC is perfect: it holds exactly for
chunks that were encoded as a frame. A stream is its bytes and the segments they
consist of (frames, well-formed frames with a payload of the wrong size, garbage), which
`WellSent` describes: the segments cover the bytes in order, what was sent as a frame
has a header and the length it states, and no other stretch of the stream has the
bytes of a frame, its CRC included. `Feed(n)` hands
any number of bytes to the decoder; each turn of `feed`'s loop is one step. The
decoder loses a good frame in two ways, which `DecodesWhatArrived` excepts by name:

* After garbage, a read that ends between the two magic bytes of a frame makes
  `buf.find(b"TE")` fail, and `buf.clear()` drops the `T` as well (`protocol.py:477`). The
  ghost `splitMagic` records this.
* Garbage that contains a magic and a length within the limit is taken for the header of a
  frame: the decoder waits for that many bytes, finds the CRC wrong and drops all of them,
  the frames among them included (`protocol.py:484`-`489`). `NoFalseHeader` says that the
  stream has no such place. A false magic with a length that is too large, and a `T` without
  its `E`, are allowed: the decoder must recover from these.

`EventBus` numbers events by the value of `published`. A stream goes through
`off`, `new` (the handler has subscribed, the generator has not begun), `live`,
`stalled` (a `yield` waits in the server's send, because the client does not read; the
hello message and the keep-alive can stall too), `lost` (the client has closed, the
generator has not noticed), `gone`. A client that
leaves in `new` ends in `leaked`: the generator never runs, so its `finally` never
unsubscribes, and `publish` fills that queue for ever. `OnlyStreamsSubscribed`
names this exception and shows it is the only one.

`LiveStream` is the abstract specification: a count of events, the set of served
subscribers, and a cursor each, which moves to the next event or, when more
than `Capacity` behind, to the oldest of the newest `Capacity`. The refinement maps
`count` to `published` and `open` to `subs`; `cursor` is a ghost of the bus. The
queues have no counterpart: that they are a function of the other variables is
`QueueIsNewest`.

### Rule conditions

One device. A sample carries its values, which metrics are further from their mean
than z, and whether the gate metric is moving; the averages are floating-point and
are left out, while warm-up, gate, streak and duration are not. `past` is a ghost of
every sample with its age, and `RateExact` and `SustainExact` compare what fired
with a definition over that whole history. `PutConfig` stops at the `await` in
`push_config` and `PushDone` continues it, so telemetry, HELLO and acks come in
between. `hwFresh` is a ghost: FALSE from a HELLO that announces another model than
the cached one until the caches are dropped. In that window the code applies the
wrong override: telemetry that precedes HELLO caches an empty model, HELLO does not
invalidate it (`anomaly.py:122`), and the override "matched by … the hw_model the
device announced in HELLO" (comment at `anomaly.py:22`) is not used until somebody
pushes a configuration. `JudgedByNewestConfig` is exact everywhere else.

### Fault injection and diagnosis

An injection has its flags and its remaining time, `None` until cleared; `due` is
the ghost the properties compare with: for each flag the longest time any request
still asks for. A device either simulates its plant or reads board sensors
(`sensors`): then the flags reported are those of the last tick (`live_`), merged
with the injected ones, with hysteresis, and replaced by the plant's when the read
fails (`agent.cpp:286`). `Tick` is the whole tick. A break of the channel loses the
frames on it; a reboot may flush them. `FaultDiagnosis` adds the telemetry frame of
each tick, which may be lost, `ingest.latest`, and the heuristic evaluated in every
state in several `Surroundings` (other open alerts, loss, reconnects, job, ack).

What the properties leave open is the code's: with board sensors FAULT_ACK tells the
flags from before the request, so `AckInSync` is about the simulated plant; an
open `anomaly:current_a` alert has no test in the chain and is called nominal
(`Untested`).

### SIL runner

One state per place in `Runner.run` where a signal, a child's death or the
backend's answer can make a difference. Replies to polls are arbitrary within what
the API can return; `None` is a failed request. `Popen` may fail, and a child is
between `Popen` and `append` (`born`) when a signal can leave it unknown to
`kill_all`; `NoOrphans` holds except for that window and for a second signal inside
the clean-up (`cut`). `PassesEarned` names a second exception: `Api.alerts` answers
a failed request with an empty list, so `no_alerts_of_severity` passes while the
backend is unreachable. The schedule is the stable sort of `run`: an entry's place is
one more than the number of entries that are sooner, or as soon and earlier in the
file (`Place`). `SilAssumption` says what `load_scenario` guarantees of the shape of a
scenario, and that no device is called like a process of the runner.

## Runs

| run | module, cfg | checks | states |
|---|---|---|---|
| `config` | `MCControlPlane`, `MCConfig` | `TypeOK`, `RegistryConsistent`, `DrainedConfigInSync`, `ConfigNeverRegresses`, `ImplementsConfigService`, `ConfigConverges` | 328 k |
| `ota` | `MCControlPlane`, `MCOta` | `OtaPhases`, `FirmwareNeverDowngraded`, `FinishedJobsStay`, `InterruptedJobGetsOutcome` | 310 k |
| `monitoring` | `MCMonitoring`, `MCMonitoring` | `OneOpenAlert`, `OnlineIsClean`, `OnlySilentGoOffline`, `ResolvedOnlyWhenClear`, `AlertsClear`, `SilentGoesOffline` | 104 k |
| `telemetry_loss` | `TelemetryLoss`, `MCTelemetryLoss` | `GapsExact`, `WindowExact` | 1.7 M |
| `telemetry_store` | `TelemetryStore`, `MCTelemetryStore` | `QueryCountsOnce`, `NothingDropped`, `PrunedAreRolledUp` | 2.1 M |
| `event_path` | `MCEventPath`, `MCEventPath` | `DecodesWhatArrived`, `YieldsOnlySent`, `OnlyStreamsSubscribed`, `QueueIsNewest`, `ImplementsLiveStream`, `StreamsCatchUp` | 62 k |
| `rules` | `MCRules`, `MCRules` | `RateExact`, `SustainExact`, `JudgedByNewestConfig` | 1.3 M |
| `fault_diagnosis` | `MCFaultDiagnosis`, `MCFaultDiagnosis` | `InjectedWhileDue`, `AckInSync`, `InjectedIsNamed`, `NominalMeansQuiet`, `InjectionRaisesAlert` | 351 k |
| `sil` | `MCSilRunner`, `MCSil` | `WellFormed`, `ReportSound`, `PassesEarned`, `NoOrphans`, `RunnerExits` | 135 k |

What they show: over every interleaving of two lingering connections, lost links,
restarts of either process and crashes between INSERT and push, an idle channel
means that the device runs the newest stored configuration or has rejected it;
versions are never reused; configuration and firmware of a running device never go
back; finished jobs are final. Alerts are unique and are resolved exactly
when the documented hold time has passed; a watched silent device goes offline and
no other does. The loss estimate accounts for every frame once across the wrap.
No sample is dropped between the receive path, the flushing threads and the
tables, none is pruned before it is rolled up, and the 1-minute query counts
every sample once. Frames are decoded however reads divide them, and a dashboard
gets events in order, missing only what overflowed. Rules fire exactly as the history
of samples and the newest configuration say. An injected fault lasts as long as
asked for, reaches an alert, and is named by the diagnosis. Exit status 0 of the
scenario runner means that everything was tried and passed.

Three runs check what a document or comment says and the code does not do. Each is
expected to be violated; `findings` in `PROJECT.json` quotes both sides.

| run | cfg | claim | what the code does |
|---|---|---|---|
| `job_forgotten` | `MCJobForgotten` | an unfinished OTA job is resumed on HELLO | a job stored as `queued` or `sent` is never pushed again |
| `stale_online` | `MCStaleOnline` | a device silent for 15 s is marked offline | a device that was online when the backend stopped, with its statistics persisted, is loaded from `device_stats` and is then in neither loop of the detector |
| `device_restart` | `MCDeviceRestart` | a sequence reset is treated as a restart | a restarted device counts from 0, its numbers are smaller than the last one counted, and its frames are ignored as old ones (the case of an equal number, a duplicate, is left out) |

Other behaviour of the code that the models show and a property excepts by name:

* A configuration stored before the first HELLO gets version 1, the boot version,
  and is never pushed (`ingest.py:276`): `DrainedConfigInSync` and `ConfigConverges`
  are stated for versions above the boot version (`Pushable`).
* A row inserted after its minute was folded never becomes part of the bucket
  (`db.py:251`): `QueryCountsOnce` and `PrunedAreRolledUp` except `late` rows.
* The stale `hw_cache`, the leaked SSE subscription, the split magic, the
  false header, the nominal answer to `anomaly:current_a`, the pass without an answer and the two
  windows of a signal in the runner, each described above.

`InterruptedJobGetsOutcome` is stated for jobs known to be under way,
`SilentGoesOffline` for devices the detector watches (`Watched`), and
`GapsExact` until the device process restarts: outside these conditions the
violation runs show what happens. `InterruptedJobGetsOutcome` counts any final
status as an outcome. One is questionable: `request_hello` during a download makes
`_after_hello` push the same update again, the agent rejects the copy because a
download is active, and the job ends `rejected` while the device goes on to install
the version.

### Bounds

* Two connection slots: the registry logic compares the old and the new
  connection; a third is like one of these.
* `config`: two rows, so that one push can be overtaken by another; one fault (a cut
  link, a restart of either side, a crash between INSERT and push) and one command
  (reboot or request_hello). `BootCfg = 2`: a new version is then based on the
  reported version or, before HELLO, falls below it, and both happen.
* `ota`: two jobs, to the running and to a newer version, so that acks of the first
  arrive during the second. No commands in this run (`MaxCmds = 0`): that a reboot by
  command does not downgrade is covered by the proof, and by `config` for its effect on
  configurations.
* Heartbeats and progress acks are not queued twice (`NotQueued`): a second copy
  says the same.
* `monitoring`: `Hold = OfflineAfter = 2` so that an age can be below, at and above
  the limit; two restarts so that state saved by a process that had itself been
  restarted is reloaded; one telemetry rule besides `offline` (the rules do not
  interact).
* `telemetry_loss`: `SeqMod = 10` with twelve frames, so the counter wraps;
  `RestartGap = 2` so that a jump can be short or long; `LossWindow = 3` so that it
  overflows. Deadlock is not checked there: the bounded sender stops.
* `telemetry_store`: a minute of two units and a clock of six give three complete
  minutes, rows older than the retention, and a downtime longer than it; two rows so
  that one can be late while its neighbour is not.
* `event_path`: five streams (whole frames; garbage that starts nothing and a
  wrong-sized frame; false magics, one of which has a plausible length and swallows a
  frame; a false magic with a bad length and half a magic, both of which must be
  survived; a half magic right before a frame)
  in reads of one to six bytes, so that every boundary falls inside a read and
  between two; a queue of two that up to five events overflow. The proofs cover
  every queue size and number of subscribers. Deadlock is not checked: the stream ends.
* `rules`: five samples, with `Warmup = 1`, `Sustain = 2` and `SustainS = 2`, are enough
  to warm up, break a streak and build it again; ages run to `2 * Window + 1`, so a
  sample can be inside, at and beyond the pruning limit. One push at a time
  (`MaxPushes = 1`): overlapping pushes are covered by the proof only.
* `fault_diagnosis`: two requests that share a flag, one permanent and one timed, one
  clear, cut or reboot; `RecentRows = 1`, so that the older row falls out of the context.
* `sil`: five scenarios, two of which validation must refuse; a grace of two polls;
  two signals, so that the second can fall into the clean-up of the first. Deadlock
  is not checked: the runner exits.

### Fairness

Each conjunct is weak fairness of one process.

* `ControlPlane!Fairness`: the agent's loop never blocks, so it reconnects when it is
  disconnected and reads what has arrived, ends downloads and reboots; asyncio
  resumes each handler that has data or whose connection has ended.
  Heartbeats, requests, commands and faults are not assumed to happen.
* `Monitoring!FairSpec`: time passes, and each background loop takes its turn.
* `EventPath!Fairness`: the event loop runs a stream that has an event to yield, unless
  its send is stalled, and one whose client has gone. Nothing is assumed of clients or
  of the decoder: that a client ever reads again is not assumed, and `StreamsCatchUp` is
  stated for the streams that are not stalled for good.
* `FaultDiagnosis!FairSpec`: the agent's loop ticks and the network does not lose every
  telemetry frame. Requests and acks need not arrive.
* `SilRunner!FairSpec`: the runner's next step comes, because each of its waits (API
  call, health, grace, `kill_all`) has a deadline. Nothing is assumed of the backend
  or of the children.

## Proofs

`ControlPlane_proofs` proves, for every set of connections, every set of
targets and every value of the bounds, from the named assumptions
(`ConnsAssumption`, `BootAssumption`, `BoundsAssumption`, `BudgetAssumption`):

* `TypeCorrect`: `Spec => []TypeOK`. `TypeOK` is inductive; one lemma per group of
  actions, resting on lemmas about `DeviceSends`, `BackendSends`, the frames and
  the rows.
* `RegistryAlwaysConsistent`: `Spec => []RegistryConsistent`, inductive given the
  types. The cases that matter are `_register` closing the writer it replaces and
  the identity test of the `finally` block.
* `OtaPhasesHold`, `NoDowngrade`: `OtaPhases` alone is not inductive. At `OtaDone`
  the target becomes the pending firmware, so the invariant must know that a
  running download's target is not below the running version: `OtaInv` adds
  `ota # None => ParseFwVersion(ota) >= fw`. That in turn needs `OtaPhases`, since a
  download running while a reboot changes `fw` would break it.
* `FinishedJobsAreFinal`: `FinishedJobsStay`, from `JobsStep`: a step leaves the
  jobs alone, appends one, or changes the status of the newest while it is unfinished.
* `VersionsAlwaysIncrease`: no version is ever reused (`VersionsIncrease`, which the
  service's `Store` also demands of every step), inductive given that acks
  change no version (`AckConfigKeepsVersions`) and `NewVersion` is above the last row's.
* `ConfigGoesForward` (`ConfigNeverRegresses`) and `IdleChannelInSync`
  (`DrainedConfigInSync`), from `ConfigInv`, which is inductive given the three invariants
  above. The agent applies any CONFIG_SET, so that it never goes back depends on what is in the
  queues: `Queued` says that the CONFIG_SETs on their way to the device are stored
  configurations in version order and none is older than what runs. It needs in turn that
  the device never reports less than its boot version (`Reports`, `Running`), and that a
  writer is registered only by a HELLO (`FirstIsHello`, `ReportedKnown`), so that
  `NewVersion` is above the boot version whenever there is somebody to push to. `InSync` says
  where the newest configuration is on a sound, registered connection: running, on
  its way, or rejected with the row or a queued ack saying so. It becomes true when the
  first HELLO is dispatched, which still tells what the device runs.
* `ControlPlaneImplementsService`: `Spec => Service!Spec`, one lemma per step of the
  service. `RunRefines` needs `Queued` (what arrives is stored and not older) and
  `Running` (a second copy of what runs changes nothing); `AnswerRefines` needs `Reports`
  (an ack in flight, on whatever connection, answers a stored row as the device treats
  it); `AckRefines` needs `VersionsIncrease` (one row has the version, so an UPDATE by
  version changes one answer); `StoreRefines` needs `NewVersionAbove`.

`EventPath_proofs` proves about `BusSpec`, for every set of subscribers, every queue
size above 0 and every bound (`BusAssumption`):

* `BusTypeCorrect`, `SubscriptionsFollowStreams` (`OnlyStreamsSubscribed`) and
  `QueuesHoldTheNewest` (`QueueIsNewest`), all from the inductive invariant `BusInv`:
  types, subscriptions, `CursorBehind` and `QueueIsNewest` together. `CursorBehind`
  (no stream is ahead of the bus) is what makes `QueueIsNewest` inductive: without
  it `published - cursor[s]` may be negative and the length of the queue says
  nothing. `OnlyStreamsSubscribed` is needed at `YieldEvent`, whose guard speaks of
  the stage while the invariant speaks of `subs`. The lemma `PutNewest` carries the
  step of `publish`: putting the next event on a queue that holds the newest part
  keeps it so, whether or not the head is dropped.
* `BusImplementsLiveStream`: `BusSpec => Live!Spec`. Publishing, subscribing, yielding
  and ending map to `Publish`, `Open`, `Deliver` and `Close`, everything else to a
  stutter. That the head of a queue is the event `Deliver` names is `QueueIsNewest`.

and about `Spec` of `EventPath`, for every stream that `WellSent` allows, every maximal
payload and every division into reads (`DecoderAssumption`):

* `FramesAreRecovered` (`DecodesWhatArrived`) and `OnlyFramesAreYielded`
  (`YieldsOnlySent`). Neither is inductive: both compare what was yielded with what was
  read, while `feed` is still working through its buffer. `DecoderInv` compares it with what
  was consumed, `Gone`: the buffer is the part of the stream after it (`Holds`), what was
  yielded are frames before it, in order (`SentBy`), and, with no false header and no split
  magic, all of them, with no frame cut in two (`InStep`: `Caught`, `Uncut`). A decoder at
  rest needs more bytes, so no whole frame is left in the buffer (`NoneWaits`). The
  step that matters is `ResyncSkips`: the first `TE` in the buffer is never behind the
  start of the next frame, and when there is none that frame has not begun to arrive,
  unless the last byte was its `T`.
* `PathDrivesBus`: `Spec => BusSpec`, so that everything proved about the bus holds for the
  bus behind the decoder, and `PathImplementsLiveStream`.

`TelemetryStore_proofs`, for every period, retention and bound (`StoreAssumption`):

* `SamplesAreKept` (`NothingDropped`). The property is about two states, but a step
  keeps every row only if taking the buffer overwrites nothing: the inductive
  invariant `TakenOnlyInFlush` says that either thread holds rows only between the two
  locks of its own flush.
* `EveryRowCountedOnce` (`QueryCountsOnce`) and `RolledUpBeforePruned`
  (`PrunedAreRolledUp`), from `StoreInv`: the types, `Timing` (how far the
  clock, the round, the last rollup and the watermark can be apart at each place of
  the loop), `RolledUp` (a row below the watermark is in its bucket or late, and a
  bucket holds only rows of its own, complete minute) and `HalfRead` (the query's first
  statement took exactly the rows below the point from which the second one reads).
  `Timing` carries what the rollup achieved to the prune: the
  watermark is less than a minute behind the last rollup, which is at most
  `RollEvery` ago.

`Monitoring_proofs`, for every set of rules, every limit and any number of restarts
(`MonitoringAssumption`): `OneAlertPerRule`, `OnlineHasNoAlert`, `SilentBeforeOffline` and
`ClearBeforeResolved`, from `MonInv`. Its parts beyond the types and `OneOpenAlert` are
`Presence` (a device that is online in memory is so in its row, has no open offline
alert, and was heard by this process no earlier than in truth), `RowIsQuiet`
(`devices.last_seen` is not older than when the device was last heard; an applied
configuration may have renewed it) and `ActiveIsHot`
(`st.active` is when the rule was really last true). The last two tie what the code
compares, and what a restart reloads, to the ghosts the two action properties speak of.

`TelemetryLoss_proofs`, for every even modulus, every restart gap, window and
number of frames (`LossAssumption`): `EveryFrameCountedOnce` (`GapsExact`). `LossInv` says
that a frame's number is its position modulo `SeqMod` (`Numbered`), that `last_seq` is
the number of `Top`, that `Top - First` splits into the frames counted, the gaps and the
forgiven ones (`Accounted`), and that each expected count of the history is the distance
to the frame counted before (`Measured`), as long as the device process has not restarted.
The step rests on lemmas of modular arithmetic: within half a turn (`InRange`) the
difference of two numbers tells the difference of their positions. `WindowIsExact`
(`WindowExact`): that the window is the newest part of the history (`Newest`) is inductive,
whether or not the deque drops its head; by `Measured` the positions of the counted frames are
then the running totals of the window. The sum is a recursive function, and that it agrees
with running totals (`TotalIs`) is shown by the least place at which it could differ.

`FaultDiagnosis_proofs`, for all flags, requests, schedules and surroundings
(`FaultAssumption`, `DiagnosisAssumption`):

* `FlagsLastAsAsked` (`InjectedWhileDue`), from `Covers`: for each flag, `due` bounds the time
  left of every injection that has it, and one of them attains it.
* `NewestAckTells` (`AckInSync`), from `AckPath`: on a channel never cut, either a frame
  that will bring the newest row's ack up to date is on its way, or it is up to date.
* `DiagnosisNamesInjection` (`InjectedIsNamed`), from `RowsKnown` and `LatestKnown`: the
  rows that frames, injections and the latest sample refer to are rows of the table
  that asked for those flags.
* `NominalIsQuiet` (`NominalMeansQuiet`): no induction, but a case per test of the
  heuristic's chain, for every context the types allow.

`RuleConditions_proofs`, for every set of metrics, rules and models, every warm-up,
streak, duration and window (`RulesAssumption`):

* `AnomaliesAreSustained` (`SustainExact`). `RuleInv` relates the streak and its start
  that the engine keeps to the last run of anomalous judged samples in the ghost
  history (`Streaks`), and the warm-up counters to the number of gated and judged
  samples (`WarmUp`); `Verdict` holds what fired to that state.
* `NewestConfigJudges` (`JudgedByNewestConfig`), from `CachesFollow`: with no push under
  way a filled configuration cache is the newest stored configuration, and a filled
  hardware cache is the announced model unless `hwFresh` is FALSE.
* `RatesAreExact` (`RateExact`): the kept list of a metric is embedded in increasing order
  into the ghost history, and what the prune removed is older than two windows. The
  verdict compares the sample with the first one kept, which is then the oldest within
  the window in the whole history.

`SilRunner_proofs`, for every scenario, any number of devices, signals and polls
(`SilAssumption`):

* `NoChildOutlives` (`NoOrphans`). `SilInv` says where a running child is known
  (`Tended`: in the runner's list, or just born), that behind the cursor of `kill_all`
  nothing runs (`Reaped`, `NoneLeft`), and that the flag `cut` belongs to the clean-up
  (`CutEnds`).
* `EveryPassEarned` (`PassesEarned`), with `OwnDatabase`: from the start of the backend to the
  clean-up, the database it answers from is the one this run created.
* `ReportIsTruthful` (`ReportSound`), from `Progress`: what the walk has consumed of the schedule
  is what it has tried and evaluated, counted by the turn of each check (`Done`). It rests on
  lemmas about the sort: `Place` is a permutation, so every entry of the scenario is in the
  schedule once, in order of time.
* `RunsWellFormed` (`WellFormed`), from `Kids`: who is started and when, and that the rest of
  the schedule is a suffix of it.

Only model-checked: the seven liveness properties (`ConfigConverges`,
`InterruptedJobGetsOutcome`, `AlertsClear`, `SilentGoesOffline`, `StreamsCatchUp`,
`InjectionRaisesAlert`, `RunnerExits`), because the prover has no support for fairness. The
library's induction theorems cannot be used either, since none of the provers instantiates their
operator parameter; where a proof needs induction over data it takes the least
counterexample instead, which well-foundedness of the naturals gives.

## Not modelled

Not modelled: the floating-point plant model, averages and sensor reads (the flags
and verdicts they lead to are inputs), the byte layouts of payloads, the call to an
external model in `diagnostics.py` (one request, whose answer is only stored), the
proxy's tuning endpoint, report files and console output, fleet runner, bench and
dashboard (drivers and viewers of the system), the command line and logging.
Errors of the storage itself are not modelled, and neither are several devices: the
backend keeps their state apart, except for the iteration hazard noted at
`ingest.py:110`.

Limits of what is modelled:

* `FinishedJobsStay` does not say that an ack is credited to the job it answers: FW_ACK
  carries no job, so a late one of a finished job changes the newest unfinished one
  (`ingest.py:261`).
* `OnlineIsClean` is about the recovered side of `_set_online`. A crash between the two
  writes of going offline leaves an offline device without an alert, which no property
  excludes.
* `RuleConditions` keeps the window, warm-up, streak, duration and gate metric constant;
  `PUT /api/rules` can change them too. Which rules exist, and which are enabled, does change.
* `FaultDiagnosis` has alerts of the default rule names. Alerts of rules with other names,
  which `PUT /api/rules` can add, have no test in the chain and are called nominal, like
  `anomaly:current_a`.
* `InjectedIsNamed` is about rows among the newest `RecentRows`: later requests push
  an injection that is still active out of the context. `InjectionRaisesAlert` is about the
  injected flags of a sample, not about those of the plant after a failed read.
* `SilRunner` uses the backend and the proxy that the scenario names, the backend started
  by the runner or already there: the options `--via-proxy` and `--backend` are not modelled, and whether a foreign backend serves the port
  (`foreign`) does not change during a run, so one that comes up while the runner starts is
  not covered.
