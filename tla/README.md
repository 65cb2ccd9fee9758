# Verification of the HAS1 escape-room firmware

TLA+ models of New_HAS1: the firmware of the devices of an escape-room game, the libraries
they share, the Windows logger that collects their diagnostics and tells people of incidents,
and the scripts that release firmware and write it to boards. The models are translated from the
source under `src/`, checked with TLC on small instances, and proved with TLAPS for every value of the
constants: every invariant and action property that a passing run checks.

`PROJECT.json` lists the components, the runs, the map from each definition to the lines it
models, the mutants that break each property, the hazards and the findings.

## 1. The system

The players repair *generators* by plugging batteries (wires), are tagged by RFID gloves, open
ducts and item boxes, and revive at a machine. A game server holds one row for each device; a
device polls its row over HTTP, shows what the row says and writes what the players did.
The most recent and most delicate code is that of the generator (`src/devices/HAS1_generator`),
where a mistake either blocks a game or counts one accomplishment twice.

| Component | State | Operations | Hard because |
|---|---|---|---|
| wire vote (`generator_wire_state.h`, sampler in `wire.ino`) | ring of the last 10 pin masks, startup second, qualified count, generation | sample every 100 ms from a task of its own; reset by the main loop | the pins are read outside the lock between two critical sections; 8-of-10 hysteresis; ring wrap |
| request queue (`network.ino`, `generator_network.h`) | 8 slots, generations and tokens, one mailbox, maintenance, recovery fence | submit and replace, withdraw, pick, check, dispatch, publish, callback, restart | two tasks on one spin lock; withdrawals that race the dispatch; slots freed before the callback; a full queue; starvation of the heartbeat; Wi-Fi that never returns |
| wire synchronisation (`wire.ino`, `wire_http.ino`) | acknowledged count, epoch and revision read last, fence | read, compare-and-set write, fence, adopt a context, reset | lost answers, writes of an earlier boot that arrive late, outside writes, restart of the server, a vote that moves meanwhile |
| completion (`network.ino` 382-930, `generator_completion_store.h`) | transaction of this boot, record in flash, journal fault, protocol of the server | begin, save, dispatch, verify, confirm, erase, journal recovery, legacy Send, upgrade and downgrade of the protocol | power cuts between save, dispatch, effect and erase; duplicate effects on an older server; staff writes; two protocols |
| offline recovery and OTA attempts (`generator_offline_recovery.h`, `network.ino`) | boot level, delay, attempts kept in RTC memory | sample, due, restart, count an attempt before it starts | restarts in a loop; counters that survive some resets only |
| game, tags, contributions, lights (`Game_system.ino`, `rfid.ino`, `contrib.ino`, ...) | device state, per-player contribution | callbacks of the loop | mostly pin and serial I/O |
| black box (`HAS1BlackBox`) | flash ring of records, journal of headers, queues between producers, writer and uploader | append, roll, checkpoint, snapshot, acknowledge, begin | power cuts and failed programs or erases in the middle of a step; acknowledgements in memory and on flash; duplicates at the collector |
| BLE beacon (`HAS1BleBeacon`) | advertising state, failures, backoff | start, stop, retry, restart | callbacks of the radio stack against the loop |
| tag machine: update (`beetle_ota.ino`, `beetle_ota_state.h`, `ota.cpp`, `ota_record.h`) | the sequence over three boards, the view of the peer, a record in the flash of each board | discover, update, probe, retry, advance, clear the order; request, task, recovery at boot | a lossy serial line, any board may restart, the order may be withdrawn while a board writes its flash |
| tag machine: game, serial link, RFID | device state | callbacks of one loop | mostly I/O |
| IoT glove | game state, link loss, network recovery, peers | poll, recover, restart | restart policy, timeouts racing late answers |
| revival machine, escape machine, altar, duct, item box, HA relay | device states, RFID, card upload, error recovery | callbacks of one loop | card upload and approval retry; the others are single-task |
| `HAS2_Wifi` | poll, bounded HTTP transport | send, receive within a deadline | outcomes only: rejected, lost before or after the server, late |
| logger: batch ingest (`collector.py`, `storage.py`, device side `HAS1BlackBox.cpp`) | upload session, queue of one worker, table of records | submit, save, answer, close | repeated, reordered and lost messages; two threads; the device erases what is acknowledged |
| logger: journal, import and retention (`evidence_runtime.py`, `telemetry.py`, `retention.py`) | journal with an ingest number, cursors, incident windows, watermark | poll, import, sweep, mark | two processes on one SQLite file; killed between two transactions |
| logger: clock probe and timeline (`clock_probe.py`, `timeline.py`, `BlackBoxEvidence.h`) | challenge, anchors, coverage | ask, answer, align | clock steps, reboots, wrap of the uptime, drift |
| logger: UDP receivers (`omada.py`, `gateway.py`, `telemetry_runtime.py`) | threads, queue, the present receiver | start, receive, store, replace, stop | four threads; a replacement while the runtime stops |
| logger: server log (`telemetry_runtime.py`) | offset in each file | poll, save, skip | files that are replaced, lines cut by a read, failing saves |
| logger: generator watch (`generator_watch.py`) | last request of each device, pauses of the server, outages | read a line, open, close | silence is judged by the others' requests; restarts and late lines |
| logger: incidents (`incidents.py`, `notifications.py`) | incidents, outbox rows, lease, session card, pages | process, claim, build, send, finish | two loops; a call that took effect and lost its answer; a lease that ends |
| release archive (`scripts/archive_iotglove_release.py`) | release, tag, assets, channel pointer | capture, publish, move the pointer | jobs die and are run again; boards read while two files are replaced |
| USB upload (`HAS1_tagmachine_sub/scripts/auto_usb_upload.py`) | boards seen, release snapshot, board in hand | download and verify, wait for a board, write | the page and the bus change between two looks |

How they interact, on the generator. The **main loop** (core 1) runs, in this order,
`GeneratorNetworkLoop` (deliver the mailbox, completion services, offline recovery, refresh,
maintenance), the wire service, the encoder, contributions, the mode of the game, timers and BLE.
The **network worker** (core 0) owns the HTTP transport. The **sampler** reads the wires.
The main loop and the worker share the queue under `networkMux`; the main loop and the sampler
share the vote under `wireStateMux`. The completion needs a confirmed wire context, and the wire
service stands back while an intent waits for its revision. The black box has a producer side
(any task, a queue), one writer task that owns the flash and one uploader task; the logger
answers over MQTT.

In the logger, one process runs the collector (MQTT thread and SQLite worker), the telemetry
runtime (threads of the UDP receivers, of the server log and of the evidence import) and the two
loops of the incidents; retention is a second process. They meet in SQLite files: each
transaction is a step of a model. `BlackBoxIngest` fills the table that `EvidenceJournal` imports,
`ClockProbe` dates what it imports, `ServerTail` and `UdpReceiver` add to the same journal,
`IncidentOutbox` reads it by ingest number, and `GeneratorWatch` opens the silent incidents of the
outbox.

What correctness means for each of them:

* vote: only samples of this cycle count; a count moves only on enough contradicting evidence;
  it settles on what is plugged in;
* queue: a request that was withdrawn in time is never sent, an answer belongs to its request,
  every waiting owner is told (but see `Settle` in section 2), a request is sent once, a restart cuts nothing in two;
* synchronisation: a confirmed count cannot be changed by something older; device and server
  agree in the end;
* completion: performed once, told done only when done, found again after any power cut, never
  blocked for ever by a fault;
* black box: no sequence is used twice, nothing unacknowledged is forgotten except the oldest,
  the partition always opens again;
* board update: the coordinator goes last, the door is not freed while a board writes its flash,
  and the door does not stay shut;
* logger: what a device may erase is kept byte for byte, nothing is imported twice or deleted
  unread, a record is dated right, only silent devices are blamed;
* incidents: nothing is said twice, what is shown is true, every announcement has its end;
* releases: a public version is one build of the commit its tag names, a board only accepts a
  pointer to such a version, only new boards are written;
* restarts: neither in a storm nor never, and not during a request.

## 2. Modules

| Module | Models | Abstract from |
|---|---|---|
| `WireVerdict` | what the vote promises: a qualified count, changes of it, resets | specification only |
| `WireVote` | the vote and its sampler, in three steps, against resets and players | times: the startup second is a flag that time may set |
| `NetworkQueue` | every critical section of `networkMux`, the worker, the mailbox, all withdrawals, fence and restarts | time: a request is fresh, overdue or expired; the answer's content |
| `WireSync` | `WireServiceLoop` and its callbacks, the server's row, late writes, reboots | the vote is `WireVerdict` (an `INSTANCE`); the queue is one request |
| `GeneratorCompletion` | conditional and legacy completion, journal, services, server | the wire context is one step; the queue is a completion and a verify |
| `BlackBoxRing` | `Ring` and the writer task, one flash operation a step | the uploader is its effect; a record is its sequence |
| `BlackBoxIngest` | the device's upload session, the broker, `submit`, the worker and `close`, the table | the ring: `acked` is what it may erase |
| `EvidenceJournal` | importer, incident worker's cursor, the retention job with its sweeps | windows are sets of days; a row is its record |
| `ClockProbe` | challenge, answer, coverage, anchors, alignment | integers for time, an oscillator one part off |
| `UdpReceiver` | reader and consumer of a receiver, the watcher, the stop of the runtime | a datagram is a count |
| `ServerTail` | `JsonlTailer.poll`, call by call, and the saves | a line is its end and whether it is valid |
| `GeneratorWatch` | the watch, next to what is true of devices and server | a device sends once a unit of time |
| `IncidentOutbox` | both loops, the outbox, the lease, every call of Slack and Notion | texts: a row says which state it shows |
| `ReleaseArchive` | one job after another, GitHub's release, a board that reads the pointer | a tree is a number, an image its tree and build |
| `UsbUpload` | one run of the script, the bus and the release page | time: a number of polls |
| `OfflineRecovery` | policy of lost Wi-Fi, attempts at an update, what RTC memory keeps over resets | time in units, no wrap of `millis()`; requests only as busy or not |
| `BeetleOta` | coordinator, peer view, both Beetles, their flash, the lines, the order on the server | versions are numbers, times are free |
| `EventPaths` | ingest, receiver and watch side by side, what each promises | `EXTENDS BlackBoxIngest`, an `INSTANCE` of the others |
| `WatchAndRelease` | journal, clock, archive, both updates of a tag machine and the restarts side by side, what each promises | `EXTENDS EvidenceJournal`, an `INSTANCE` of the others |
| `WireVote_proofs`, `NetworkQueue_proofs`, `WireSync_proofs`, `GeneratorCompletion_proofs`, `BlackBoxRing_proofs`, `IncidentOutbox_proofs`, `EventPaths_proofs`, `WatchAndRelease_proofs` | the inductive invariants and the theorems of section 5 | |
| `MC*` | the instances for TLC; `MCGeneratorLive`, `MCDeviceFlash`, `MCEventPaths` and `MCWatchAndRelease` hold several; each EXTENDS one module that states assumptions (`GeneratorCompletion` by way of `MCGeneratorCompletion`, `BlackBoxRing`, `EventPaths`, `WatchAndRelease`) and takes further ones by INSTANCE | |

They compose by contract. `WireSync` takes the vote as `WireVerdict`, which `WireVote` is shown
to implement (`VerdictSpec`, checked and proved), and one outstanding request as `NetworkQueue`
shows it to behave: sent once, withdrawn or answered, never mixed up. `GeneratorCompletion`
takes the confirmed context as `WireSync` shows it (`CompletionForThisCount`), and again the
behaviour of the queue. `BlackBoxIngest` and `BlackBoxRing` meet in the acknowledgement: the first
shows what may be acknowledged (`AckedIsKept`), the second what an acknowledgement may erase. A
product of the real modules is out of TLC's reach.

### WireVote

`masks`, `sampleCount`, `nextSample`, `startupComplete`, `qualified`, `stable` and `generation` are
the fields of `GeneratorWireState`; `sampler` holds the local variables of `WireSamplerTick`.
Actions: `SamplerArm` (first critical section), `SamplerRead` (the pins, no lock), `SamplerCommit`
or `SamplerDrop` (second critical section, with `record()` if the sample is still of this cycle),
`ResetTracking`, and the environment: `Replug`, `Age` (the startup second). History variables
`readIn`, `verdict` and `since` record in which generation each slot was read, the pins of the last
settled window and the samples since.

### NetworkQueue

`slots`, `active`, `pending`, `mailbox`, the tokens and the flags are those of the source;
`worker` and `main` are the two program counters. The worker selects (priorities and the rule of
the heartbeat after three others), checks, comes to the boundary, dispatches or stops, writes the
answer into the mailbox and publishes it. The main task submits, replaces its queued wire request in
place, withdraws a game, card, token or wire cycle in the separate steps of the code, runs the
callback, enters maintenance for an update, and raises the recovery fence. Whether Wi-Fi is up
is an input of each step that samples it.

A completion token is renewed in two ways. `RenewCompletion` (`network.ino:414-420`, and the places
that begin or take back a transaction) clears `networkCompletionVerify`. `Settle`
(`network.ino:477-515`, a snapshot confirms or supersedes a legacy transaction) does not: the answer of a
verify that is still out is then ignored and its flag stays set until the next transaction begins.
`NobodyForgotten` names that one case, which `transaction` = "settled" tells apart; what follows from it
is the finding `completion_stuck` of section 4, which `GeneratorCompletion` models.

### WireSync

The server is external and takes a write if its epoch and revision are the ones of the row. A
fault may lose a request, lose its answer, delay it past the deadline (it may then still arrive,
also after a reboot, until the fence has consumed its revision), reject it, write the row from
outside, restart the server (a new epoch) or reboot the device.

### GeneratorCompletion

One stage is followed, from the one before to `Target`: `battery_max` or `repaired`. `setup` is
fixed at the start: the target, the protocols the server may have, what may go wrong and how often
(one run holds several setups). `tx` is the transaction of this boot, `journal` the flash record, `send` and `read` its requests, `late` what
the transport gave up but may still arrive. What may go wrong: power cuts, lost, late and refused requests, flash errors, a full queue,
staff writes, a restart or another protocol version of the server (counted as two), the offline
restart; re-plugging and the passing of time are free.

### BlackBoxRing

`headers` and `slots` are the flash, `ring` the index in memory, `job` the operation that the
writer is in, up to its next flash step. Between two flash steps nothing else happens, because
the writer is the only owner; the power may go between any two. A program may leave its place
written, torn or untouched, whether or not it reports an error; a failed erase may leave any part
of its area. An error that closes the ring is followed by the same `begin` as a power cut.

### IncidentOutbox

`incident` and `row` are the tables `incident_state` and `incident_outbox`; a row is an incident, a
channel and a version (1 alert, 2 follow-up, 3 evidence, 4 refresh with a reboot, 5 refresh at the
game's end). `cycle` is where the processing
loop stands, `worker` and `job` where the sending loop stands and what it holds, `lease` and
`authorized` what the one tells the other. `card`, `posts`, `replies` and `page` are what people see.
Every transaction and every call of a service is a step; a call may be refused, limited, lost before
or after its effect; the process may die at any step; a person may delete the card. `ended` is what
`session_times` has of the game's end: the complete snapshot that tells it, a stale one included, also
refreshes an announced incident (`Timed`), so that the card is rendered once more (`_session_times`). A
snapshot that a step of the clock put below the floor is skipped (`ProcessOther`). `scenario` is fixed
at the start: one device told on both channels, a silence and the reboot that explains it on Slack, or
a reboot alone on both.

### EvidenceJournal, BlackBoxIngest, ClockProbe

In `EvidenceJournal` the importer, the incident worker and the retention job are three program
counters over the tables; a poll and a sweep keep what they read at their start (`poll`, `job`).
The job's connection commits each statement by itself, so that each of the two marks, the watermark and
the day of a full scan is a step of its own, with a poll or a kill possible between any two.
`pruned` and `overdue` are history. In `BlackBoxIngest`, `session` is the batch the device has sent,
`queue` and `worker` the collector's, and messages may be repeated, reordered and lost. In
`ClockProbe` the PC's wall clock is the time plus an offset that steps, the device counts from its
boot; `PlacedRight` compares the interval `align_event` returns with the time of the record.

### UdpReceiver, ServerTail, GeneratorWatch

`UdpReceiver` has two places for receivers, the present one and the one before; the reader, the
consumer, the watcher that replaces a receiver and the stop of the runtime are its threads.
`ServerTail` follows `states` (offset, start of the pending line, discarding), the turn over the
newest files and the budget of rows; a file may be made anew, a save may fail, the process may
restart. `GeneratorWatch` keeps what is true (`down`, `stalled`, `dark`) beside what was read. A restart
of the game server takes a unit of time, so that no two of its boots log at one time. Its silence is
told by the code's own clock, the newest line read, so `OnlyTheDown` compares the moment of the report on
that clock with the device's last moment of being down.

### ReleaseArchive, UsbUpload

A job of `ReleaseArchive` goes through the calls of the script, each of which may fail, lose its
answer, or be the last one; an edit may change the tree between any two. `Check`, `Recheck`, `Confirm`
and `Settle` are the script's comparisons. The pointer is two files. In `UsbUpload`, `at` is what hangs
on the bus and `page` the release as it is at each look; `run` is the script.

### BeetleOta

`ttgo` holds the flags of `beetle_ota.ino`, `peer` the `BeetleOtaPeer` of the board in hand, `saved` the
TTGO's record, `beetle` the two boards: the running and the selected image, the stored and the last
record, the worker task, what it told the loop. Lines are queues; a line may be lost. The TTGO reads
lines all along, also inside blocking calls. `restarted` and `unstored` are history.

### OfflineRecovery

`history` and `updates` are the two structures in RTC memory, `run` is what a reset loses: the fields of
`Policy` as ages, the maintenance under way, the cause of the last reset until `Begin` looks at it. A
turn of `GeneratorNetworkLoop` is one of `OwnRestart`, `BackInTime` (the link was back behind the fence)
and `Turn`. The link flips at will, also within a unit; a reset of any cause may come at any moment,
also before `Begin` has read what the previous one left. `past` holds the distances between restarts,
the attempts since the operator's order was seen, and how long the device has been cut off.

## 3. Runs

TLC checks these with two workers, each within five minutes.

| Run | Instance | Shows |
|---|---|---|
| `wire_vote` | 2 pins, window 4, 3 votes, 3 resets | `IndInv` (the invariant of the proofs), `NoForeignSample`, `FlipNeedsEvidence`, the refinement `VerdictSpec`, and `SettlesOnPlugged` |
| `network_queue` | 3 slots, kinds Refresh, Tag, Wire, Completion, Verify, 3 requests, 2 epochs | `WithdrawnNeverSent`; `QueueExact`: slots and answers stay together, a request is sent once and is marked so, the fence is quiet; `NobodyForgotten`: who waits has a request on its way, but for the verify of a transaction that a snapshot settled |
| `network_queue_heartbeat` | 5 slots, kinds Poll, Verify, Report, 5 requests | `HeartbeatServed`: always admitted, overtaken three times at most |
| `wire_sync` | counts 0 and 1, 3 revisions, 2 faults | `CountsBound`: nothing older is written behind the fence, a completion is for this count; `CountReported` |
| `completion` | two setups: repaired on protocol 1 with 3 faults; battery_max on both protocols with 4, no power cut | `IntentHeld` (with `TokenNotSpent`), `NoFalseSuccess`, `EffectOnce` |
| `generator_live` | completion of battery_max, protocol 1, 3 faults; queue: 3 slots, kinds Poll and Tag (a poll queues a Refresh), 3 requests, 2 epochs | `IntentSettles`, `FaultRecovers`; `ReadsAnswered` |
| `device_flash` | ring: 2 sectors of 2 records, blocks of 4, 7 sequences, 2 faults; update: 1 order, 1 attempt, 1 event | `Reopens`, `SequenceFresh`, `NothingForgotten`, `RingDelivered`; `SequenceEnds` |
| `outbox` | three scenarios, backlog 1, 2 attempts, 2 faults | `SaidOnce`, `AnnouncedIsTrue`, `AlertsCaughtUp` |
| `event_paths` | outbox (1 channel, 1 fault), journal, ingest, receiver, watch, tail | `FollowedUp`, `Imported`, `AckedIsKept`, `IngestDrains`, `FinishedIsOver`, `ReceivesAgain`, `BlamesRight`, `EachLineStored` |
| `watch_and_release` | journal, clock, archive, upload, update, restarts | `SweptClean`, `DeletedForGood`, `PlacedRight`, `Archived`, `OnlyFresh`, `BeetlesSafe`, `RestartsRationed` |
| `completion_stuck`, `incident_card` | see section 4 | violations |

A run of several parts (`generator_live`, `device_flash`, `event_paths`, `watch_and_release`) puts independent modules
side by side: `which` is chosen at the start, the chosen part moves, the others stay in one initial
state. The parts share no variable, so a property of one is checked over exactly its own behaviours.
TLC's coverage of such a run names only the choice of the part (`LiveNext`, `FlashNext`, `PathsNext`,
`ChoiceNext`); with each part alone, at the same bounds, every action of it is taken (those of the two parts of
`generator_live` by the runs `network_queue`, `network_queue_heartbeat` and `completion`). The type invariant of a module is part of one of its properties: of `IndInv`,
`QueueExact`, `CountsBound`, `IntentHeld`, `Reopens`, `SaidOnce`, `SweptClean`, of
`FinishedIsOver` (the receiver's), `BlamesRight` (the watch's), `EachLineStored` (the tail's), and of each
property of `WatchAndRelease`; that of `BlackBoxIngest` is proved (`TypeOKHolds`).
`BlamesRight` is `OnlyTheDown` (nobody who kept sending is blamed) and `NobodyMissed`; `Archived` is
`Pinned` and `Pointed`; `DeletedForGood` is `UnreadStays` and `StaysPruned`; `BeetlesSafe` is
`BeetlesFirst` and `ReleasedIsQuiet`; `RestartsRationed` is `NoStorm` (two restarts for the link are far
apart, however it flaps), `UpdatesRationed` and `NeverGivesUp` (who is cut off restarts in the end, stated
as a bound since the loop turns in each unit).

Why the bounds are enough for the cases that matter:

* `WireVote`. Window 4 and 3 votes keep the relation of the code's 10 and 8
  (2*Required - Window >= 2), the ring wraps, and three resets include one in each step of the
  sampler. The theorems remove the bound.
* `NetworkQueue`. Three slots are the worker's, the mailbox's and a queued one; two epochs tell an
  old request from a new one; a snapshot, a completion and a verify are the three requests by which a
  transaction is settled under its verify. The heartbeat rule compares with three, so five requests are one
  more than it needs. `urgentRun` is kept at three or below, which is the behaviour of the code
  below its wrap after 2^32 requests.
* `WireSync`. Two counts are a right one and a wrong one; the late write of an old boot, its fence
  and the write after it need three revisions, and the run includes the refusal at the last one.
  Two faults are a lost write and one more event.
* `GeneratorCompletion`. Counts 3 and 4 are below and at the required four. `Room` keeps one
  revision free for the completion; bounds on epochs count the games. Three faults are a save
  that fails, a message that is late and a power cut; the legacy setup takes four since a change of
  the protocol costs two.
* `BlackBoxRing`. Two sectors of two are the smallest ring in which a sector holds a loss marker
  and a record; the headers' journal rolls over after two checkpoints; seven sequences roll the
  ring once, recycle it, and meet the clamp of the last reservation (blocks of 4: 1, 5, 7, as 64
  meets 2^32 - 1). `CHECK_DEADLOCK FALSE`: a partition whose first formatting was cut stays closed
  for good, which is intended (it may be foreign data).

* `IncidentOutbox`. One incident is enough for the hazards between two loops, two for the reboot
  that explains a silence (on Slack, where the note shows; with Notion beside it the space is too large,
  and the theorems cover it); a backlog of one row separates a caught-up cycle from one that is not; two
  attempts are the last one and one before it (the code: 12); two faults are a lost answer and a crash.
* `EvidenceJournal`. Two records, one of which is kept for long and one not; three or four days with
  one full day and two of evidence, so that a record passes each border of retention; one record a
  page. The liveness instance has no windows (the importer does not read them) and one crash.
* `BlackBoxIngest`. Two sequences, two tokens, a queue of one: a repeated, a late and a wrong batch.
* `ClockProbe`. Six units of time, wrap at four, one step of the clock, two boots, a delay of three.
* `UdpReceiver`. A queue of two; both kinds. Two places suffice, for a receiver is only replaced when
  its threads have ended.
* `ServerTail`. Three files of which two are watched, a line longer than the limit, reads of four
  bytes that cut lines, two rows a poll, one fault.
* `GeneratorWatch`. Two watched generators (the least group), one that always runs, thirteen units
  with a silence of eight, two events (failures, stalls, games, restarts); the group's window and the pause are reached.
* `ReleaseArchive`. Two commits of one version and one of the next, two builds, three jobs, two
  faults. `UsbUpload`: three units, one without a serial number, two addresses, two boards.
* `BeetleOta`. In `watch_and_release` two orders, one that updates and one that is a no-op for a board,
  two attempts; one event of the world (a restart of any board, a lost line, a failed download or
  write, a withdrawn or replaced order), while time-outs are free, so that an attempt is given up and
  made again at any point without one. One command at a time is on its way, and a Beetle's answers are
  read before its next command: a bound on the length of the lines. `device_flash` takes one
  order and one attempt, because liveness costs more.
* `OfflineRecovery`. The four delays keep their order (1, 2, 3, 4 for 30, 180, 300 and 900 s and more) and a
  time of health may end between the second and the third; two attempts (the code: 3) are the last one
  and one before it; two orders or resets for other reasons.

`CHECK_DEADLOCK FALSE` in the three runs of several parts: a partition whose first formatting was cut
stays closed for good, which is intended (it may be foreign data), and a bounded part ends, at its
last day, line, job or board. The `outbox` keeps the deadlock check.

No symmetry is used, because most runs check liveness or action properties. Every action and every
disjunct of the next-state relations is taken in a passing run. For each property, `PROJECT.json`
names a mutant, a plausible mistake in one definition, that the run then finds.

### Fairness

* `WireVote`: the sampler is a task that runs every 100 ms and time passes (weak fairness of its
  steps). `SettlesOnPlugged` assumes that wires, resets and the enable flag rest from some time on.
* `NetworkQueue`: both tasks loop for ever and the transport ends every call at its deadline.
  The worker has strong fairness because the fence, up for a few instructions thirty seconds
  apart, cannot be up each time the worker looks. Nothing is assumed of Wi-Fi.
* `WireSync`: the loop, the worker and the server's answers have weak fairness; discards,
  deliveries and refreshes strong fairness, since each can be disabled again and again by a poll or
  by the other task yet is offered every loop. Faults have none, and are bounded.
* `GeneratorCompletion`: worker, answers, the services (a verify every 5 s, the journal read, the
  protocol probe) weak; the full snapshot strong: a poll delivers one whenever it is not overtaken.
* `BlackBoxRing`: flash steps and probes weak, snapshot and acknowledgement strong (an event may
  take the writer first, again and again, but the loop asks for them before it takes the next
  event); the collector is there.
* `IncidentOutbox`: both loops run (weak). Strong fairness of what is enabled on and off: a complete
  snapshot is sent and read, the lease of thirty seconds outlives a cycle, and `claim()`, which takes
  the oldest row, comes to each of them.
* `EvidenceJournal`: the importer polls (weak); retention, incident worker and operator need not.
* `BlackBoxIngest`, `ServerTail`: the worker's, the tailer's thread runs (weak).
* `UdpReceiver`: every thread runs (weak; a reader that has nothing to receive need not end unless
  it was stopped); a bind that is tried again and again succeeds some day (strong).
* `BeetleOta`: the loops and tasks of all boards run, the commands are repeated, the server can be
  reached (weak). Nobody has to poll the row, and nothing is assumed of the operator.
* `ClockProbe`, `GeneratorWatch`, `ReleaseArchive`, `UsbUpload`, `OfflineRecovery`: none, only safety is checked.

## 4. Findings

* **`completion_stuck`** (`network.ino:810`). A legacy transaction that its cycle's reset leaves
  behind keeps `networkCompletionSent`, or a `networkCompletionVerify` whose answer nobody owns.
  `NetworkCompletionFaultService` stands back while either is set, so if the next, conditional,
  completion meets a flash error, the journal is never recovered and completions stay blocked until
  a reboot. `COMPLETION_RECOVERY.md:81-82` promises an attempt every five seconds.
* **`incident_card`** (`incidents.py:659`). The edit of the session card that announces an incident takes
  effect but its answer is lost; before the next attempt the incident ends, and `finish()` cancels the
  alert instead of trying again. A canceled alert has no follow-up, so the card goes on listing the
  incident as open. That lasts until another incident of the session edits the card, or until the game
  ends and `_session_times` (`incidents.py:393-410`) has it rendered again. The comment at `incidents.py:682-683` says that only what was announced is listed, so
  that the card cannot become stale.

Each run's counterexample is the shortest TLC finds. Other statements of the code's comments and
documents were refuted by the models on the way and have no run of their own any more:

* `network.ino:880`: staff set a repaired generator back in the same game, the players repair it
  again, and `GeneratorNetworkComplete` says done from the old confirmation without asking the server;
  `network.ino:892` says the path is decided per accomplishment.
* `network.ino:884`: on an older server, after the device adopts the context of a server that was
  restarted, it begins a second plain Send although the first one's outcome is uncertain;
  `network.ino:450-451` and `COMPLETION_RECOVERY.md:29-30` say that an uncertain one is not repeated.
* `BlackBoxRing.h:191`: after an erase of the oldest sector that failed part way, new records go into
  its erased slots next to an old one; the next roll picks the sector for the old record and erases
  the newest as well. `README.md:11` of the library says that it recycles the oldest.
* `archive_iotglove_release.py:222-223` says that an interrupted upload to a draft is resumable; an upload
  that stops half way leaves an asset whose state is not "uploaded", and lines 257-258 then refuse every
  later run until somebody deletes it.
* `retention.py:325` says that a racing import already skips pruned records. A poll that read the floors
  before the job wrote them brings a deleted record back (`EvidenceJournal`, `NeverBack`). The two floors
  are written by an `executemany` on a connection in autocommit mode (line 128), so a poll may also read
  between them, and it then brings back a record of a lasting kind that the first sweep deletes.
  `StaysPruned` is what does hold.
* `incidents.py:430` says that a reboot is only noted on an outage that is or will be announced. An alert
  that was still pending may be canceled later, and the reboot is then told nowhere (`RebootTold`).

Limits that the models show, and that the documents do not deny:

* a legacy Send that a power cut makes late may be performed twice (the design accepts it), and nothing
  of a legacy transaction is stored (`network.ino:1015`); the gate of `wire.ino:159` may be open for the
  moment in which a replugged count equals an old acknowledgement; `urgentRun` wraps after 2^32 requests
  (`network.ino:212`);
* a black box at its very last sequence sends some batches again without end; a probe is not made
  again after a pause in the instant the writer took its guard (`HAS1BlackBox.cpp:277`), and replayed
  evidence is numbered outside `producerMux` (673);
* running an older release job again moves the channel pointer back, as nothing compares versions there;
* the USB upload takes a board by its address after looking at it once (985-988), a board that
  re-enumerates by itself counts as absent for a moment (323-325), and two boards with one serial
  number count as one;
* if the server stalls between the start of the collector and the first request it reads,
  `generator_watch` cannot tell the stall from silence;
* maintenance that began more than ten seconds ago ends on the first look that finds no link
  (`network.ino:1127`; its log and `NETWORK_ISOLATION.md:67-68` speak of ten seconds without one), and the
  state "github", already seen, does not start it again;
* `ClearGithubOtaState` reads the row and then writes "setting" (`beetle_ota.ino:468-476`), so an
  operator's command in between is overwritten, against its comment; an order that is withdrawn and
  issued again between two polls is not seen as new; one time-out of the health probe ends the
  sequence without a retry; and a coordinator that restarts while a Beetle writes its flash opens the
  door at its boot, which `ReleasedIsQuiet` excludes, as it excludes a record that failed to be stored.

## 5. Proofs

Eight modules, each `<module>_proofs`, prove properties that a run checks on a small instance for
every value of the constants that the assumption of the component allows; `EventPaths_proofs` and
`WatchAndRelease_proofs` do so for several components that share no variable. Each has the same plan: the
properties are not inductive alone, so an invariant `IndInv` adds what they rest on; `InitIndInv` shows
it of the initial states, one lemma for each action (and, in the larger ones, for each part the action
can disturb) shows that a step keeps it, `NextIndInv` combines them, and a temporal step gives
`Spec => []IndInv`, from which the properties follow. TLC has checked each invariant first.
A step that leaves the variables of a part alone is dealt with once for the part, by a frame lemma.

| Module | Theorems | For every |
|---|---|---|
| `WireVote_proofs` | `IndInvHolds`, `TypeCorrect`, `NoForeignSampleHolds`, `VotesRememberHolds`, `VerdictFromFullWindowHolds`, `FlipNeedsEvidenceHolds` (an action property), `VoteImplementsVerdict` (the refinement) | set of pins, window and threshold with `2 * Required - Window >= 2`, number of resets |
| `NetworkQueue_proofs` | `IndInvHolds`, `WithdrawnNeverSentHolds`, `QueueExactHolds`, `NobodyForgottenHolds`, `HeartbeatServedHolds` | number of slots from three, set of kinds, number of requests and epochs |
| `WireSync_proofs` | `IndInvHolds`, `CountsBoundHolds` | set of counts, number of revisions and faults |
| `GeneratorCompletion_proofs` | `DeviceInvHolds`, `JournalHeldHolds`, `HistoryInvHolds`, `IntentHeldHolds`, `EffectOnceHolds`, `NoFalseSuccessHolds` | setup, counts, revisions and number of faults; the last three under a hypothesis, see below |
| `BlackBoxRing_proofs` | `IndInvHolds`, `ReopensHolds`, `SequenceFreshHolds` (an action property), `NothingForgottenHolds` | size of ring, sector, block and batch, last sequence, number of faults |
| `IncidentOutbox_proofs` | `IndInvHolds`, `SaidOnceHolds`, `AlertsCaughtUpHolds` (an action property), `TrueInvHolds`, `AnnouncedIsTrueHolds` | scenario, backlog, number of attempts and faults |
| `EventPaths_proofs`: ingest | `IndInvHolds`, `AckedIsKeptHolds`, `TypeOKHolds` | length of log, batch and queue, set of tokens, number of faults |
| receiver | `ReceiverInvHolds`, `FinishedIsOverHolds` | size of the queue |
| watch | `WatchInvHolds`, `BlamesRightHolds` | devices, silence, pause, group, number of events, under `WatchAssumption` |
| `WatchAndRelease_proofs`: journal | `IndInvHolds`, `SweptCleanHolds`, `DeletedForGoodHolds` (an action property) | set of records, days, lengths of retention, page and number of crashes |
| USB upload | `UploadInvHolds`, `OnlyFreshHolds` | units, addresses, baseline, polls, editions of the page |
| restarts | `RecoveryInvHolds`, `RestartsRationedHolds` | delays that grow, attempts, orders and resets, under `RecoveryAssumption` |
| release archive | `ArchiveInvHolds`, `ArchivedHolds` | commits and their versions, builds, number of jobs and faults |
| clock probe | `ClockInvHolds`, `PlacedRightHolds` | wrap, guard, interval, drift, numbers of records, boots and units of time, under `ClockAssumption` |
| board update | `BeetleInvHolds`, `BeetlesSafeHolds` | orders, versions, attempts, length of the lines, number of events |

**The vote.** `IndInv` adds: `SamplerBehind` (the sampler's copy of the generation is not ahead of the
generation in which it read the pins, which is not ahead of the vote's: equal copies at the commit mean
a reading of this cycle), `RingFilled` (until the ring is full the next slot is the number of samples,
which links the index, the count and the history of each slot), and `VerdictRecorded` (the history
agrees with the published count). The two pigeonhole arguments, that a window of unchanged samples keeps
a verdict and that two verdicts are at least `Evidence` samples apart, rest on `VotesMoveByOne`: one
sample moves the votes of a pin by at most one.

**The queue.** The worker's program counter says whose slot is held, the mailbox who has an answer,
and the main task's program counter what is withdrawn so far. `SlotHeld`, `Phases`, `Dispatched`,
`Payloads` and `ReplyBelongs` tie them to the slots: from the pick to the callback an active slot holds
the request that the worker, the mailbox or the callback names. `IdsFresh` keeps the numbers of requests
apart. `Withdrawals` is what `WithdrawnNeverSent` needs: a request that was withdrawn before it was
dispatched is cancelled, or carries an old token or generation, so the check at the boundary stops it.
`OneHeartbeat` and `SlotKept` show that `NetworkSubmit` finds a slot for the heartbeat, and `RunCounted`
that `urgentRun` counts what overtook it. `NobodyForgotten` is inductive with these: a step takes a
request from the owner that waits for it only with the flag of that owner (`WaitsKept`), but for
`Settle`, which leaves the flag of a verify; the transaction then stays settled until the step that
clears the flag (`SettledStays`).

**The synchronisation.** `RowsGenuine` says that each row the device was told was the server's once,
and is the present one to the letter if it has its epoch and revision; `WriteClosesPast` that a write the
server confirmed has moved the row beyond every lost write; `FenceClosed` that without the fence no write
is out and a lost one is of the past, so the server refuses it. `VoteCounts` takes of the vote what
`WireVerdict` promises, which is what `VoteImplementsVerdict` shows of the real one.

**The completion.** Four invariants, each on top of the one before. `DeviceInv` (`FlashHeld`,
`RequestsOwned`, `Attempts`) is about the device alone: what is in flash belongs to the transaction,
each request has one owner; it gives `JournalHeld` (an open completion is in flash before it is sent).
`HistoryInv` is about what the device was told: the last context is an older row or the row
(`ContextOld`), the row is at the target just when the server performed the completion (`StageEarned`),
and an answer that may confirm a transaction is true (`AnswersTrue`). Both hold on any server, with any
faults. `ProtocolInv` says that an intent in flash is for the next revision of the row or for the one
that performed it, and `EffectInv` that a server that compares performs at most once, while an older one is
sent a plain `Send` only as long as none may be out (`SendsPlain`, `OutKnown`).

The last two need hypotheses on the setup, which is fixed at the start. `IntentHeldHolds` assumes
`OneProtocol`: the server has one protocol, or is neither restarted nor replaced. `EffectOnceHolds` and
`NoFalseSuccessHolds` assume `Steady`: a server of protocol 1 with any faults at all, or one of either
protocol that keeps it and a device that keeps its power. They are not for convenience: an older server
applies a duplicate of a plain `Send` (`network.ino:450-451`) and a power cut forgets one
(`network.ino:1015`), so without them the statements are false once there may be faults enough. TLC
checks the setup in between, both protocols that alternate with four faults.

**The ring.** `HeadersOrdered` and `FlashBlank` describe the journal of headers and what is erased,
`RecordsKnown` bounds every record on the flash by the reservation of the newest header, `RingLoaded`
ties the index in memory to the flash while the ring is open, and `JobSound` says that what an
operation in progress needs is still so when its next flash step comes. `Reopens` then follows from a lemma
on `begin` alone: the header it chooses bounds what it finds, whatever step was cut. `BatchWhole` is the
uploader's part of `NothingForgotten`: up to the end of a batch nothing that must be kept is left out of it.

**The ingest.** `BytesKnown` and `SessionWhole` say that a batch on its way holds what the log holds,
whole; `TokensExact` that a token stands for one batch at every place where it may be repeated;
`SavedFirst` that an answer "saved" is only about rows that the table has, so `AckedIsKept` is kept.

**The receiver.** The two threads of a receiver end one behind the other (`ThreadsInOrder`), what was
replaced is over before its place is taken (`ReplacedIsOver`), and the runtime stops a receiver only when
the watcher is gone (`StoppedLast`): so no receiver is made behind the stop.

**The watch.** `OnlyTheDown` speaks of reports, which are made of what was read, and of who was down, which
nobody reads. `OwnLine` bridges them: for a device that was up, and whose silence no pause, restart or
failure explains (`Unheard`), a line of its own is among those still to be read whenever another device's
is; `SoonHeard` says that this line came within a pause of what explained the silence before. Lines are
at most `Late` out of order, so it is read before the silence is that long. `BootsApart` and `BootKnown`
tell a line of an earlier boot, read late, from a restart; `SnapshotOnly` covers the time in which the
boot is known from a snapshot and no line has been read. `NobodyMissed` rests on `WhileDark` (while a device
is down its gap grows with the clock, since neither its own lines nor anything else that is measured from
is newer) and `SilentIsOut` (after each line, whoever is silent too long is in an outage). The last needs a
lemma about `Groups`: a group has a member that is silent for the whole time and none that is far
from it, and nobody silent is left out. `WatchAssumption` says that lines are late by less than the pause
(5 s), and that both together are less than half of the silence (20 s); a line that is later than a pause
is taken for none. That no device is watched both in games and always is what the constructor checks.
Trying to prove the property corrected the model twice: a restart of the server took no time, so that two
boots could log at one moment, and the property compared with the world's time instead of the log's, which
is wrong from four events on, more than the run's bound has.

**Journal and retention.** `PollShape` and `JobShape` tie what a poll and a job read at their start to the
tables they meet later, after other transactions; `MarksBehind` says that neither mark is ahead of its day
(a kill between their two commits leaves them of different days) and that each deleted record lies behind
the mark that covers its kind. `SweepInv` is the
argument: what the windows keep is kept on both sides (`WindowsHeld`), and each finished part of a sweep
leaves nothing below its mark (`ExpiredSwept`, `ClassifiedSwept`, `Clean`) but what came or was released later.

**Incidents.** `SendingHeld` says that the row in the sending loop's hands is the one marked "sending";
`Placed` and `Linked` tie what people see to the row that says it; `PostsSealed`, `RepliesSealed` and
`PagesSealed` that what took effect belongs to a row that is not sent again, or whose result is being
stored; `AttemptsLeft` that a row which may be claimed has an attempt left; `CaughtUp` that deliveries are
allowed only when the backlog of the cycle has been read.

`AnnouncedIsTrue` needs a second invariant, `TrueInv`, on top of the first. `AllTrue` says that the rows
agree with the incidents: an alert tells how its incident stands, or it has ended since; a follow-up how
it ended; a refresh that a reboot was noted, and one at the game's end only that there was an alert. `ToldTrue` is the property with its debts: what was announced
is shown as it stands, or a follow-up or refresh waits (or waits for a person), or the worker carries
one whose effect is still to come. `ViewTrue`, `PayloadTrue` and `WrittenTrue` follow what the worker
carries from the reading of the payload to `finish()`: it is true, or a row is owed, or the incident of the
alert in flight has changed since, which `finish()` looks at. Two relations between tables carry the
proof: `Fills` (rows were inserted, and say how things stand; it is transitive, so `_queue` and
`_refresh` compose) and `Tells` (each change of something announced inserts the row that tells it), shown
for every transaction of `_process_loop`; `FinishedSettles` does the same for `finish()`. The mutant
of `Finished` that does not look at the incident breaks just that lemma.

**The USB upload.** From the first poll on the files in hand are the reviewed ones (`OnlyReviewed`); an
address in hand was free when the script looked, so its unit was unplugged since the start (`NewIsLoose`)
and stays where it was chosen until it is written (`ChosenStays`); what was written is on the list of
those done (`WrittenOnce`), which keeps a numbered unit from being taken twice.

**The restarts.** `Spaced` bounds the outage by the time since the last restart and a chain of restarts by
the count that survives them, unless it is at its end, where the delays no longer grow; `Rationed` says that
each attempt at an update is in the count in RTC memory; `CutOff` bounds the time without link by what is
due and by what blocks it, so a device restarts in the end. `RecoveryAssumption` is the order of the
code's delays.

**The release archive.** `Compiled` says that a job has compiled nothing newer than the tree and, once the
commit is verified, that commit's source; `Seen` what it knows of its own release, which no other job
changes; `ChannelPoints` that whatever part of a pointer is in the channel, or in a board's hands, names a
public archive with that image, although its two files change one after the other.

**The board update.** `TaskHonest` says that a Beetle's task answers for the record in its hand and that a
switched partition is followed by its restart; `LineHonest` that a line which says that an attempt is over
says it of the last request, of a board at rest, with the version that runs; `InOrder` and `Sorted` that
commands arrive in the order of their requests, so that behind an answer no older command is on its way.
With them what the TTGO knows of the board in hand (`PeerKnows`) is so; the boards it is done with have the
ordered version and rest (`BoardsBehind`), and nobody else works (`OthersRest`), through the `Phases` of an
order and the restarts of each board. `unstored` and `restarted` are the two histories in which
`ReleasedIsQuiet` is not claimed, see section 4.

**The clock probe.** The model keeps when the device booted last, and neither it nor the code keeps the
boots before, so `ClockInv` says that there are times of the boots such that all the rest is true of them
(`Boots`): a record holds the low bits of its uptime (`RecordsTrue`); the records a coverage names are of
one boot and one round of the counter (`CoverTrue`), that of the device and those sent alike; an answer was
given at some time after its challenge, by the clock of its boot (`RepliesTrue`); that time, with the
offset of the PC's clock, is within the anchor (`AnchorsTrue`). A reboot makes the sequence of boots longer,
every other step keeps it. `DriftBound` is the arithmetic: two rounded uptimes differ by what the
times differ by, up to the growth that `Anchor.interval` allows for and one unit, which is why an anchor must
hold its time strictly. `OffsetsKnown` says which offsets a challenge and its answer can have been read with.
The theorem needs `ClockAssumption`, which says when the statement is true: with two steps that cancel
between a challenge and its answer, the check of `receive` (`clock_probe.py:55-58`) sees nothing, and the
answer may have been given between them, so the clock is set once at most; and with one step back by exactly
the guard the anchor ends just at its time, and the rounding of the uptimes, which the code's fractions have
not, may take the record out of it. The run takes one step, by -2 or 1, with a guard of 1.

Of safety, only the types of `ServerTail` are model-checked and not proved (with `EachLineStored`, a
liveness property, the one property of that module).
Outside the prover: ENABLED; induction over data; and all liveness: `SettlesOnPlugged`, `ReadsAnswered`,
`CountReported`, `IntentSettles`, `FaultRecovers`, `RingDelivered`, `SequenceEnds`, `FollowedUp`, `Imported`,
`IngestDrains`, `ReceivesAgain`, `EachLineStored`.

## 6. What is not modelled

Byte-level code (HTTP parsing, MQTT, record encoding and CRC, PN532, SPIFFS detection), displays,
sounds, lights, serial text, the vendored DFPlayer driver, the declarative ESPHome relay, the one-shot
programs of the logger (installation, service, export, the files of an incident) and the build, signing
and deployment scripts (`HAS1_duct/scripts/upload.py` is one straight check and upload): no control that a
property would be about. Presentation, timing in milliseconds and back-off times are abstracted: any
delay is possible. Within the modules:

* `WireSync`: the staff override of the gate, a change of the device's name or required maximum, the
  pause while a completion is pending;
* `GeneratorCompletion`: one stage and one device; the context is confirmed in one step; an intent of
  another device, maintenance;
* `BlackBoxRing`, `BlackBoxIngest`: the session tokens on the device and its pause of flash work, the evidence
  in RTC memory, the core dump task, the connection states of the broker;
* `OfflineRecovery`: the poll schedule, the jitter, the wrap of `millis()`, a worker that was not created;
* `IncidentOutbox`: a build of evidence that fails for good (about line 900), the times that a card shows (that
  the game's end edits the card is modelled), a game that resumes after its recorded end, the
  webhook as the only channel, the limits of one read of the journal;
* `EvidenceJournal`: one device; shrinking the database, the check for a step of the clock before a job;
* `ClockProbe`: the export, anchors measured by hand; `UdpReceiver`: the disk reserve; `ServerTail`: the
  limits of one poll and of a file, a directory that cannot be read;
* `GeneratorWatch`: the labels of reboots, the replay of a stored stream;
* `ReleaseArchive`: the channel's release is taken to exist and to be public; the other images of the
  partition table, redirects and paging; jobs of one channel come one after another, as
  `deploy-firmware.yml:47-49` says;
* `UsbUpload`: the chosen board stays plugged until it is written (an unplugged one fails in esptool);
* `BeetleOta`: orders for the coordinator alone, orders without version numbers and their look-up, orders
  that are refused before they begin, the numbers of the partitions.

The other components of section 1 are listed as `not_modelled` in `PROJECT.json`, with the reason.

## 7. Plan

Done: the vote, the queue, the synchronisation, the completion in both protocols, the ring of the black
box, the restarts; then the logger from the device's upload to Slack and Notion, the release archive and
both ways a tag machine gets its firmware; then the proofs of section 5, which state every safety property
the passing runs check. Next:

1. the service contract between modules as theorems: what `WireSync` and `GeneratorCompletion` take of the
   queue, stated as an abstract specification that `NetworkQueue` implements;
2. `BleBeacon`, `EscapeRecovery`, `GloveRecovery`, then contributions.

Abstract specifications worth stating on the way: a completion as a register that is set once
(implemented by the conditional protocol), the black box as a log with a window. The later
modules share the existing runs' budget of time, so small instances of related modules are to be
kept in one run where one specification can serve.
