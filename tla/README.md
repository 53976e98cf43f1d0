# BluetoothGD in TLA+

BluetoothGD is a Godot extension: a node, `BluetoothManager`, gives games access to the
Bluetooth of the operating system. This directory holds TLA+ models of its core, the TLC
configurations that check them on small instances, and proofs that TLAPS checks. Paths
below are those of the repository.

## The system

Two threads run every instance. Godot's **main thread** owns the node; a **worker thread**
owns the platform backend. They share two queues (commands down, events up), one atomic
flag and one mutex-protected "pending answer". On Linux the backend talks to `bluetoothd`
over D-Bus. On Windows it talks to WinRT, which adds threads: each `DeviceWatcher` of a scan
and each `PairingRequested` handler calls into the backend on a thread of Windows.

| component | state | operations | talks to |
|---|---|---|---|
| `ThreadSafeQueue` (`threading/thread_safe_queue.h`) | items, stop flag, mutex, condition variable | `push`, `try_pop`, `wait_pop` (with and without time-out), `stop`, `reset` | both threads |
| `WorkerThread` (`threading/worker_thread.cpp`) | the thread, `running`, two queues | `start`, `stop`, `thread_main`, `process_command` | the node (queues), the backend (calls) |
| `LinuxBackend` (`platform/linux/linux_backend.cpp`) | session flags, scan and its deadline, `DeviceCache` | initialize, shutdown, poll, scan, pair, connect, ... | `BluezDBus`, the event queue |
| `BluezDBus` (`bluez_dbus.cpp`) | a shared connection, matches | blocking calls, dispatch in `poll` | `bluetoothd` |
| `BluezPairingAgent`, `PairingPendingState` (`bluez_agent.cpp`, `backend/pairing_pending.h`) | the request being answered, the answer | handler of agent requests; `begin`, `wait`, `submit`, `reset` | `bluetoothd` (requests), the main thread (answers); the pending answer also serves the Windows backend |
| `DeviceCache`, `DeviceInfo` (`backend/device_cache.h`, `bluetooth_device_info.h`) | two tables of records, two indexes | upsert with merging, remove, lookups, each under the cache's mutex | either backend, on Windows from several threads |
| `BluetoothManager` (`bluetooth_manager.cpp`) | availability, radio, ready flag, a mirror of the device tables | `_ready`, `_process`, `_exit_tree`, the API, `handle_event` | the worker, the game (signals) |
| `WindowsBackend` (`platform/windows/`) | `scanning`, the watchers, `DeviceCache`, `HidGamepadCache`, the pending answer | the same commands; handlers of `Added`, `Updated`, `Removed` and `PairingRequested` on WinRT threads | WinRT, the event queue |
| `MacOSBackend` | none | `initialize` fails | - |

What is hard here, and what would be correct:

* **Queue**: notifications are sent outside the mutex, waits time out, `stop` races both.
  No item is lost or handed out twice; nobody sleeps on while an item waits; `stop`
  releases everybody.
* **Worker and session**: `_exit_tree` may come at any point of `thread_main`;
  `initialize` may fail half-way; a node may leave the tree and come back, with `_ready`
  or without. Never two threads, never a `std::thread` assigned over a live one, never a
  session left behind, `stop` always ends, and the game learns how every start ended.
* **Discovery**: `stop_scan`, the deadline and the end of the session may all end the same
  scan, and `bluetoothd` may refuse any request. Starts and stops alternate; a scan ends
  when asked.
* **Pairing**: the worker blocks inside `Device1.Pair` and inside the agent's handler;
  answers cross threads without a request id and may be late. A request for the user's
  consent is granted exactly if the last answer given *while it is pending* consents, which
  is as much as can be said: an answer meant for a prompt that has timed out counts for the
  request that is pending by then. What is only displayed, and agent methods the code does
  not know, need no consent. Each `pairing_started` gets one outcome; nothing blocks for ever.
* **Device lists**: replies overtake the signals queued in the connection; a device is
  known by its object path before it is known by its MAC, and its MAC may change; the node
  holds a second copy.
  One record per device, indexes that lead to it, both copies agreeing with `bluetoothd`
  once everything is delivered.
* **Windows lists**: every operation on the cache and every push of an event takes a lock of
  its own, so a handler may put back a copy of a record that is old by then; handlers outlive
  the scan that started them; an update may name no device the cache knows. The lists stay
  consistent, nothing that was learnt about a pairing is lost, no device is taken from the
  lists that is still there, and the scan signals tell what runs.
* **Windows pairing**: a handler looks once for an answer and does not wait; it may outlive
  its `PairAsync` and meet the handler of the next, the worker's `reset` and the user's answer
  in the one pending answer. A PIN is handed over only if the user gave it while that request
  was pending and has not taken it back; with two requests pending it may have been meant for
  the other.

The hazards are listed, each at its line, in `PROJECT.json`.

## Modules

| module | models | state and actions |
|---|---|---|
| `FifoQueue` | what a queue promises | a sequence and what each reader got; `Push`, `Pop`, `PopNothing`, `Reset` |
| `ThreadSafeQueue` | `thread_safe_queue.h` | one action per critical section; `pc` says where each thread is; a notification is a step of its own |
| `LinuxSession` | `initialize`, `shutdown`, `poll`, scanning, the snapshot of `linux_backend.cpp` | one operator per handler; every D-Bus request in `MayFail` may fail, with any error code that can be inferred from its text and matters to the node |
| `WorkerThread` | `worker_thread.cpp` | `worker` is the place in `thread_main`, `stop_pc` the place in `stop()` |
| `Lifecycle` | `bluetooth_manager.cpp` over the two above | tree notifications, API calls, `_process` |
| `Pairing` | pairing commands, agent, pending answer, `bluetoothd`'s side | `worker` is where the worker blocks; `said` and `own` are history variables |
| `DeviceRecords` | records and the upsert that cache and node both contain | pure operators |
| `DeviceLists` | `DeviceCache` and the node's lists, with the events between them | operators that say how one operation changes the tables and indexes |
| `DeviceRoster` | what a list of devices promises (abstract) | one set per device, with one record at most, under whatever name |
| `Devices` | on Linux: the three BlueZ signals and the commands on devices | one action per D-Bus request or signal; `job` says where inside a command the worker is; `mac` is the MAC `bluetoothd` has for each path; `nameless` and `readdressed` are history variables |
| `WindowsPairing` | `pair_device`, `handle_pairing_requested`, cancel and answers on Windows | one action per lock; `place` says where each handler is, `said` is a history variable |
| `WindowsDevices` | scans, watchers and the commands on devices on Windows | one action per lock; `task` is what each thread is busy with, `todo` the rest of the worker's command; `withdrawn` and `signalled` are history variables |
| `Histories` | what a queue of events leads its reader to | `Leads` and its lemmas, for the proofs |
| `MC*` | instances for TLC | |
| `*Proofs` | theorems | |

`Lifecycle` EXTENDS `WorkerThread`, which EXTENDS `LinuxSession`; `Devices` EXTENDS
`DeviceLists`, which EXTENDS `DeviceRecords`, and implements `DeviceRoster` twice, with the
cache and with the node's list: `Known` is the refinement mapping, which forgets under which
key a record is. `WindowsDevices` takes `DeviceLists` by INSTANCE,
with the ids of Windows for the object paths of BlueZ. The definition-to-line correspondence
is the `map` of `PROJECT.json`.
Operators whose comment starts with "Mutant" are not part of the models: each is a form
of the definition below it with a plausible bug, and the property that catches it is named
in `PROJECT.json`.

Granularity. In `ThreadSafeQueue` a step is a critical section. `FifoRefinement` proves
that the result behaves as an atomic FIFO queue, which is why the other modules use atomic
queues. The flag `command_queue.stop()` sets only cuts the 100 ms wait of an empty queue
short and leaves no trace there. In `Lifecycle` a backend handler is one step: while it
runs the two threads share only the queues and `running`, and the main thread's multi-step
operations (`_ready`, `stop`) are split where they touch those. In `Pairing` and `Devices`
the worker's blocking calls are split, because `bluetoothd` and the user act meanwhile.

In the two Windows modules a step is what happens under one lock. Coarser than the code
are, in `WindowsDevices`: the node handles an event when it is queued (the queue keeps their
order, and nothing flows back from the node's lists); a command is taken when it is given;
a handler's first look at the cache is one step with its call; `scanning` is read in the step
of the upsert whose event it decides on; the watchers of a scan start, and stop, in one step,
also when only some do; `finalize_pairing_success`, which enumerates up to six times until
the device turns up, enumerates once, any part of what there is.

External behaviour assumed: `dbus_connection_send_with_reply_and_block` hands no other
message to anybody while it waits, so a signal or agent request that arrives meanwhile is
dispatched by a later `poll` (`bluez_dbus.cpp:180` guards the same fact for the filter);
`dbus_bus_get` returns a connection shared by the process, so what is queued in it, and a
discovery whose `StopDiscovery` failed, outlive `disconnect()`; `bluetoothd` sends the
signals about a request's effect before the reply. A device found by a private MAC keeps its
object path when its identity is resolved, which a `PropertiesChanged` with `Address` tells
(`BluezResolves`); two devices never have a MAC in common; a device that comes back at a path
has the MAC of the path.

Of Windows: a watcher calls its handlers one at a time, `Added` for what matches its selector,
`Updated` for what it has added, `Removed` for what matches no more, which for the watchers for
unpaired devices includes a device that is paired; an update may carry the address, the
connection, both or neither; the id of an association endpoint is
`Bluetooth#Bluetooth<adapter>-<device>`; a HID gamepad is listed while its device is paired.
Which connection state Windows or the HID stack reports is any of `Reports`. That `PairAsync`
ends is assumed, for liveness only.

## Runs

All passing runs check the type invariant of their module unless it is said otherwise.

| run | instance | what it shows |
|---|---|---|
| `queue` | 2 pushers, a waiter with and one without time-out, a poller, 2 items, length 3 | `NoLostWakeup`, `StopReleases` (liveness), `ImplementsFifo` (refinement) |
| `lifecycle` | six requests may fail (below), 2 queued commands, API calls while no event is queued | `SpawnSafe`, `OneSession`, `ScanStopsPaired`, `ViewAgrees` (also when an error's code is inferred from its text), `ReadyNotStale`, and liveness: the node learns how every start ended, also when `bluetooth_ready` was emitted in an earlier session (`InitResolved`); every stop, every scan with a queued `STOP_SCAN` or a passed deadline ends |
| `pairing` | 2 agent requests of any kind, 1 queued command | `VerdictIsUsers`, `CeremonyAlternates`, `CeremonyEnds`, `WorkerComesBack` |
| `devices` | one device whose MAC may change, 1 signal in the connection, 1 queued event, 2 sessions | `OneRecord`, `PairedMirrors`, `IndexesAgree`, `ListsCurrent`, `ListsComplete` |
| `two_devices` | two devices with fixed MACs, 1 signal, 1 session (no type invariant: `devices` has it) | `OneRecord`, `IndexesAgree`, `ListsCurrent`, `ListsComplete` for two devices that share tables, signals and snapshots; `ImplementsRoster` (refinement) |
| `windows_pairing` | 2 `PairingRequested` handlers, 1 queued command, API calls while at most 1 event is queued | `PinIsUsers`, `CeremonyAlternates`, `CeremonyEnds` |
| `windows_devices` | one device and its HID gamepad, every command, both connection states, 2 stimuli (no type invariant: the next run has it) | `OneRecord`, `PairedMirrors`, `ScanSignalsTrue`, `PairingIsKept` |
| `windows_two_devices` | two devices, scans, 3 stimuli, devices interchangeable | `ListedUntilWithdrawn`, also when two devices share the record of the adapter's address |
| `pairing_prompt` | as `pairing` | the prompt for our own `Pair` is dispatched only after `Pair` has returned (`doc_classes/BluetoothManager.xml:59`) |
| `paired_is_current` | one device, 1 session | `Paired=false` never clears a record's `paired` (xml:89) |
| `windows_reject` | as `windows_pairing` | a request that the user has rejected in time is accepted (xml:140) |
| `paired_is_listed` | one device, scan and pair | pairing during a scan ends with the device in no list, since the watcher for unpaired devices calls it removed (xml:89) |

The last four end in a violation, which is the point of them: each states a sentence of
the class reference, and the trace shows the code doing otherwise.

### Bounds

* `MaxLen`, `MaxCommands`: a queue longer than the number of actors that may act between
  two of its pops shows nothing new; 2 commands are enough for a `STOP_SCAN` between or
  behind others and for a `SHUTDOWN` behind a command.
* `MaxEvents` bounds the queue when somebody *begins* something; handlers emit up to three
  events beyond it, so that queues of 2 to 4 events do occur. Nothing flows back from the
  node's lists to the worker's, so in `Devices` a longer queue only delays the node; there the
  first session alone has it, and the second, which asks what is left of the first, has 0.
* `MayFail` in `lifecycle` is `connect`, `read_adapters`, `set_powered`, `start_discovery`,
  `stop_discovery` and `device` (a command on a device). The others have the same effect as
  one of these (`register_agent` and `find_adapter` end `initialize` as `connect` does,
  `set_filter` ends `start_scan` as `start_discovery` does) or only add an error event
  (`enumerate`); the theorems hold for every `MayFail`.
* `MaxCalls` = 2: a late answer needs a request to be late for and one to be wrong for.
* `MaxSignals` counts the signals when `bluetoothd` acts or a command begins; commands add up
  to three, so that with 1 up to four are in the connection. One device with 2, in one session,
  was also explored to the end once (5.8 million states), with the same result.
* `MaxSessions` = 2: what survives a session meets the next one. `ListsCurrent` and
  `ListsComplete` are claimed of the first session only: while none runs no signal is
  heard, and a start drops the events that are queued, so the lists of a later session
  may be out of date until a device changes again; no document promises more.
* `MaxStimuli` counts the client's commands and the changes in Windows together. Two reach
  what the properties are about (a scan and a pairing, whose upserts, removals and events then
  interleave freely with those of two watchers), three a change of each of two devices within
  a scan. `Commands` leaves out what a run is not about: `windows_two_devices` has scans only.
  Two watchers stand for the four: those for LE have the same handlers.
* `windows_pairing`: 2 calls are one that is late and one it can be late for.
* One and two devices: the theorems about tables (below) and the way the actions are
  written (one path each, but for the enumeration) are why two suffice.

Deadlock is checked in every passing run except the two of `WindowsDevices`, where the
stimuli run out by design.

### Fairness

`FairSpec` of `ThreadSafeQueue`, `Lifecycle`, `Pairing` and `WindowsPairing` assumes weak fairness of what
the code's scheduling gives: a thread that can run does run (`Work`, `ContinueStop`,
`ReadyEnqueue`, `CancelEnqueue`, the steps inside `wait_pop`), Godot calls `_process` as
long as the node is in the tree, and the code's own time-outs (60 s in `Device1.Pair`, 60 s
in the agent) come. Nothing is assumed of the user, of `bluetoothd`, of the radio or of
spurious wake-ups. `DeadlineHonoured` has its condition in the formula: the deadline of a
scan is looked at only in `poll`, and commands that keep coming starve it. In
`WindowsPairing` the node's handling of an event is strongly fair, because it is disabled for
the length of a `cancel_pairing`; the handlers on Windows' threads are not fair at all, and
that `PairAsync` ends is part of `Work`. `WindowsDevices` states safety only.

## Proofs

For every value of the constants:

| theorem | states |
|---|---|
| `ThreadSafeQueueProofs!TypeCorrect`, `NoWakeupLost`, `FifoRefinement` | the queue is type correct, loses no wake-up, implements `FifoQueue` |
| `LifecycleProofs!TypeCorrect`, `SpawnIsSafe`, `SessionIsThreads`, `ReadyIsFresh` | `TypeOK`, `SpawnSafe`, `OneSession`, `ReadyNotStale` |
| `LifecycleProofs!ScansAreStoppedOnce`, `NodeKnows` | `ScanStopsPaired`, `ViewAgrees` |
| `PairingProofs!PairingTypeCorrect`, `VerdictIsTheUsers`, `CeremoniesAlternate` | `TypeOK`, `VerdictIsUsers`, `CeremonyAlternates` |
| `DevicesProofs!DevicesTypeCorrect`, `OneRecordEach`, `PairedListsMirror`, `IndexesLead` | `TypeOK`, `OneRecord`, `PairedMirrors`, `IndexesAgree` |
| `ListsProofs!ListsAreCurrent`, `ListsAreComplete` | `ListsCurrent`, `ListsComplete` |
| `ListsProofs!CacheIsCurrent` | `CacheCurrent`: what `ListsCurrent` and `ListsComplete` say of the cache, whenever no signal is in flight, events queued or not |
| `ListsProofs!ListsAreRosters` | `ImplementsRoster` |
| `WindowsPairingProofs!WindowsPairingTypeCorrect`, `PinIsTheUsers`, `CeremoniesAlternate` | `TypeOK`, `PinIsUsers`, `CeremonyAlternates` |
| `WindowsDevicesProofs!WindowsDevicesTypeCorrect`, `OneRecordOnWindows`, `PairedMirrorsOnWindows`, `SignalsAreTrue`, `PairingIsNotLost`, `DevicesStayListed` | `TypeOK`, `OneRecord`, `PairedMirrors`, `ScanSignalsTrue`, `PairingIsKept`, `ListedUntilWithdrawn` |

* `NoWakeupLost`: the invariant counts. With an item queued and a thread asleep there is
  at least one thread *attending* per item (about to notify, woken or timed out); the
  proof is arithmetic on cardinalities of finite sets.
* `FifoRefinement`: each step maps to a step of `FifoQueue` or a stutter; initial states to
  initial states. It needs only type correctness.
* `LifecycleProofs`: `IInv == TypeOK /\ OneSession /\ Handshake /\ Freshness`. `SpawnSafe` is
  not inductive: a `SHUTDOWN` in the queue could clear `running` with the thread alive.
  `Handshake` says that a `SHUTDOWN` is under way only while `stop()` is. `Freshness` says
  that an event which may announce the backend is queued in a running session only past
  this session's `initialize()`; `ReadyNotStale` follows from both.
* `PairingProofs`: `IInv == TypeOK /\ Made /\ Consent /\ VerdictIsUsers`. `Consent`: while a
  request is pending, the answer that crosses the threads is the last one the user gave since
  `begin()`, which forgot what was there; `Made`: what the pending request asks for does
  not change any more.
* `DevicesProofs`: first lemmas about one upsert of any set of records of different devices
  (`UpsertedTidy`, `UpsertedMirrors`, `CacheUpsertKeeps`), then one lemma per group of steps.
  An upsert keeps a table tidy because a record of the same device under another key is
  stale and goes. `IndexesAgree` also needs that no record without a MAC is ever given for
  a device whose MAC the cache has (`Fitting`): of the handlers only `PropertiesChanged`
  can give one, and it starts from the record that `find_by_device_id` finds (`UpdatedFits`).
  The entry that stays behind when a MAC changes leads to that device's path still. The history
  variable `readdressed` holds the devices this can concern; of every other device no record,
  signal, event or index entry ever gives a second MAC (`Plain`).
  `PairedMirrors` and tidiness together make a snapshot name each device once, which the
  node's side relies on.

* `Histories`: what a client hears is a path through a small graph, one edge for each event.
  `Leads(H, V, q, x, y)` says that the queue `q` can take a reader from `x` to `y`; it holds of
  the empty queue, is kept by taking the head when the reader moves along, and by an event
  at the end that leads on. The three proofs about event histories are inductive because
  they speak of the whole queue in this way:
  `Alternation` (both `CeremoniesAlternate`) says that the queued events lead the client from
  what it heard last to what the worker is doing, `ScanHeard` the same of the scan signals.
  `LeadsChange` carries a path over to another relation, when a step changes what all queued
  events mean to the reader; `LeastNumber` is what finding the last decisive event needs.
* The second part of `LifecycleProofs` extends its invariant by the node's view. `Told`: once
  the worker is past `initialize()`, the queued events lead (`Leads`, with `Learns`) the node
  from what it believes to the belief that is right: a radio that is off exactly if the adapter
  was found off or an error with the code RADIO_OFF was reported since (`off_reported`), and a
  backend that is ready or unavailable.
* `ListsProofs` follows one device whose MAC has not changed (`Steady`) through three places:
  `bluetoothd`, the cache and the node's list. `ListsInv == IInv /\ Untouched /\ (First => Agreement /\ JobTrue)`. `ListsCurrent` and
  `ListsComplete` speak only of the moments when nothing is under way, so what is inductive has
  to say what a queue that is not empty will do:
  * `Bus` relates cache and `bluetoothd`. The signals in the connection lead (`Leads`, with
    `Tells`) from a state of the device the cache may have heard of to the one it is in. The
    cache need not be in that first state, because the reply to a command overtakes the signals
    in front of it; but wherever its record differs, a signal that puts it right is still in
    flight: one that decides `connected` (`Deciding`), one that makes it paired (`Pairing`), one
    that adds or removes it (`Adding`, `Removing`). A record under the path alone can come from
    signals only, hence is never ahead of the first state.
  * `Told` relates node and cache. The queued events lead (`Leads`, with `Hears`) the node's
    pair of records to one that is `Settled`: as the cache's, but where a signal still in
    flight will tell. The node never drops a `connected` it has under the path (see below),
    which is why `Settled`, like the property, makes an exception once `nameless`.
  * `JobTrue`: what a command is about to tell, after the reply and on its strength, is so, or a
    signal in flight decides it.
  * `Untouched`: before the first session there is no record, so that `Agreement` begins true.

  Per step the proof is one lemma for `Bus` and one for `Told`, on one device; that a step says
  nothing of the others is `MergedPair` and `UpsertedTwo`: an upsert of any set of records of
  different devices changes each device's pair of records by its own record alone.
* `ListsAreRosters` needs the invariant of `DevicesProofs` only, and holds of every device, its
  MAC changing or not. A tidy table has one record of a device at most, wherever it is, and an
  upsert joins it with what it is given (`EntryMerged`), so an upsert is the step `Learn` of the
  devices it is about (`Learnt`), and a removal or a flag set by address concerns one device or none
  (`Forgotten`, `Amended`). `CacheSteps` and `NodeSteps` say that no step does anything else to
  the tables. That the cache never falls back from a MAC to a path (`KeepNames`) is `Fitting`
  again; the node's copy promises less, because events about it may come late.
* `WindowsPairingProofs`: `Consent` as on Linux, for any number of handlers at once. It holds
  because `begin` forgets what was there, and because a handler of another request can take
  the answer away but never put one there.
* `WindowsDevicesProofs` has two layers. `Inv` is about shape: tables in which a device has one
  record, under its address; tasks that have what their next step takes; parts of a command
  in the order in which it gives them. Copies put back late cannot break it, because the upsert
  keeps any tidy table tidy, whatever it is given; `PairingIsKept` follows, because the upsert
  never clears `paired`. `IInv` adds meaning: a record in a table, a task or a
  batch is about the device whose MAC is its address (`Matched`), unless an update made it up
  after that device was withdrawn, when no address it has is that of a device which is not; a
  task removes only what is about withdrawn devices; and so no step of
  any thread takes away a device that some watcher added and none withdrew
  (`ListedUntilWithdrawn`). The adapter's own record, which several such made-up records share,
  is the case that makes the weaker form, without `withdrawn`, false.

The only assumptions are the named ones on constants (`QueueAssumption`,
`MayFailAssumption`, `BoundsAssumption`, `PairingBounds`, `DevicesAssumption`,
`AbsentAssumption`, `ListBounds`, `IdsAssumption`, `WindowsBounds`), evaluated by TLC in every
run of their module. `AbsentAssumption` says of the model value for "no record" that it is not
a record. Every invariant and action property that a passing run checks is proved, as are the
two refinements. Checked by TLC only: the liveness properties (`StopReleases`, the liveness of
`lifecycle`, `CeremonyEnds`, `WorkerComesBack`), which are out of TLAPS's reach, and the four
violations.

## Disagreements with the class reference that have no run of their own

Met while modelling; the models contain them where they model the code concerned.

* `bluetooth_ready` comes with `BACKEND_INITIALIZED` (`bluetooth_manager.cpp:166`); xml:212 promises
  the first snapshot of paired devices before it.
* A radio that stays off makes `is_bluetooth_available` false although the backend initialised
  (`linux_backend.cpp:225`, `bluetooth_manager.cpp:174`; xml:176).
* On Linux `scan_started` is emitted before discovery is requested, also when it is then refused
  (`linux_backend.cpp:567`; xml:217).
* On Linux `cancel_pairing` ends a prompt but not a `Device1.Pair` in progress
  (`linux_backend.cpp:883`; xml:146).
* A record the node has under a device's object path outlives the device and lends `connected` to
  its next record (`linux_backend.cpp:436`, `bluetooth_device_info.h:140`; xml:125).
* On Windows the PIN a user types arrives after the handler's only look at the pending answer,
  unless it wins a race, and "0000" is given (`windows_backend.cpp:756`).
* On Windows an update of a device that is not in the cache is recorded under the adapter's
  address (`windows_backend.cpp:486`), where nothing removes it once another device took it over; after an
  event that was queued late the node may list a device the cache has no more; and once a
  gamepad's record has taken over its device's, `unpair_device` looks up the gamepad's HID
  interface, which cannot be unpaired.
* On Windows an update that carries the address is applied to whatever record the index of ids
  leads to (`windows_backend.cpp:498`). After two withdrawn devices have shared the record of
  the adapter's address that may be the other's, which then has one device's id and the other's
  MAC, until one of them is added again.
* On Windows `paired` stays set after an unpairing in the Settings as it does on Linux
  (`bluetooth_device_info.h:122`; xml:89): no update is read for it (`windows_backend.cpp:474`).
  A stale copy may also bring a paired record back after its removal.
* The code of an error is inferred from its text (`linux_backend.cpp:42`): every one that contains
  "powered" is a RADIO_OFF and makes `is_radio_on` false (xml:182) with the adapter on,
  `disconnect_device`'s own text "... when powered on" (858) among them; nothing sets it again before
  the next session.
* When a device's MAC changes (`linux_backend.cpp:333`), the index entry of the old one stays
  (`device_cache.h:53`); `unpair_device` with the old MAC still finds the device, but the
  `device_removed` it emits names the old MAC and misses the node's record of the new one; and
  a connection that ended in the same signal is kept by the merge of the two records
  (`bluetooth_device_info.h:140`).
* The agent parses `DisplayPinCode` and `DisplayPasskey` alike, as path, number, string
  (`bluez_agent.cpp:48`), so no PIN is ever shown; it answers `RequestPasskey` with a string
  (110) and does not read the passkey of `RequestConfirmation` (124). The models abstract what
  is displayed.

## Not modelled

* Of the Windows backend: `initialize` and `shutdown`, thus a session that fails to begin, an
  exception out of `shutdown`, and handlers that outlive the backend; the scan filters; HID ids
  from which no MAC can be read; the time-to-live of the `HidGamepadCache` (its answers are any of
  `Reports`); `is_radio_on`; failures of the queries in `make_device_info`; the two LE watchers.
* `BluezDBus` beyond success, failure, blocking and deferred dispatch of each request.
* The macOS stub (its only behaviour, an `initialize` that fails, is `InitializeFails`),
  registration, factory, demo scenes, build scripts.
* D-Bus encoding and message parsing: a message is a record of what it says.
* Names, class, trust, RSSI and the scan filters of a device: they decide which devices
  the game is told of while scanning. With filters a device may be missing from the
  node's list; `ListsComplete` is about the default options.
* Several adapters: `DevicesAssumption` gives a MAC one object path, and a device two MACs at
  most, the one it was found by and the one it is resolved to. With two, the index
  entry of the path that was merged away still leads to the shared record.
* A command on a device that is given by anything but its MAC (`pair_device_by_id`
  excepted).
* Memory effects below sequential consistency. The queues, the pending answer and the caches are
  behind mutexes and `running` of the worker is atomic, but some fields are shared without
  either: on Windows `scanning` and `scan_options` (`windows_backend.h:95`), read by the watchers'
  handlers, and on Linux `adapter_powered` (`linux_backend.h:73`), read by the node through
  `is_radio_on`. The models take each read of them to return the value written last; a torn
  `scan_options`, a struct with strings, is outside them.

## Plan

Done: queue, session, worker and node, pairing and device lists on Linux, pairing and device
lists on Windows, in this order, and the proofs of every safety property. Next:

1. `Scan`: filters and options (`SET_SCAN_FILTERS`), and which devices the game is told of
   while a scan runs, over `DeviceRecords`, for both backends.
2. The Windows session over `WorkerThread`: `initialize` and `shutdown`, with handlers that
   outlive it.
3. Several adapters: `DevicesAssumption` dropped, and what is left of `IndexesAgree` then.
