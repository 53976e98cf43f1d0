---------------------------- MODULE WindowsDevices ----------------------------
(***************************************************************************)
(* The device lists on Windows.  Each DeviceWatcher of a scan calls its    *)
(* handlers on a thread of its own, while the worker enumerates, pairs,    *)
(* unpairs and refreshes.  They meet in the DeviceCache and in the event   *)
(* queue, and each of them takes a lock of its own for every single call:  *)
(* what a thread has found or put into the cache may have changed before it*)
(* goes on or tells the node.                                              *)
(*                                                                         *)
(* The node handles an event when it is queued: it handles them in the     *)
(* order of the queue, and how far it has got matters to no other thread.  *)
(* A command is taken by the worker when it is given.  A handler's first   *)
(* reading of the cache is one step with its call.                         *)
(*                                                                         *)
(* Windows is outside src/: an association endpoint comes, is paired by us *)
(* or in the Settings, and goes; a watcher raises Added, Updated and       *)
(* Removed for what matches its selector.  Which connection state Windows  *)
(* reports, itself or through the HidGamepadCache, is up to Windows.       *)
(***************************************************************************)
EXTENDS Naturals, Sequences

CONSTANTS Aeps,      \* ids of Bluetooth association endpoints, one for each device
          Hids,      \* ids of HID gamepads, from which the MAC can be read
          MacOf,     \* the MAC of the device with each id
          Radio,     \* the MAC of this computer's adapter
          Absent,
          Reports,   \* the connection states that Windows may report
          Commands,  \* bound of the model: the commands the client gives
          MaxStimuli \* bound of the model: changes in Windows and commands

Ids == Aeps \cup Hids

Macs == {MacOf[i] : i \in Ids}

ASSUME IdsAssumption ==
    /\ DOMAIN MacOf = Ids /\ Aeps \cap Hids = {}
    /\ \A i, j \in Aeps : MacOf[i] = MacOf[j] => i = j
    /\ Ids \cap (Macs \cup {Radio}) = {} /\ Radio \notin Macs
    /\ Absent \notin Ids \cup Macs \cup {Radio}

ASSUME WindowsBounds == /\ Reports \subseteq BOOLEAN
                        /\ Commands \subseteq {"scan", "refresh", "pair", "connect", "unpair"}
                        /\ MaxStimuli \in Nat

\* The adapter is a device with an id of its own to the lists: no endpoint has it, but
\* a record may have its address.
ListedIds == Ids \cup {Radio}

ListedMacOf == [i \in ListedIds |-> IF i = Radio THEN Radio ELSE MacOf[i]]

VARIABLES objects,          \* Windows: each endpoint is "gone", "near" or "paired"
          running,          \* the watchers that are started
          seen,             \* the endpoints each of them has added
          task,             \* what each thread is busy with
          todo,             \* the worker: what is left of its command,
          goal,             \* the device that is about,
          batch,            \* the ids, or records, it has still to go through
          scanning,         \* WindowsBackend::scanning
          signalled,        \* the last of scan_started and scan_stopped that was emitted
          stimuli,          \* changes and commands so far
          withdrawn,        \* endpoints some watcher has withdrawn, or we have unpaired
          discovered, paired, id_to_key, address_to_id, devices, paired_devices

INSTANCE DeviceLists WITH
    event_queue <- <<>>, Paths <- ListedIds, AddressOf <- ListedMacOf, IdentityOf <- ListedMacOf

cache == <<discovered, paired, id_to_key, address_to_id>>
node == <<devices, paired_devices>>
listVars == <<cache, node>>
workerVars == <<todo, goal, batch>>
scanVars == <<running, scanning, signalled>>
vars == <<objects, seen, task, workerVars, scanVars, stimuli, withdrawn, listVars>>

\* The watchers for unpaired devices, and for the protocol.
Watchers == {"unpaired", "protocol"}

Threads == Watchers \cup {"worker"}

NoTask == [at |-> "free", key |-> Absent, address |-> Absent, info |-> Absent, after |-> "free"]

Infos == [address : Macs \cup {Radio}, device_id : Ids, paired : BOOLEAN, connected : BOOLEAN]

ASSUME AbsentAssumption == Absent \notin Infos

Init == /\ objects \in [Aeps -> {"gone", "near", "paired"}]
        /\ running = {} /\ seen = [w \in Watchers |-> {}]
        /\ task = [t \in Threads |-> NoTask]
        /\ todo = <<>> /\ goal = Absent /\ batch = {}
        /\ scanning = FALSE /\ signalled = "scan_stopped"
        /\ stimuli = 0 /\ withdrawn = {}
        /\ ListsInit

-----------------------------------------------------------------------------
(* Windows (external)                                                      *)

Stimulus == stimuli < MaxStimuli /\ stimuli' = stimuli + 1

\* An endpoint comes, goes, or is paired or unpaired in the Settings.
WindowsSets(i, state) ==
    /\ Stimulus /\ state # objects[i]
    /\ objects' = [objects EXCEPT ![i] = state]
    /\ UNCHANGED <<seen, task, workerVars, scanVars, withdrawn, listVars>>

Matches(w, i) == objects[i] \in IF w = "unpaired" THEN {"near"} ELSE {"near", "paired"}

\* A gamepad is listed as long as its device is paired.
Attached(h) == \E i \in Aeps : MacOf[i] = MacOf[h] /\ objects[i] = "paired"

-----------------------------------------------------------------------------
(* What any thread does                                                    *)

At(t, place) == task[t].at = place

Free(t) == task[t] = NoTask

\* A thread that has only the connection left to tell needs its record no more.
Go(t, to) ==
    task' = [task EXCEPT ![t] =
               IF to = "free" THEN NoTask
               ELSE IF to \in {"connection", "tell_connection"}
               THEN [@ EXCEPT !.at = to, !.info = Absent, !.after = "tell_connection"]
               ELSE [@ EXCEPT !.at = to]]

Tell(event) == NodeTakes(event)

DoUpsert(t, place, info, after) ==
    task' = [task EXCEPT ![t] = [NoTask EXCEPT !.at = place, !.info = info, !.after = after]]

\* Mutant: a handler of Added does not force the event.
TellsOfNewOnly(t) == \/ At(t, "forced")
                     \/ task[t].at \in {"added", "updated"} /\ discovered[Key(task[t].info)] = Absent

\* Does upsert_device emit?  A handler of Added forces it while `scanning' is set.
Tells(t) == \/ At(t, "forced")
            \/ At(t, "added") /\ (scanning \/ discovered[Key(task[t].info)] = Absent)
            \/ At(t, "updated") /\ discovered[Key(task[t].info)] = Absent

Upsert(t) == /\ task[t].at \in {"added", "updated", "silent", "forced"}
             /\ CacheUpsert({task[t].info})
             /\ Go(t, IF Tells(t) THEN "tell_found" ELSE task[t].after)
             /\ UNCHANGED <<objects, seen, workerVars, scanVars, stimuli, withdrawn, node>>

\* The event carries the record as it was given, not as it was merged.
TellFound(t) == /\ At(t, "tell_found")
                /\ Tell(Found(task[t].info))
                /\ Go(t, task[t].after)
                /\ UNCHANGED <<objects, seen, workerVars, scanVars, stimuli, withdrawn, cache>>

\* Mutant: the paired table is not told.
UpdateConnectionInOneTable(k, up) ==
    /\ discovered' = [discovered EXCEPT ![k].connected = up, ![k].address = k]
    /\ UNCHANGED <<paired, id_to_key, address_to_id>>

\* update_connection_for_address, which writes the address too.  By OneRecord no record but
\* the one under that key matches.
UpdateConnection(k, up) ==
    /\ discovered' = [discovered EXCEPT ![k].connected = up, ![k].address = k]
    /\ paired' = IF discovered[k].paired THEN [paired EXCEPT ![k] = discovered'[k]] ELSE paired
    /\ UNCHANGED <<id_to_key, address_to_id>>

\* update_connection_state: Windows is asked, the cache is set, then read back.
SetConnection(t, up) ==
    LET a == task[t].address IN
      /\ At(t, "connection")
      /\ \/ /\ discovered[a] # Absent
            /\ UpdateConnection(a, up)
            /\ Go(t, "read_back")
         \/ /\ discovered[a] = Absent
            /\ UNCHANGED cache
            /\ Go(t, task[t].after)
      /\ UNCHANGED <<objects, seen, workerVars, scanVars, stimuli, withdrawn, node>>

ReadBack(t) ==
    LET record == discovered[task[t].address] IN
      /\ At(t, "read_back")
      /\ IF record # Absent
         THEN task' = [task EXCEPT ![t].at = "tell_found", ![t].info = record]
         ELSE Go(t, task[t].after)
      /\ UNCHANGED <<objects, seen, workerVars, scanVars, stimuli, withdrawn, listVars>>

\* The state in the event is the one Windows reported, or the cache held, before.
TellConnection(t, up) ==
    /\ At(t, "tell_connection")
    /\ Tell(Connection(task[t].address, up))
    /\ Go(t, "free")
    /\ UNCHANGED <<objects, seen, workerVars, scanVars, stimuli, withdrawn, cache>>

Remove(t) == /\ At(t, "remove")
             /\ CacheRemove(task[t].key, task[t].address)
             /\ Go(t, "tell_removed")
             /\ UNCHANGED <<objects, seen, workerVars, scanVars, stimuli, withdrawn, node>>

TellRemoved(t) == /\ At(t, "tell_removed")
                  /\ Tell(Removed(task[t].address))
                  /\ Go(t, "free")
                  /\ UNCHANGED <<objects, seen, workerVars, scanVars, stimuli, withdrawn, cache>>

DoConnection(t, a, after) ==
    task' = [task EXCEPT ![t] = [NoTask EXCEPT !.at = "connection", !.address = a, !.after = after]]

DoRemove(t, k, a) ==
    task' = [task EXCEPT ![t] = [NoTask EXCEPT !.at = "remove", !.key = k, !.address = a]]

Step(t) == \/ Upsert(t) \/ TellFound(t) \/ ReadBack(t) \/ Remove(t) \/ TellRemoved(t)
           \/ \E up \in Reports : SetConnection(t, up) \/ TellConnection(t, up)

-----------------------------------------------------------------------------
(* The handlers of a watcher, one at a time.  What is raised before a      *)
(* stop_scan goes on after it.                                             *)

Info(i, is_paired, up) ==
    [address |-> MacOf[i], device_id |-> i, paired |-> is_paired, connected |-> up]

HandleDeviceAdded(w, i, up) ==
    /\ w \in running /\ Free(w)
    /\ i \notin seen[w] /\ Matches(w, i)
    /\ seen' = [seen EXCEPT ![w] = @ \cup {i}]
    /\ DoUpsert(w, "added", Info(i, objects[i] = "paired", up), "free")
    /\ UNCHANGED <<objects, workerVars, scanVars, stimuli, withdrawn, listVars>>

\* Mutant: no MAC is found in the id.
ExtractedNone(i) == Absent

\* extract_address_from_device_id: the id of an endpoint is
\* "Bluetooth#Bluetooth<adapter>-<device>", and the first MAC in it is taken.
Extracted(i) == IF i \in Aeps THEN Radio ELSE MacOf[i]

\* The record that is found is copied.  An update carries some of the properties, and the
\* address may be among them; if it is not, and there is no record, the id has to give it.
HandleDeviceUpdated(w, i, has_address, has_connected, up) ==
    /\ w \in running /\ Free(w)
    /\ i \in seen[w] /\ Matches(w, i)
    /\ LET k == FindById(i)
           address == IF has_address THEN MacOf[i]
                      ELSE IF k # Absent THEN discovered[k].address ELSE Extracted(i)
       IN
         \/ /\ k = Absent
            /\ DoUpsert(w, "updated", [Info(i, FALSE, has_connected /\ up) EXCEPT !.address = address],
                        "free")
         \/ /\ k # Absent
            /\ task' = [task EXCEPT ![w] =
                 [NoTask EXCEPT !.at = "updated", !.address = address,
                                !.info = [discovered[k] EXCEPT !.address = address,
                                                               !.connected = IF has_connected THEN up ELSE @],
                                !.after = IF has_connected THEN "free" ELSE "connection"]]
    /\ UNCHANGED <<objects, seen, workerVars, scanVars, stimuli, withdrawn, listVars>>

Forget(t, i) == LET k == FindById(i) IN
                  IF k # Absent THEN DoRemove(t, k, discovered[k].address) ELSE UNCHANGED task

HandleDeviceRemoved(w, i) ==
    /\ w \in running /\ Free(w)
    /\ i \in seen[w] /\ ~Matches(w, i)
    /\ seen' = [seen EXCEPT ![w] = @ \ {i}]
    /\ withdrawn' = withdrawn \cup {i}
    /\ Forget(w, i)
    /\ UNCHANGED <<objects, workerVars, scanVars, stimuli, listVars>>

-----------------------------------------------------------------------------
(* The worker: a command is a sequence of parts                            *)

Idle(command) == command \in Commands /\ Free("worker") /\ todo = <<>> /\ Stimulus

Parts(sequence, i) == todo' = sequence /\ goal' = i /\ UNCHANGED <<batch>>

StartScan == /\ Idle("scan") /\ ~scanning
             /\ signalled' = "scan_started"
             /\ Parts(<<"paired", "tell_paired", "visible", "watch">>, Absent)
             /\ UNCHANGED <<objects, seen, task, running, scanning, withdrawn, listVars>>

\* Mutant: the flag is reset before the watchers are stopped.
StopResetsFlagFirst ==
    /\ Idle("scan") /\ scanning
    /\ scanning' = FALSE
    /\ \/ running' = {} /\ signalled' = "scan_stopped"
       \/ running' \in SUBSET running /\ UNCHANGED signalled
    /\ UNCHANGED <<objects, seen, task, workerVars, withdrawn, listVars>>

\* stop_all_watchers may throw half-way; then the scan counts as running.
StopScan == /\ Idle("scan") /\ scanning
            /\ \/ running' = {} /\ scanning' = FALSE /\ signalled' = "scan_stopped"
               \/ running' \in SUBSET running /\ UNCHANGED <<scanning, signalled>>
            /\ UNCHANGED <<objects, seen, task, workerVars, withdrawn, listVars>>

Refresh == /\ Idle("refresh")
           /\ Parts(<<"paired", "tell_paired">>, Absent)
           /\ UNCHANGED <<objects, seen, task, scanVars, withdrawn, listVars>>

\* PairAsync succeeds, or the device is paired already.  (A failure changes no list.)
Pair(i) == /\ Idle("pair")
           /\ \/ /\ i \in Aeps /\ objects[i] # "gone"
                 /\ objects' = [objects EXCEPT ![i] = "paired"]
              \/ /\ i \in Hids /\ Attached(i)
                 /\ UNCHANGED objects
           /\ Parts(<<"paired", "finalize", "succeeded", "connection", "tell_paired">>, i)
           /\ UNCHANGED <<seen, task, scanVars, withdrawn, listVars>>

\* connect_device, and disconnect_device, which can do nothing but look.
Connect(i) == /\ Idle("connect")
              /\ Parts(<<"connection">>, i)
              /\ UNCHANGED <<objects, seen, task, scanVars, withdrawn, listVars>>

Disconnect(i) == /\ Idle("connect")
                 /\ Parts(<<"connection_quietly", "believed">>, i)
                 /\ UNCHANGED <<objects, seen, task, scanVars, withdrawn, listVars>>

UnpairDevice(i) ==
    LET connected == discovered[MacOf[i]] # Absent /\ discovered[MacOf[i]].connected
    IN /\ Idle("unpair") /\ i \in Aeps
       /\ Parts(IF connected THEN <<"connection_quietly", "believed", "unpair", "forget">>
                ELSE <<"unpair", "forget">>, i)
       /\ withdrawn' = withdrawn \cup {i}
       /\ UNCHANGED <<objects, seen, task, scanVars, listVars>>

Part(p) == Free("worker") /\ todo # <<>> /\ Head(todo) = p

Proceed == todo' = Tail(todo) /\ UNCHANGED goal

\* FindAllAsync: the devices that match, or as far as it gets before it throws.
Enumerate ==
    /\ Free("worker") /\ todo # <<>> /\ Head(todo) \in {"paired", "visible"}
    /\ LET silent == Head(todo) = "paired"
           all == IF silent THEN {i \in Aeps : objects[i] = "paired"} \cup {h \in Hids : Attached(h)}
                  ELSE {i \in Aeps : objects[i] # "gone"}
       IN \E found \in SUBSET all :
            /\ batch' = found
            /\ todo' = (IF found = {} THEN <<>> ELSE IF silent THEN <<"silent">> ELSE <<"forced">>)
                          \o Tail(todo)
    /\ UNCHANGED <<objects, seen, task, goal, scanVars, stimuli, withdrawn, listVars>>

Ingest(i, up) ==
    /\ Free("worker") /\ todo # <<>> /\ Head(todo) \in {"silent", "forced"} /\ i \in batch
    /\ DoUpsert("worker", Head(todo), Info(i, i \in Hids \/ objects[i] = "paired", up), "free")
    /\ batch' = batch \ {i}
    /\ todo' = IF batch = {i} THEN Tail(todo) ELSE todo
    /\ UNCHANGED <<objects, seen, goal, scanVars, stimuli, withdrawn, listVars>>

\* emit_paired_devices_updated: the array is made, then queued.
ReadPaired == /\ Part("tell_paired")
              /\ batch' = {paired[k] : k \in Keys} \ {Absent}
              /\ todo' = <<"send_paired">> \o Tail(todo)
              /\ UNCHANGED <<objects, seen, task, goal, scanVars, stimuli, withdrawn, listVars>>

SendPaired == /\ Part("send_paired") /\ Proceed
              /\ Tell(PairedUpdated(batch))
              /\ batch' = {}
              /\ UNCHANGED <<objects, seen, task, scanVars, stimuli, withdrawn, cache>>

\* Some watchers start; if none does, the scan is over.
StartWatchers(started) ==
    /\ Part("watch") /\ Proceed
    /\ running' = started
    /\ seen' = [w \in Watchers |-> {}]
    /\ IF started # {} THEN scanning' = TRUE /\ UNCHANGED signalled
       ELSE signalled' = "scan_stopped" /\ UNCHANGED scanning
    /\ UNCHANGED <<objects, task, batch, stimuli, withdrawn, listVars>>

Finalize(up) == /\ Part("finalize") /\ Proceed
                /\ DoUpsert("worker", "forced", Info(goal, TRUE, up), "free")
                /\ UNCHANGED <<objects, seen, batch, scanVars, stimuli, withdrawn, listVars>>

Succeed == /\ Part("succeeded") /\ Proceed
           /\ Tell(PairingSucceeded(MacOf[goal]))
           /\ UNCHANGED <<objects, seen, task, batch, scanVars, stimuli, withdrawn, cache>>

CheckConnection ==
    /\ \/ Part("connection") /\ DoConnection("worker", MacOf[goal], "tell_connection")
       \/ Part("connection_quietly") /\ DoConnection("worker", MacOf[goal], "free")
    /\ Proceed
    /\ UNCHANGED <<objects, seen, batch, scanVars, stimuli, withdrawn, listVars>>

TellBelieved == /\ Part("believed") /\ Proceed
                /\ task' = [task EXCEPT !["worker"] =
                              [NoTask EXCEPT !.at = "tell_connection", !.address = MacOf[goal]]]
                /\ UNCHANGED <<objects, seen, batch, scanVars, stimuli, withdrawn, listVars>>

\* find_device_information and UnpairAsync.  The id comes from the cache, and may be the
\* gamepad's, which is nothing that could be unpaired; the endpoint's otherwise.
UnpairAsync ==
    LET cached == CachedPath(MacOf[goal])
        id == IF cached # Absent THEN cached ELSE goal IN
      /\ Part("unpair")
      /\ \/ /\ todo' = Tail(todo) /\ goal' = id
            /\ objects' = [i \in Aeps |-> IF i = id /\ objects[i] = "paired" THEN "near" ELSE objects[i]]
         \/ todo' = <<>> /\ UNCHANGED <<goal, objects>>
      /\ UNCHANGED <<seen, task, batch, scanVars, stimuli, withdrawn, listVars>>

ForgetUnpaired ==
    /\ Part("forget") /\ Proceed
    /\ IF FindById(goal) # Absent THEN Forget("worker", goal)
       ELSE DoRemove("worker", MacOf[goal], MacOf[goal])
    /\ UNCHANGED <<objects, seen, batch, scanVars, stimuli, withdrawn, listVars>>

-----------------------------------------------------------------------------
Windows == \E i \in Aeps : \E state \in {"gone", "near", "paired"} : WindowsSets(i, state)

Watcher(w) == \E i \in Aeps : \/ \E up \in Reports : HandleDeviceAdded(w, i, up)
                              \/ \E given, has \in BOOLEAN, up \in Reports :
                                        HandleDeviceUpdated(w, i, given, has, up)
                              \/ HandleDeviceRemoved(w, i)

Command == \/ StartScan \/ StopScan \/ Refresh
           \/ \E i \in Ids : Pair(i) \/ Connect(i) \/ Disconnect(i) \/ UnpairDevice(i)

Work == \/ Enumerate \/ ReadPaired \/ SendPaired \/ Succeed \/ CheckConnection \/ TellBelieved
        \/ UnpairAsync \/ ForgetUnpaired
        \/ \E i \in Ids : \E up \in Reports : Ingest(i, up)
        \/ \E up \in Reports : Finalize(up)
        \/ \E started \in SUBSET Watchers : StartWatchers(started)

Next == \/ Windows \/ Command \/ Work
        \/ \E t \in Threads : Step(t)
        \/ \E w \in Watchers : Watcher(w)

Spec == Init /\ [][Next]_vars

-----------------------------------------------------------------------------
(* Properties                                                              *)

Tables == [Keys -> Infos \cup {Absent}]

Places == {"free", "added", "updated", "silent", "forced", "tell_found", "connection", "read_back",
           "tell_connection", "remove", "tell_removed"}

Tasks == [at : Places, key : Macs \cup {Radio, Absent}, address : Macs \cup {Radio, Absent},
          info : Infos \cup {Absent}, after : {"free", "connection", "tell_connection"}]

PartNames == {"paired", "silent", "tell_paired", "send_paired", "visible", "forced", "watch", "finalize",
              "succeeded", "connection", "connection_quietly", "believed", "unpair", "forget"}

TypeOK == /\ objects \in [Aeps -> {"gone", "near", "paired"}]
          /\ running \subseteq Watchers /\ seen \in [Watchers -> SUBSET Aeps]
          /\ task \in [Threads -> Tasks]
          /\ todo \in Seq(PartNames) /\ goal \in Ids \cup {Absent} /\ batch \subseteq Ids \cup Infos
          /\ scanning \in BOOLEAN /\ signalled \in {"scan_started", "scan_stopped"}
          /\ stimuli \in 0..MaxStimuli /\ withdrawn \subseteq Aeps
          /\ discovered \in Tables /\ paired \in Tables
          /\ id_to_key \in [Ids \cup {Radio} -> Macs \cup {Radio, Absent}]
          /\ address_to_id \in [Macs \cup {Radio} -> Ids \cup {Absent}]
          /\ devices \in Tables /\ paired_devices \in Tables

\* Neither list has a device id twice or a record under a key that is not its own,
\* however the upserts of the threads, some of them of copies that are old by now, and
\* the removals follow each other.
OneRecord == Tidy(discovered) /\ Tidy(devices)

\* The lists of paired devices are those that the lists of devices call paired.
PairedMirrors == Mirrors(paired, discovered) /\ Mirrors(paired_devices, devices)

\* The client is told that scanning has begun before the first watcher runs, and never
\* that it is over while one does; a scan that failed to start is over for it too.
ScanSignalsTrue == /\ running # {} => scanning
                   /\ scanning => signalled = "scan_started"
                   /\ Free("worker") /\ todo = <<>> => (signalled = "scan_started") = scanning

\* A device that a watcher has added and told, and no watcher withdrawn nor a command
\* unpaired, is in the cache and in the node's list as long as that watcher runs, whatever
\* becomes of other devices and whatever the other threads do about this one.
Told(w, i) == /\ w \in running /\ i \in seen[w]
              /\ task[w].at \in {"added", "tell_found"} => task[w].info.device_id # i

ListedUntilWithdrawn ==
    \A i \in Aeps \ withdrawn : (\E w \in Watchers : Told(w, i)) =>
      discovered[MacOf[i]] # Absent /\ devices[MacOf[i]] # Absent

\* No update is lost: what a handler puts back that it copied before a pairing does not
\* make the record unpaired.
PairingIsKept == [][\A k \in Keys : discovered[k] # Absent /\ discovered[k].paired /\ discovered'[k] # Absent
                      => discovered'[k].paired]_vars

-----------------------------------------------------------------------------
(* What the class reference says, and the code does not do                 *)

\* Everything has been told that the watchers had to tell.
AtRest == /\ todo = <<>> /\ \A t \in Threads : Free(t)
          /\ \A w \in running : seen[w] = {i \in Aeps : Matches(w, i)}

\* "Devices currently paired with the system" (get_paired_devices): the device that the
\* last command was about is listed if it is paired.
PairedIsListed == AtRest /\ goal \in Aeps /\ objects[goal] = "paired"
                    => paired_devices[MacOf[goal]] # Absent
=============================================================================
