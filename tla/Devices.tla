-------------------------------- MODULE Devices --------------------------------
(***************************************************************************)
(* The device lists on Linux.  bluetoothd has the devices; the worker keeps*)
(* a DeviceCache of them, fed by D-Bus signals it dispatches one by one and*)
(* by the replies to its own requests, which overtake the signals still in *)
(* the connection; the node keeps a list of its own, fed by the events the *)
(* worker emits.  A command that makes several requests is several steps:  *)
(* bluetoothd goes on between them.                                        *)
(***************************************************************************)
EXTENDS DeviceLists, Naturals

CONSTANTS MaxSignals,   \* bound of the model: signals in the connection when bluetoothd acts
                        \* or a command begins
          MaxEvents,    \* bound of the model: events queued when bluetoothd or the worker acts
          MaxSessions   \* bound of the model: sessions

ASSUME ListBounds == MaxSignals \in Nat /\ MaxEvents \in Nat /\ MaxSessions \in Nat

\* One adapter: a MAC has one object path.
ASSUME DevicesAssumption ==
    /\ AddressOf \in [Paths -> Addresses] /\ IdentityOf \in [Paths -> Addresses]
    /\ \A p, q \in Paths : MacsOf(p) \cap MacsOf(q) # {} => p = q
    /\ Paths \cap Addresses = {}
    /\ Absent \notin Keys

Infos == {i \in [address : Keys, device_id : Paths, paired : BOOLEAN, connected : BOOLEAN] :
            i.address \in {i.device_id} \cup MacsOf(i.device_id)}

Properties == [paired : BOOLEAN, connected : BOOLEAN]

ASSUME AbsentAssumption == Absent \notin Infos \cup Properties

Tables == [Keys -> Infos \cup {Absent}]

VARIABLES objects,          \* bluetoothd: the properties of the device at each path,
          mac,              \* and its MAC
          signals,          \* signals in our connection, oldest first
          job,              \* the command the worker is half-way through
          session,          \* "up" from initialize to shutdown, "down" otherwise
          refreshed,        \* this session has enumerated the devices
          sessions,         \* sessions started so far
          nameless,         \* history: the node was told of a device without its MAC
          readdressed       \* history: the devices whose MAC has changed

sessionVars == <<session, refreshed, sessions>>
bluezVars == <<objects, mac, readdressed>>
vars == <<bluezVars, signals, cacheVars, job, event_queue, nodeVars, sessionVars, nameless>>

\* What one PropertiesChanged says: some of the two, or neither (another property).
Changes == UNION {[S -> BOOLEAN] : S \in SUBSET {"paired", "connected"}}

Nothing == [x \in {} |-> FALSE]

Steps == {"idle", "pair", "refresh", "connect", "disconnect", "unpair_read", "unpair_remove"}

Idle == [at |-> "idle", path |-> Absent, told |-> Absent]

Init == /\ objects \in [Paths -> Properties \cup {Absent}]
        /\ mac = AddressOf /\ readdressed = {}
        /\ signals = <<>>
        /\ ListsInit
        /\ job = Idle
        /\ session = "down" /\ refreshed = FALSE /\ sessions = 0 /\ nameless = FALSE

-----------------------------------------------------------------------------
(* bluetoothd (external)                                                   *)

\* A PropertiesChanged carries the MAC (address # Absent) if that has changed too.
Signal(type, p, a, changed) == [type |-> type, path |-> p, address |-> a, changed |-> changed]

\* Our matches are registered only while a session is up.
Sent(more) == signals' = IF session = "up" THEN signals \o more ELSE signals

With(changed, old) == [x \in DOMAIN old |-> IF x \in DOMAIN changed THEN changed[x] ELSE old[x]]

\* Bound: later sessions, which ask what is left of the first, act on an empty queue.
Room == Len(event_queue) <= IF sessions <= 1 THEN MaxEvents ELSE 0

BluezActs == /\ Room
             /\ session = "up" => Len(signals) < MaxSignals
             /\ UNCHANGED <<cacheVars, job, event_queue, nodeVars, sessionVars, nameless>>

BluezAdds(p, props) == /\ BluezActs
                       /\ objects[p] = Absent
                       /\ objects' = [objects EXCEPT ![p] = props]
                       /\ Sent(<<Signal("added", p, AddressOf[p], props)>>)
                       /\ UNCHANGED <<mac, readdressed>>

BluezChanges(p, changed) == /\ BluezActs
                            /\ objects[p] # Absent
                            /\ \A x \in DOMAIN changed : changed[x] # objects[p][x]
                            /\ objects' = [objects EXCEPT ![p] = With(changed, @)]
                            /\ Sent(<<Signal("changed", p, Absent, changed)>>)
                            /\ UNCHANGED <<mac, readdressed>>

\* The private MAC that a device was found by is resolved: the path stays as it is.
BluezResolves(p, changed) ==
    /\ BluezActs
    /\ objects[p] # Absent /\ mac[p] # IdentityOf[p]
    /\ \A x \in DOMAIN changed : changed[x] # objects[p][x]
    /\ objects' = [objects EXCEPT ![p] = With(changed, @)]
    /\ mac' = [mac EXCEPT ![p] = IdentityOf[p]]
    /\ readdressed' = readdressed \cup {p}
    /\ Sent(<<Signal("changed", p, IdentityOf[p], changed)>>)

\* A device that comes back at a path has the MAC the path is made of.
Vanishes(p) == /\ objects' = [objects EXCEPT ![p] = Absent]
               /\ mac' = [mac EXCEPT ![p] = AddressOf[p]]
               /\ UNCHANGED readdressed

BluezRemoves(p) == /\ BluezActs
                   /\ objects[p] # Absent
                   /\ Vanishes(p)
                   /\ Sent(<<Signal("removed", p, Absent, Nothing)>>)

\* A request of ours that sets a property, as far as that is a change.
BluezSets(p, x, value) ==
    /\ objects' = [objects EXCEPT ![p][x] = value]
    /\ IF objects[p][x] = value THEN UNCHANGED signals
       ELSE Sent(<<Signal("changed", p, Absent, [y \in {x} |-> value])>>)
    /\ UNCHANGED <<mac, readdressed>>

-----------------------------------------------------------------------------
(* What bluetoothd tells                                                  *)

\* device_info_from_bluez, of a reply that names the MAC.
FromBluez(p) == [address |-> mac[p], device_id |-> p,
                 paired |-> objects[p].paired, connected |-> objects[p].connected]

\* upsert_device with p_force_emit: the event carries the merged record.
FoundAfter(info) == Found(Upserted(discovered, {info})[Key(info)])

-----------------------------------------------------------------------------
(* poll: one signal is dispatched                                          *)

Dispatch(type) == /\ session = "up" /\ job = Idle /\ Room
                  /\ signals # <<>> /\ Head(signals).type = type
                  /\ signals' = Tail(signals)
                  /\ UNCHANGED <<bluezVars, job, nodeVars, sessionVars>>

HandleInterfacesAdded ==
    /\ Dispatch("added")
    /\ LET s == Head(signals)
           info == [address |-> s.address, device_id |-> s.path,
                    paired |-> s.changed.paired, connected |-> s.changed.connected]
       IN CacheUpsert({info}) /\ Emit(<<FoundAfter(info)>>)
    /\ UNCHANGED nameless

\* Mutant: a record whose MAC is not known is left without an address.
UpdatedWithoutAddress(s) ==
    LET k == FindById(s.path)
        old == IF k # Absent THEN discovered[k]
               ELSE [address |-> Absent, device_id |-> s.path,
                     paired |-> FALSE, connected |-> FALSE]
    IN With(s.changed, [old EXCEPT !.device_id = s.path])

\* What handle_properties_changed makes of the properties it was given and the record
\* it finds; without a record nothing but the path is known, and the MAC if it was given.
Updated(s) ==
    LET k == FindById(s.path)
        old == IF k # Absent THEN discovered[k]
               ELSE [address |-> s.path, device_id |-> s.path,
                     paired |-> FALSE, connected |-> FALSE]
    IN With(s.changed, [old EXCEPT !.device_id = s.path,
                                   !.address = IF s.address # Absent THEN s.address ELSE @])

\* Mutant: what changes of a record that the cache has is not told.
HandlePropertiesChangedQuietly ==
    /\ Dispatch("changed")
    /\ LET info == Updated(Head(signals)) IN
         /\ CacheUpsert({info})
         /\ nameless' = (nameless \/ info.address \notin Addresses)
         /\ Emit(IF discovered[Key(info)] = Absent THEN <<FoundAfter(info)>> ELSE <<>>)

\* Paired, Connected and RSSI are always told, another property only of a new record.
HandlePropertiesChanged ==
    /\ Dispatch("changed")
    /\ LET s == Head(signals)
           info == Updated(s)
           new == discovered[Key(info)] = Absent
           connection == IF "connected" \in DOMAIN s.changed /\ info.address \in Addresses
                         THEN <<Connection(info.address, info.connected)>> ELSE <<>>
       IN /\ CacheUpsert({info})
          /\ nameless' = (nameless \/ info.address \notin Addresses)
          /\ \/ Emit(<<FoundAfter(info)>> \o connection)
             \/ DOMAIN s.changed = {} /\ ~new /\ Emit(<<>>)

HandleInterfacesRemoved ==
    /\ Dispatch("removed")
    /\ UNCHANGED nameless
    /\ LET k == FindById(Head(signals).path) IN
         \/ /\ k = Absent
            /\ UNCHANGED <<cacheVars, event_queue>>
         \/ /\ k # Absent
            /\ CacheRemove(k, discovered[k].address)
            /\ Emit(<<Removed(discovered[k].address)>>)

-----------------------------------------------------------------------------
(* The commands                                                            *)

\* resolve_device_path: bluetoothd is asked about a device the cache does not know, and
\* what it says is cached without an event.
Knows(a, p) == objects[p] # Absent /\ mac[p] = a

Resolved(a) == IF CachedPath(a) # Absent THEN CachedPath(a)
               ELSE IF \E p \in Paths : Knows(a, p) THEN CHOOSE p \in Paths : Knows(a, p)
               ELSE Absent

Learned(a) == IF CachedPath(a) # Absent THEN {} ELSE {FromBluez(Resolved(a))}

\* lookup_cached_state, after that.
Record(a) == Upserted(discovered, Learned(a))[a]

Believed(a, x) == Record(a) # Absent /\ Record(a)[x]

Free == session = "up" /\ job = Idle /\ Room /\ Len(signals) < MaxSignals

Begin(a) == /\ Free
            /\ Resolved(a) # Absent
            /\ CacheUpsert(Learned(a))
            /\ UNCHANGED <<nodeVars, sessionVars, nameless>>

Go(step, p, told) == job' = [at |-> step, path |-> p, told |-> told]

\* The command's request fails: an error for the user.
RequestFails(a) == /\ Begin(a)
                   /\ UNCHANGED <<bluezVars, signals, job, event_queue>>

\* Device1.Pair, unless the cache says that the device is paired.
Pair(p, told, known) ==
    \/ /\ known
       /\ Go("refresh", p, told)
       /\ Emit(<<PairingSucceeded(told)>>)
       /\ UNCHANGED <<bluezVars, signals>>
    \/ /\ ~known /\ objects[p] # Absent
       /\ BluezSets(p, "paired", TRUE)
       /\ Go("pair", p, told)
       /\ UNCHANGED event_queue

PairDevice(a) == Begin(a) /\ Pair(Resolved(a), a, Believed(a, "paired"))

\* The path is taken as it is, and the client told of the address in the cache.
PairDeviceById(p) ==
    LET k == FindById(p) IN
      /\ Free
      /\ IF k = Absent THEN Pair(p, p, FALSE) ELSE Pair(p, discovered[k].address, discovered[k].paired)
      /\ UNCHANGED <<cacheVars, nodeVars, sessionVars, nameless>>

ConnectDevice(a) == /\ Begin(a) /\ objects[Resolved(a)] # Absent
                    /\ BluezSets(Resolved(a), "connected", TRUE)
                    /\ Go("connect", Resolved(a), a)
                    /\ UNCHANGED event_queue

DisconnectDevice(a) == /\ Begin(a) /\ objects[Resolved(a)] # Absent
                       /\ BluezSets(Resolved(a), "connected", FALSE)
                       /\ Go("disconnect", Resolved(a), a)
                       /\ UNCHANGED event_queue

\* unpair_device disconnects first a device that the cache says is connected.
UnpairDevice(a) ==
    /\ Begin(a)
    /\ \/ /\ Believed(a, "connected") /\ objects[Resolved(a)] # Absent
          /\ BluezSets(Resolved(a), "connected", FALSE)
          /\ Go("unpair_read", Resolved(a), a)
          /\ UNCHANGED event_queue
       \/ /\ Go("unpair_remove", Resolved(a), a)
          /\ IF Believed(a, "connected") THEN Emit(<<Connection(a, TRUE)>>)
             ELSE UNCHANGED event_queue
          /\ UNCHANGED <<bluezVars, signals>>

At(step) == /\ job.at = step /\ Room
            /\ UNCHANGED <<nodeVars, session, sessions, nameless>>

\* get_device_properties after the request: a reply is cached and told with force, then
\* come the command's own events.
ReadBack(events) ==
    \/ /\ objects[job.path] # Absent
       /\ CacheUpsert({FromBluez(job.path)})
       /\ Emit(<<FoundAfter(FromBluez(job.path))>> \o events)
    \/ /\ UNCHANGED cacheVars
       /\ Emit(events)

PairRead == /\ At("pair")
            /\ ReadBack(<<PairingSucceeded(job.told)>>)
            /\ Go("refresh", job.path, job.told)
            /\ UNCHANGED <<bluezVars, signals, refreshed>>

ConnectRead == /\ At("connect")
               /\ ReadBack(<<Connection(job.told, TRUE)>>)
               /\ job' = Idle
               /\ UNCHANGED <<bluezVars, signals, refreshed>>

\* A device that is connected again by now is an error for the user.
DisconnectRead ==
    /\ At("disconnect")
    /\ LET back == objects[job.path] # Absent /\ objects[job.path].connected IN
         \/ ~back /\ ReadBack(<<Connection(job.told, FALSE)>>)
         \/ back /\ ReadBack(<<>>)
         \/ back /\ UNCHANGED cacheVars /\ Emit(<<Connection(job.told, FALSE)>>)
    /\ job' = Idle
    /\ UNCHANGED <<bluezVars, signals, refreshed>>

UnpairRead == /\ At("unpair_read")
              /\ ReadBack(<<Connection(job.told, FALSE)>>)
              /\ Go("unpair_remove", job.path, job.told)
              /\ UNCHANGED <<bluezVars, signals, refreshed>>

\* RemoveDevice: bluetoothd may report the lost properties before it reports the removal,
\* and its signals are dispatched after the record is gone.
RemovalSignals(p) ==
    {<<Signal("removed", p, Absent, Nothing)>>,
     <<Signal("changed", p, Absent, [paired |-> FALSE, connected |-> FALSE]),
       Signal("removed", p, Absent, Nothing)>>}

UnpairRemove ==
    /\ At("unpair_remove")
    /\ \/ /\ objects[job.path] # Absent
          /\ Vanishes(job.path)
          /\ \E s \in RemovalSignals(job.path) : Sent(s)
          /\ LET k == FindById(job.path) IN
               IF k # Absent THEN CacheRemove(k, discovered[k].address)
               ELSE CacheRemove(job.told, job.told)
          /\ Emit(<<Removed(job.told)>>)
       \/ UNCHANGED <<bluezVars, signals, cacheVars, event_queue>>
    /\ job' = Idle
    /\ UNCHANGED refreshed

\* Mutant: the snapshot is taken before the devices are enumerated.
RefreshBeforeEnumerating ==
    /\ session = "up"
    /\ job.at \in {"idle", "refresh"} /\ Room
    /\ \/ /\ CacheUpsert({FromBluez(p) : p \in {q \in Paths : objects[q] # Absent}})
          /\ refreshed' = TRUE
       \/ UNCHANGED <<cacheVars, refreshed>>
    /\ Emit(<<PairedUpdated({paired[k] : k \in Keys} \ {Absent})>>)
    /\ job' = Idle
    /\ UNCHANGED <<bluezVars, signals, nodeVars, session, sessions, nameless>>

\* refresh_paired_devices, by itself or at the end of pair_device: whatever the cache
\* has got, its paired records are told.
Refresh ==
    /\ session = "up"
    /\ job.at \in {"idle", "refresh"} /\ Room
    /\ \/ /\ CacheUpsert({FromBluez(p) : p \in {q \in Paths : objects[q] # Absent}})
          /\ refreshed' = TRUE
       \/ UNCHANGED <<cacheVars, refreshed>>
    /\ Emit(<<PairedUpdated({paired'[k] : k \in Keys} \ {Absent})>>)
    /\ job' = Idle
    /\ UNCHANGED <<bluezVars, signals, nodeVars, session, sessions, nameless>>

-----------------------------------------------------------------------------
(* The node                                                                *)

HandleEvent ==
    /\ event_queue # <<>>
    /\ NodeTakes(Head(event_queue))
    /\ event_queue' = Tail(event_queue)
    /\ UNCHANGED <<bluezVars, signals, cacheVars, job, sessionVars, nameless>>

-----------------------------------------------------------------------------
(* Sessions: the cache, the node's lists and the signals in the (shared)   *)
(* connection survive them.                                                *)

StartSession == /\ session = "down" /\ sessions < MaxSessions
                /\ session' = "up" /\ sessions' = sessions + 1
                /\ event_queue' = <<>>
                /\ UNCHANGED <<bluezVars, signals, cacheVars, job, nodeVars, refreshed, nameless>>

EndSession == /\ session = "up" /\ job = Idle
              /\ session' = "down"
              /\ refreshed' = FALSE
              /\ UNCHANGED <<bluezVars, signals, cacheVars, job, event_queue, nodeVars, sessions, nameless>>

Bluez == \E p \in Paths : \/ \E props \in Properties : BluezAdds(p, props)
                          \/ \E changed \in Changes : BluezChanges(p, changed)
                                                      \/ BluezResolves(p, changed)
                          \/ BluezRemoves(p)

Command == \/ \E a \in Addresses : \/ RequestFails(a) \/ PairDevice(a) \/ ConnectDevice(a)
                                   \/ DisconnectDevice(a) \/ UnpairDevice(a)
           \/ \E p \in Paths : PairDeviceById(p)
           \/ PairRead \/ ConnectRead \/ DisconnectRead \/ UnpairRead \/ UnpairRemove
           \/ Refresh

Poll == HandleInterfacesAdded \/ HandlePropertiesChanged \/ HandleInterfacesRemoved

Next == Bluez \/ Poll \/ Command \/ HandleEvent \/ StartSession \/ EndSession

Spec == Init /\ [][Next]_vars

-----------------------------------------------------------------------------
(* Properties                                                              *)

Events == [type : {"DEVICE_FOUND"}, device : Infos]
            \cup [type : {"DEVICE_REMOVED"}, address : Keys]
            \cup [type : {"PAIRED_DEVICES_UPDATED"}, devices : SUBSET Infos]
            \cup [type : {"CONNECTION_CHANGED"}, address : Addresses, connected : BOOLEAN]
            \cup [type : {"PAIRING_SUCCEEDED"}, address : Keys]

Signals == [type : {"added"}, path : Paths, address : Addresses, changed : Properties]
             \cup [type : {"changed", "removed"}, path : Paths, address : Addresses \cup {Absent},
                   changed : Changes]

TypeOK == /\ objects \in [Paths -> Properties \cup {Absent}]
          /\ mac \in [Paths -> Addresses] /\ readdressed \in SUBSET Paths
          /\ signals \in Seq(Signals)
          /\ discovered \in Tables /\ paired \in Tables
          /\ id_to_key \in [Paths -> Keys \cup {Absent}]
          /\ address_to_id \in [Addresses -> Paths \cup {Absent}]
          /\ job \in {Idle} \cup [at : Steps \ {"idle"}, path : Paths, told : Keys]
          /\ event_queue \in Seq(Events)
          /\ devices \in Tables /\ paired_devices \in Tables
          /\ session \in {"up", "down"}
          /\ refreshed \in BOOLEAN /\ sessions \in 0..MaxSessions /\ nameless \in BOOLEAN

\* Neither the cache nor the node ever lists a device twice, by its path and by its MAC
\* or under a key that is not its own, and no snapshot does: a record that was created
\* from a signal that names only the path becomes one with the record of the MAC.
OneRecord == /\ Tidy(discovered) /\ Tidy(devices)
             /\ \A i \in 1..Len(event_queue) : event_queue[i].type = "PAIRED_DEVICES_UPDATED" =>
                  \A x, y \in event_queue[i].devices : x.device_id = y.device_id => x = y

\* The lists of paired devices are those that the lists of devices call paired, through
\* every upsert, merge, removal and update of a single flag.
PairedMirrors == Mirrors(paired, discovered) /\ Mirrors(paired_devices, devices)

\* The indexes of the cache lead to a record of the device that was asked for, and to
\* one for every record: no command or signal takes one device for another.  An entry for
\* a MAC outlives its record only if that device has changed its MAC, since upsert purges
\* the record of the old one without it; it leads to the path of that device still.
IndexesAgree ==
    /\ \A p \in Paths : id_to_key[p] # Absent =>
         discovered[id_to_key[p]] # Absent /\ discovered[id_to_key[p]].device_id = p
    /\ \A k \in Keys : discovered[k] # Absent => id_to_key[discovered[k].device_id] = k
    /\ \A a \in Addresses :
         IF discovered[a] # Absent THEN address_to_id[a] = discovered[a].device_id
         ELSE address_to_id[a] # Absent => /\ address_to_id[a] \in readdressed
                                           /\ a \in MacsOf(address_to_id[a])

\* Everything that bluetoothd has said so far has reached the node.
AtRest == session = "up" /\ job = Idle /\ signals = <<>> /\ event_queue = <<>> /\ sessions = 1

\* No loss: the device is there, and a record does not deny a connection or pairing.
Covers(info) == LET o == objects[info.device_id] IN
                  /\ o # Absent
                  /\ o.connected => info.connected
                  /\ o.paired => info.paired

Exact(info) == info.connected = objects[info.device_id].connected

\* Once the signals and events of the first session are dealt with, no device is listed
\* by its MAC that is gone, none as disconnected that is connected and none as unpaired
\* that is paired, in whatever order replies and signals about it came.  None is listed
\* as connected that is not, unless the node was once told of a device by its path.  This
\* is not said of a device whose MAC has changed (a removal under the old one misses the
\* node's record of the new one), but of every other device beside it.
ListsCurrent == AtRest => \A p \in Paths \ readdressed :
    LET a == AddressOf[p] IN
      /\ discovered[a] # Absent => Covers(discovered[a]) /\ Exact(discovered[a])
      /\ devices[a] # Absent => Covers(devices[a]) /\ (nameless \/ Exact(devices[a]))

\* Nor is any device missing then, if an enumeration succeeded: the cache has every
\* device, the node's lists every paired one, under the MAC that it has (as long as it
\* has only had one).
ListsComplete == AtRest /\ refreshed => \A p \in Paths \ readdressed : objects[p] # Absent =>
                   /\ discovered[AddressOf[p]] # Absent
                   /\ objects[p].paired => paired_devices[AddressOf[p]] # Absent

-----------------------------------------------------------------------------
(* What the lists promise                                                  *)

\* What a table knows of each device, under whatever key.
Entry(i) == [name |-> i.address, paired |-> i.paired, connected |-> i.connected]

Known(table) ==
    [p \in Paths |-> {Entry(table[k]) : k \in {l \in Keys : /\ table[l] # Absent
                                                            /\ table[l].device_id = p}}]

Cache == INSTANCE DeviceRoster WITH Ids <- Paths, Names <- Keys, known <- Known(discovered)
Copy == INSTANCE DeviceRoster WITH Ids <- Paths, Names <- Keys, known <- Known(devices)

\* The two keyed tables, with their indexes and the purging of records under other keys,
\* behave like one record per device: whatever is learnt of a device reaches its record
\* and no other's, a removal forgets one device, a pairing ends only by a removal, and
\* the cache never goes back from a device's MAC to its path.
ImplementsRoster == Cache!CacheSpec /\ Copy!CopySpec

-----------------------------------------------------------------------------
(* What the class reference says, and the code does not do                 *)

\* "Devices currently paired with the system" (get_paired_devices): every device listed
\* is one bluetoothd calls paired, once everything it said has reached the node.
PairedIsCurrent == AtRest => \A k \in Keys : paired_devices[k] # Absent =>
                     /\ objects[paired_devices[k].device_id] # Absent
                     /\ objects[paired_devices[k].device_id].paired
=============================================================================
