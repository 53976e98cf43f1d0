------------------------------ MODULE DeviceLists ------------------------------
(***************************************************************************)
(* The two lists of devices and what happens to them, on any platform: the *)
(* backend's DeviceCache, the events it emits, and the list BluetoothManager*)
(* keeps for the scene from those events.  Devices and WindowsDevices say  *)
(* who calls these operations, on which thread and when.                   *)
(***************************************************************************)
EXTENDS DeviceRecords, Sequences

VARIABLES discovered,       \* DeviceCache: discovered_devices,
          paired,           \* paired_devices,
          id_to_key,        \* device_id_to_key
          address_to_id,    \* and address_to_device_id
          event_queue,
          devices,          \* BluetoothManager: discovered_devices
          paired_devices    \* and paired_devices

cacheVars == <<discovered, paired, id_to_key, address_to_id>>
nodeVars == <<devices, paired_devices>>

ListsInit == /\ discovered = Empty /\ paired = Empty
             /\ id_to_key = [p \in Paths |-> Absent]
             /\ address_to_id = [a \in Addresses |-> Absent]
             /\ event_queue = <<>>
             /\ devices = Empty /\ paired_devices = Empty

-----------------------------------------------------------------------------
(* DeviceCache                                                             *)

CacheUpsert(infos) ==
    /\ discovered' = Upserted(discovered, infos)
    /\ paired' = UpsertedPaired(paired, discovered, infos)
    /\ id_to_key' = [p \in Paths |->
         IF \E i \in infos : i.device_id = p
         THEN Key(CHOOSE i \in infos : i.device_id = p)
         ELSE IF \E i \in infos : \E k \in Stale(discovered, i) : discovered[k].device_id = p
         THEN Absent
         ELSE id_to_key[p]]
    /\ address_to_id' = [a \in Addresses |->
         IF \E i \in infos : i.address = a
         THEN (CHOOSE i \in infos : i.address = a).device_id
         ELSE address_to_id[a]]

\* Mutant: the index entries of a removed record stay.
CacheRemoveRecordOnly(k, a) == /\ discovered' = [discovered EXCEPT ![k] = Absent]
                               /\ paired' = [paired EXCEPT ![k] = Absent]
                               /\ UNCHANGED <<id_to_key, address_to_id>>

CacheRemove(k, a) ==
    /\ discovered' = [discovered EXCEPT ![k] = Absent]
    /\ paired' = [paired EXCEPT ![k] = Absent]
    /\ id_to_key' = [p \in Paths |-> IF discovered[k] # Absent /\ discovered[k].device_id = p
                                     THEN Absent ELSE id_to_key[p]]
    /\ address_to_id' = [b \in Addresses |-> IF b = a THEN Absent ELSE address_to_id[b]]

\* find_by_device_id: the index first, then a search.
FindById(p) ==
    IF id_to_key[p] # Absent /\ discovered[id_to_key[p]] # Absent THEN id_to_key[p]
    ELSE IF \E k \in Keys : discovered[k] # Absent /\ discovered[k].device_id = p
    THEN CHOOSE k \in Keys : discovered[k] # Absent /\ discovered[k].device_id = p
    ELSE Absent

\* resolve_device_id: the index first, then a search.
CachedPath(a) == IF address_to_id[a] # Absent THEN address_to_id[a]
                 ELSE IF discovered[a] # Absent THEN discovered[a].device_id
                 ELSE Absent

-----------------------------------------------------------------------------
(* The events                                                              *)

Emit(events) == event_queue' = event_queue \o events

Found(info) == [type |-> "DEVICE_FOUND", device |-> info]
Removed(k) == [type |-> "DEVICE_REMOVED", address |-> k]
PairedUpdated(infos) == [type |-> "PAIRED_DEVICES_UPDATED", devices |-> infos]
Connection(a, b) == [type |-> "CONNECTION_CHANGED", address |-> a, connected |-> b]
PairingSucceeded(a) == [type |-> "PAIRING_SUCCEEDED", address |-> a]

-----------------------------------------------------------------------------
(* The node                                                                *)

NodeUpsert(infos) == /\ devices' = Upserted(devices, infos)
                     /\ paired_devices' = UpsertedPaired(paired_devices, devices, infos)

MatchesRecord(k, a) == devices[k] # Absent /\ a \in {k, devices[k].address, devices[k].device_id}

NodeRemove(a) ==
    LET gone == {k \in Keys : devices[k] # Absent /\ a \in {k, devices[k].address}} IN
      /\ devices' = [k \in Keys |-> IF k \in gone THEN Absent ELSE devices[k]]
      /\ paired_devices' = [k \in Keys |-> IF k \in gone THEN Absent ELSE paired_devices[k]]

\* Mutant: the paired list is not told of the change.
NodeSetInOneList(a, x, value) ==
    /\ devices' = [k \in Keys |-> IF MatchesRecord(k, a) THEN [devices[k] EXCEPT ![x] = value]
                                  ELSE devices[k]]
    /\ UNCHANGED paired_devices

\* update_devices_for_address.  The address of no record changes, so no key does.
NodeSet(a, x, value) ==
    /\ devices' = [k \in Keys |-> IF MatchesRecord(k, a) THEN [devices[k] EXCEPT ![x] = value]
                                  ELSE devices[k]]
    /\ paired_devices' = [k \in Keys |->
         IF ~MatchesRecord(k, a) THEN paired_devices[k]
         ELSE IF devices'[k].paired THEN devices'[k] ELSE Absent]

\* handle_event, of an event about a device.
NodeTakes(e) == \/ e.type = "DEVICE_FOUND" /\ NodeUpsert({e.device})
                \/ e.type = "DEVICE_REMOVED" /\ NodeRemove(e.address)
                \/ e.type = "PAIRED_DEVICES_UPDATED" /\ NodeUpsert(e.devices)
                \/ e.type = "CONNECTION_CHANGED" /\ NodeSet(e.address, "connected", e.connected)
                \/ e.type = "PAIRING_SUCCEEDED" /\ NodeSet(e.address, "paired", TRUE)
=============================================================================
