----------------------------- MODULE DeviceRecords -----------------------------
(***************************************************************************)
(* Device records (bluetooth_device_info.h) and what an upsert does to a   *)
(* table of them.  DeviceCache on the worker's side and BluetoothManager on*)
(* the main thread keep such a table each and write the same upsert twice. *)
(*                                                                         *)
(* A record's address is the device's MAC, or its device_id as long as the *)
(* MAC is not known; two of them match only if they are equal, since an id *)
(* spells the MAC with underscores or in lower case.  Name, class, trust   *)
(* and RSSI are left out.                                                  *)
(***************************************************************************)
CONSTANTS Paths,       \* the ids of devices on the platform: what device_id holds
          AddressOf,   \* the MAC of the device with each id,
          IdentityOf,  \* and the one it turns out to have once a private MAC is resolved
          Absent       \* nothing: no record under a key, no entry in an index

MacsOf(p) == {AddressOf[p], IdentityOf[p]}

Addresses == UNION {MacsOf(p) : p \in Paths}

Keys == Paths \cup Addresses

Empty == [k \in Keys |-> Absent]

\* device_cache_key and canonical_device_key.
Key(info) == IF info.address \in Addresses THEN info.address ELSE info.device_id

\* The other keys under which the table has a record of the same device.
Stale(table, info) ==
    {k \in Keys \ {Key(info)} :
        /\ table[k] # Absent
        /\ \/ table[k].device_id = info.device_id
           \/ info.address \in Addresses /\ table[k].address = info.address}

\* Mutant: what is merged is not paired unless the new record is.
MergedAsGiven(table, info) ==
    [info EXCEPT !.connected = @ \/ \E k \in Stale(table, info) : table[k].connected]

\* merge_device_endpoints with every stale record, merge_device_identity with the one
\* under the same key: `paired' is never lost, `connected' is the new record's own.
Merged(table, info) ==
    LET stale == Stale(table, info) IN
      [info EXCEPT
         !.paired = @ \/ \E k \in stale \cup {Key(info)} : table[k] # Absent /\ table[k].paired,
         !.connected = @ \/ \E k \in stale : table[k].connected]

\* Mutant: records of the device under another key are left where they are.
UpsertedOverOwnKey(table, infos) ==
    [k \in Keys |-> IF \E i \in infos : Key(i) = k
                    THEN Merged(table, CHOOSE i \in infos : Key(i) = k)
                    ELSE table[k]]

\* The table after an upsert of each of `infos', which are about different devices, so
\* that their order does not matter.
Upserted(table, infos) ==
    [k \in Keys |-> IF \E i \in infos : Key(i) = k
                    THEN Merged(table, CHOOSE i \in infos : Key(i) = k)
                    ELSE IF \E i \in infos : k \in Stale(table, i) THEN Absent
                    ELSE table[k]]

\* The paired table after the same upserts.
UpsertedPaired(paired, table, infos) ==
    [k \in Keys |-> IF \E i \in infos : Key(i) = k
                    THEN IF Upserted(table, infos)[k].paired THEN Upserted(table, infos)[k]
                         ELSE Absent
                    ELSE IF \E i \in infos : k \in Stale(table, i) THEN Absent
                    ELSE paired[k]]

-----------------------------------------------------------------------------
\* A record sits under its own key, and no two are about one device.
Tidy(table) == \A k \in Keys : table[k] # Absent =>
                 /\ k = Key(table[k])
                 /\ \A l \in Keys : table[l] # Absent /\ table[l].device_id = table[k].device_id
                                      => l = k

\* The paired table is the part of the table that is paired.
Mirrors(paired, table) ==
    \A k \in Keys : paired[k] = IF table[k] # Absent /\ table[k].paired THEN table[k] ELSE Absent
=============================================================================
