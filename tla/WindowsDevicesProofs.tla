------------------------- MODULE WindowsDevicesProofs -------------------------
(***************************************************************************)
(* Proofs about the device lists on Windows, in two layers.                *)
(*                                                                         *)
(* Inv says of each part of the state that it is in order by itself: the   *)
(* two lists are tidy and mirrored, each thread has what its next step     *)
(* takes, the worker's parts come in the order a command gives them, and   *)
(* the last signal is true.  The safety of the lists and of the signals    *)
(* follows from it.                                                        *)
(*                                                                         *)
(* IInv adds what a record means.  It is about the device whose MAC is its *)
(* address, unless an update made it up after that device was withdrawn,   *)
(* and then any device whose MAC it has is withdrawn too;                  *)
(* nothing is removed but what is about withdrawn devices; and therefore no*)
(* step of any thread takes a device from the lists that a watcher has     *)
(* added and none has withdrawn.                                           *)
(***************************************************************************)
EXTENDS WindowsDevices, Integers, TLAPS

\* The ids the lists know, the adapter's among them, are expanded in every proof.
USE DEF ListedIds, ListedMacOf

Addrs == Macs \cup {Radio}

Distinct(infos) == \A x, y \in infos : x.device_id = y.device_id => x = y

\* Every record sits under its address.
LEMMA KeyIs ==
  /\ Keys = Ids \cup Addrs /\ Addresses = Addrs
  /\ Absent \notin Keys /\ Absent \notin Infos
  /\ \A i \in Infos : /\ Key(i) = i.address /\ i.address \in Addrs /\ i.address \in Keys
                      /\ i.device_id \in Ids /\ i # Absent
  /\ \A i \in Ids : i \notin Addrs /\ MacOf[i] \in Macs /\ MacOf[i] # Radio
<1>1. Addresses = Addrs
  <2>1. \A p \in Ids : MacsOf(p) = {MacOf[p]}
    BY IdsAssumption DEF MacsOf
  <2>2. MacsOf(Radio) = {Radio}
    BY DEF MacsOf
  <2>3. \A a : a \in Addresses <=> \E p \in Ids \cup {Radio} : a \in MacsOf(p)
    BY DEF Addresses
  <2>4. \A a : a \in Addrs <=> a = Radio \/ \E p \in Ids : a = MacOf[p]
    BY DEF Addrs, Macs
  <2> QED BY <2>1, <2>2, <2>3, <2>4
<1>2. Keys = Ids \cup Addrs
  BY <1>1 DEF Keys, Addrs
<1>3. \A i \in Infos : Key(i) = i.address /\ i.address \in Addrs /\ i.device_id \in Ids
  BY <1>1 DEF Key, Infos, Addrs
<1> QED BY <1>1, <1>2, <1>3, IdsAssumption, AbsentAssumption DEF Addrs, Macs

\* Merging changes flags only, and keeps `paired'.
LEMMA MergedType ==
  ASSUME NEW table \in Tables, NEW i \in Infos
  PROVE  /\ Merged(table, i) \in Infos
         /\ Merged(table, i).device_id = i.device_id
         /\ Merged(table, i).address = i.address
         /\ table[Key(i)] # Absent /\ table[Key(i)].paired => Merged(table, i).paired
<1> DEFINE stale == Stale(table, i)
           p == i.paired \/ \E k \in stale \cup {Key(i)} : table[k] # Absent /\ table[k].paired
           c == i.connected \/ \E k \in stale : table[k].connected
<1>1. Merged(table, i) = [[i EXCEPT !.paired = p] EXCEPT !.connected = c]
  BY DEF Merged, Infos
<1>2. /\ p \in BOOLEAN /\ c \in BOOLEAN
      /\ table[Key(i)] # Absent /\ table[Key(i)].paired => p = TRUE
  OBVIOUS
<1> HIDE DEF p, c
<1> DEFINE i1 == [i EXCEPT !.paired = p]
<1>3. i1 \in Infos /\ i1.device_id = i.device_id /\ i1.address = i.address /\ i1.paired = p
  BY <1>2 DEF Infos
<1> HIDE DEF i1
<1>4. Merged(table, i) = [i1 EXCEPT !.connected = c]
  BY <1>1 DEF i1
<1> QED BY <1>2, <1>3, <1>4 DEF Infos

\* What an upsert leaves under a key: a record that was given, nothing, or what was there.
LEMMA UpsertedRecord ==
  ASSUME NEW table \in Tables, NEW infos \in SUBSET Infos, NEW k \in Keys
  PROVE  LET new == Upserted(table, infos)[k] IN
           \/ \E i \in infos : /\ i.address = k /\ new \in Infos
                               /\ new.device_id = i.device_id /\ new.address = i.address
                               /\ table[k] # Absent /\ table[k].paired => new.paired
           \/ /\ new = Absent /\ \A i \in infos : i.address # k
              /\ \E i \in infos : k \in Stale(table, i)
           \/ new = table[k] /\ \A i \in infos : i.address # k /\ k \notin Stale(table, i)
<1>0. \A i \in infos : Key(i) = i.address
  BY KeyIs
<1>1. CASE \E i \in infos : Key(i) = k
  <2> DEFINE i == CHOOSE i \in infos : Key(i) = k
  <2>1. i \in infos /\ Key(i) = k
    BY <1>1
  <2>2. Upserted(table, infos)[k] = Merged(table, i)
    BY <1>1 DEF Upserted
  <2> HIDE DEF i
  <2> QED BY <1>0, <2>1, <2>2, MergedType
<1>2. CASE ~\E i \in infos : Key(i) = k
  BY <1>0, <1>2 DEF Upserted
<1> QED BY <1>1, <1>2

\* An upsert makes a table of a table.
LEMMA UpsertedType ==
  ASSUME NEW table \in Tables, NEW infos \in SUBSET Infos
  PROVE  Upserted(table, infos) \in Tables
<1>1. \A k \in Keys : Upserted(table, infos)[k] \in Infos \cup {Absent}
  BY UpsertedRecord DEF Tables
<1>2. Upserted(table, infos) = [k \in Keys |-> Upserted(table, infos)[k]]
  BY DEF Upserted
<1> QED BY <1>1, <1>2 DEF Tables

\* An upsert keeps a table tidy.
LEMMA UpsertedTidy ==
  ASSUME NEW table \in Tables, NEW infos \in SUBSET Infos, Distinct(infos), Tidy(table)
  PROVE  Tidy(Upserted(table, infos))
<1> DEFINE new == Upserted(table, infos)
           Given(k) == \E i \in infos : /\ i.address = k /\ new[k] \in Infos
                                        /\ new[k].device_id = i.device_id
                                        /\ new[k].address = i.address
           Kept(k) == new[k] = table[k] /\ \A i \in infos : i.address # k /\ k \notin Stale(table, i)
<1>1. \A k \in Keys : new[k] # Absent => Given(k) \/ Kept(k)
  BY UpsertedRecord
<1>0. \A i \in infos : Key(i) = i.address
  BY KeyIs
<1> HIDE DEF new
<1>2. ASSUME NEW k \in Keys, new[k] # Absent
      PROVE  k = Key(new[k])
  <2>1. CASE Given(k)
    BY <2>1, KeyIs
  <2>2. CASE Kept(k)
    BY <1>2, <2>2 DEF Tidy
  <2> QED BY <1>1, <1>2, <2>1, <2>2
<1>3. ASSUME NEW k \in Keys, NEW l \in Keys, new[k] # Absent, new[l] # Absent,
             new[l].device_id = new[k].device_id
      PROVE  l = k
  <2>1. CASE Given(k) /\ Given(l)
    BY <1>3, <2>1 DEF Distinct
  <2>2. CASE Kept(k) /\ Kept(l)
    BY <1>3, <2>2 DEF Tidy
  <2>3. CASE Given(k) /\ Kept(l)
    BY <1>0, <1>3, <2>3 DEF Stale
  <2>4. CASE Kept(k) /\ Given(l)
    BY <1>0, <1>3, <2>4 DEF Stale
  <2> QED BY <1>1, <1>3, <2>1, <2>2, <2>3, <2>4
<1> QED BY <1>2, <1>3 DEF Tidy, new

\* The two tables are upserted in step.
LEMMA UpsertedMirrors ==
  ASSUME NEW table \in Tables, NEW pt \in Tables, NEW infos \in SUBSET Infos,
         Mirrors(pt, table)
  PROVE  /\ UpsertedPaired(pt, table, infos) \in Tables
         /\ Mirrors(UpsertedPaired(pt, table, infos), Upserted(table, infos))
<1> DEFINE new == Upserted(table, infos)
           mirror == UpsertedPaired(pt, table, infos)
<1>0. \A i \in infos : Key(i) = i.address
  BY KeyIs
<1>1. ASSUME NEW k \in Keys
      PROVE  mirror[k] = IF new[k] # Absent /\ new[k].paired THEN new[k] ELSE Absent
  <2>1. CASE \E i \in infos : Key(i) = k
    <3>1. new[k] # Absent
      BY <1>0, <2>1, UpsertedRecord, KeyIs
    <3>2. mirror[k] = IF new[k].paired THEN new[k] ELSE Absent
      BY <2>1 DEF UpsertedPaired
    <3> QED BY <3>1, <3>2
  <2>2. CASE ~(\E i \in infos : Key(i) = k) /\ \E i \in infos : k \in Stale(table, i)
    BY <2>2 DEF UpsertedPaired, Upserted
  <2>3. CASE ~(\E i \in infos : Key(i) = k) /\ ~\E i \in infos : k \in Stale(table, i)
    BY <2>3 DEF UpsertedPaired, Upserted, Mirrors
  <2> QED BY <2>1, <2>2, <2>3
<1>2. mirror = [k \in Keys |-> mirror[k]]
  BY DEF UpsertedPaired
<1>3. new \in Tables
  BY UpsertedType
<1> HIDE DEF new, mirror
<1>4. mirror \in Tables
  BY <1>1, <1>2, <1>3 DEF Tables
<1> QED BY <1>1, <1>4 DEF Mirrors, new, mirror

-----------------------------------------------------------------------------
(* The two lists                                                           *)

CacheGood == /\ discovered \in Tables /\ paired \in Tables
             /\ id_to_key \in [Ids \cup {Radio} -> Addrs \cup {Absent}]
             /\ address_to_id \in [Addrs -> Ids \cup {Absent}]
             /\ Tidy(discovered) /\ Mirrors(paired, discovered)

NodeGood == /\ devices \in Tables /\ paired_devices \in Tables
            /\ Tidy(devices) /\ Mirrors(paired_devices, devices)

\* A record of a tidy table is one whose address is its key.
LEMMA RecordIs ==
  ASSUME NEW table \in Tables, Tidy(table), NEW k \in Keys, table[k] # Absent
  PROVE  /\ table[k] \in Infos /\ table[k].address = k /\ k \in Addrs
         /\ table[k].device_id \in Ids
<1>1. table[k] \in Infos
  BY DEF Tables
<1> QED BY <1>1, KeyIs DEF Tidy

\* An upsert keeps the cache in order, and files the record under its device.
LEMMA CacheUpsertKeeps ==
  ASSUME CacheGood, NEW info \in Infos, CacheUpsert({info})
  PROVE  CacheGood' /\ id_to_key'[info.device_id] = info.address
<1>1. Distinct({info})
  BY DEF Distinct
<1>2. /\ discovered' = Upserted(discovered, {info})
      /\ paired' = UpsertedPaired(paired, discovered, {info})
  BY DEF CacheUpsert
<1>3. /\ discovered' \in Tables /\ Tidy(discovered')
      /\ paired' \in Tables /\ Mirrors(paired', discovered')
  BY <1>1, <1>2, UpsertedType, UpsertedTidy, UpsertedMirrors DEF CacheGood
<1>4. id_to_key' = [p \in Ids \cup {Radio} |->
         IF info.device_id = p THEN info.address
         ELSE IF \E k \in Stale(discovered, info) : discovered[k].device_id = p THEN Absent
         ELSE id_to_key[p]]
  BY KeyIs DEF CacheUpsert
<1>5. address_to_id' = [a \in Addrs |-> IF info.address = a THEN info.device_id ELSE address_to_id[a]]
  BY KeyIs DEF CacheUpsert
<1>6. id_to_key' \in [Ids \cup {Radio} -> Addrs \cup {Absent}]
  BY <1>4, KeyIs DEF CacheGood
<1>7. address_to_id' \in [Addrs -> Ids \cup {Absent}]
  BY <1>5, KeyIs DEF CacheGood
<1> QED BY <1>3, <1>4, <1>6, <1>7, KeyIs DEF CacheGood, Tidy, Mirrors

\* So does a removal.
LEMMA CacheRemoveKeeps ==
  ASSUME CacheGood, NEW k \in Addrs, NEW a, CacheRemove(k, a)
  PROVE  /\ CacheGood' /\ discovered'[k] = Absent
         /\ \A l \in Keys \ {k} : discovered'[l] = discovered[l]
         /\ \A p \in Ids : ~(discovered[k] # Absent /\ discovered[k].device_id = p)
                            => id_to_key'[p] = id_to_key[p]
<1>1. /\ k \in Keys
      /\ discovered' = [discovered EXCEPT ![k] = Absent] /\ paired' = [paired EXCEPT ![k] = Absent]
  BY KeyIs DEF CacheRemove
<1>2. /\ discovered' \in Tables /\ paired' \in Tables
      /\ discovered'[k] = Absent /\ paired'[k] = Absent
      /\ \A l \in Keys \ {k} : discovered'[l] = discovered[l] /\ paired'[l] = paired[l]
  BY <1>1 DEF CacheGood, Tables
<1>3. Tidy(discovered)' /\ Mirrors(paired, discovered)'
  BY <1>2 DEF CacheGood, Tidy, Mirrors
<1>4. /\ id_to_key' \in [Ids \cup {Radio} -> Addrs \cup {Absent}]
      /\ \A p \in Ids : ~(discovered[k] # Absent /\ discovered[k].device_id = p)
                         => id_to_key'[p] = id_to_key[p]
  <2> DEFINE Gone(p) == discovered[k] # Absent /\ discovered[k].device_id = p
  <2>1. id_to_key' = [p \in Ids \cup {Radio} |-> IF Gone(p) THEN Absent ELSE id_to_key[p]]
    BY DEF CacheRemove
  <2>2. id_to_key \in [Ids \cup {Radio} -> Addrs \cup {Absent}]
    BY DEF CacheGood
  <2> HIDE DEF Gone
  <2>3. /\ id_to_key' \in [Ids \cup {Radio} -> Addrs \cup {Absent}]
        /\ \A p \in Ids : ~Gone(p) => id_to_key'[p] = id_to_key[p]
    BY <2>1, <2>2
  <2> QED BY <2>3 DEF Gone
<1>5. address_to_id' \in [Addrs -> Ids \cup {Absent}]
  BY KeyIs DEF CacheRemove, CacheGood
<1> QED BY <1>2, <1>3, <1>4, <1>5 DEF CacheGood

\* A record whose flags are written, and its address as it was, is the device's still.
LEMMA FlagType ==
  ASSUME NEW i \in Infos, NEW x \in {"paired", "connected"}, NEW b \in BOOLEAN
  PROVE  /\ [i EXCEPT ![x] = b] \in Infos
         /\ [i EXCEPT ![x] = b].device_id = i.device_id
         /\ [i EXCEPT ![x] = b].address = i.address
         /\ x = "connected" \/ b => (i.paired => [i EXCEPT ![x] = b].paired)
<1>1. CASE x = "paired"
  BY <1>1 DEF Infos
<1>2. CASE x = "connected"
  BY <1>2 DEF Infos
<1> QED BY <1>1, <1>2

\* So does the change of a connection.
LEMMA UpdateConnectionKeeps ==
  ASSUME CacheGood, NEW k \in Addrs, NEW up \in BOOLEAN, discovered[k] # Absent,
         UpdateConnection(k, up)
  PROVE  /\ CacheGood' /\ UNCHANGED <<id_to_key, address_to_id>>
         /\ \A l \in Keys \ {k} : discovered'[l] = discovered[l]
         /\ discovered'[k] # Absent /\ discovered'[k].paired = discovered[k].paired
         /\ discovered'[k].device_id = discovered[k].device_id /\ discovered'[k].address = k
<1> DEFINE i == discovered[k]
           new == discovered'[k]
<1>0. k \in Keys /\ i \in Infos /\ i.address = k
  BY KeyIs, RecordIs DEF CacheGood
<1>1. new = [[i EXCEPT !.connected = up] EXCEPT !.address = k]
  BY <1>0 DEF UpdateConnection, CacheGood, Tables
<1>2. new \in Infos /\ new.address = k /\ new.device_id = i.device_id /\ new.paired = i.paired
  BY <1>0, <1>1 DEF Infos, Addrs
<1>3. /\ discovered' \in Tables
      /\ \A l \in Keys \ {k} : discovered'[l] = discovered[l]
  BY <1>0, <1>2 DEF UpdateConnection, CacheGood, Tables
<1>4. /\ paired'[k] = IF new.paired THEN new ELSE paired[k]
      /\ paired' \in Tables
      /\ \A l \in Keys \ {k} : paired'[l] = paired[l]
  BY <1>0, <1>2 DEF UpdateConnection, CacheGood, Tables
<1> HIDE DEF new
<1>5. new # Absent
  BY <1>2, KeyIs
<1>6. \A l \in Keys : discovered'[l] # Absent =>
         /\ discovered[l] # Absent
         /\ Key(discovered'[l]) = Key(discovered[l]) /\ discovered'[l].device_id = discovered[l].device_id
  BY <1>0, <1>2, <1>3, KeyIs DEF new
<1>7. Tidy(discovered)'
  BY <1>6 DEF CacheGood, Tidy
<1>8. paired[k] = IF i.paired THEN i ELSE Absent
  BY <1>0 DEF CacheGood, Mirrors
<1>9. Mirrors(paired, discovered)'
  BY <1>2, <1>3, <1>4, <1>5, <1>8 DEF CacheGood, Mirrors, new
<1> QED BY <1>2, <1>3, <1>4, <1>5, <1>7, <1>9 DEF CacheGood, UpdateConnection, new

\* What the cache finds for an id is the key of a record.
LEMMA FindByIdFinds ==
  ASSUME CacheGood, NEW p \in Ids \cup {Radio}
  PROVE  /\ FindById(p) \in Addrs \cup {Absent}
         /\ FindById(p) # Absent => /\ discovered[FindById(p)] \in Infos
                                    /\ discovered[FindById(p)].address = FindById(p)
                                    /\ \/ FindById(p) = id_to_key[p]
                                       \/ discovered[FindById(p)].device_id = p
         /\ id_to_key[p] # Absent /\ discovered[id_to_key[p]] # Absent => FindById(p) = id_to_key[p]
<1>1. id_to_key[p] \in Addrs \cup {Absent}
  BY DEF CacheGood
<1>2. CASE id_to_key[p] # Absent /\ discovered[id_to_key[p]] # Absent
  <2>1. FindById(p) = id_to_key[p] /\ id_to_key[p] \in Keys
    BY <1>1, <1>2, KeyIs DEF FindById
  <2> QED BY <1>1, <1>2, <2>1, RecordIs DEF CacheGood
<1>3. CASE ~(id_to_key[p] # Absent /\ discovered[id_to_key[p]] # Absent)
  <2>1. CASE \E k \in Keys : discovered[k] # Absent /\ discovered[k].device_id = p
    <3>1. /\ FindById(p) \in Keys /\ discovered[FindById(p)] # Absent
          /\ discovered[FindById(p)].device_id = p
      BY <1>3, <2>1 DEF FindById
    <3> QED BY <1>3, <3>1, RecordIs DEF CacheGood
  <2>2. CASE ~\E k \in Keys : discovered[k] # Absent /\ discovered[k].device_id = p
    <3>1. FindById(p) = Absent
      BY <1>3, <2>2 DEF FindById
    <3> QED BY <1>3, <3>1
  <2> QED BY <2>1, <2>2
<1> QED BY <1>2, <1>3

\* The id the cache has for an address is one.
LEMMA CachedPathType ==
  ASSUME CacheGood, NEW a \in Addrs
  PROVE  /\ CachedPath(a) \in Ids \cup {Absent}
         /\ CachedPath(a) # Absent => \/ CachedPath(a) = address_to_id[a]
                                      \/ discovered[a] # Absent /\ CachedPath(a) = discovered[a].device_id
<1>1. a \in Keys /\ address_to_id[a] \in Ids \cup {Absent}
  BY KeyIs DEF CacheGood
<1>2. discovered[a] # Absent => discovered[a].device_id \in Ids
  BY <1>1, RecordIs DEF CacheGood
<1> QED BY <1>1, <1>2 DEF CachedPath

\* The node's list stays in order, whatever it is told.
LEMMA NodeUpsertKeeps ==
  ASSUME NodeGood, NEW infos \in SUBSET Infos, Distinct(infos), NodeUpsert(infos)
  PROVE  NodeGood'
<1>1. /\ devices' = Upserted(devices, infos)
      /\ paired_devices' = UpsertedPaired(paired_devices, devices, infos)
  BY DEF NodeUpsert
<1> QED BY <1>1, UpsertedType, UpsertedTidy, UpsertedMirrors DEF NodeGood

LEMMA NodeRemoveKeeps ==
  ASSUME NodeGood, NEW a, NodeRemove(a)
  PROVE  /\ NodeGood'
         /\ \A k \in Keys : devices[k] # Absent /\ devices'[k] = Absent => a = k
<1> DEFINE Gone(k) == devices[k] # Absent /\ a \in {k, devices[k].address}
<1>1. /\ devices' = [k \in Keys |-> IF Gone(k) THEN Absent ELSE devices[k]]
      /\ paired_devices' = [k \in Keys |-> IF Gone(k) THEN Absent ELSE paired_devices[k]]
  BY DEF NodeRemove
<1>2. \A k \in Keys : Gone(k) => a = k
  BY RecordIs DEF NodeGood
<1> HIDE DEF Gone
<1>3. devices' \in Tables /\ paired_devices' \in Tables
  BY <1>1 DEF NodeGood, Tables
<1>4. Tidy(devices)' /\ Mirrors(paired_devices, devices)'
  BY <1>1, KeyIs DEF NodeGood, Tidy, Mirrors
<1> QED BY <1>1, <1>2, <1>3, <1>4 DEF NodeGood

LEMMA NodeSetKeeps ==
  ASSUME NodeGood, NEW a, NEW x \in {"paired", "connected"}, NEW b \in BOOLEAN, NodeSet(a, x, b)
  PROVE  /\ NodeGood'
         /\ \A k \in Keys : (devices'[k] = Absent) = (devices[k] = Absent)
<1>0. devices \in Tables /\ Tidy(devices) /\ paired_devices \in Tables /\ Mirrors(paired_devices, devices)
  BY DEF NodeGood
<1>1. devices' = [k \in Keys |-> IF MatchesRecord(k, a) THEN [devices[k] EXCEPT ![x] = b] ELSE devices[k]]
  BY DEF NodeSet
<1>2. ASSUME NEW k \in Keys
      PROVE  /\ devices'[k] \in Infos \cup {Absent}
             /\ (devices'[k] = Absent) = (devices[k] = Absent)
             /\ devices[k] # Absent => /\ devices'[k].device_id = devices[k].device_id
                                       /\ Key(devices'[k]) = Key(devices[k])
             /\ ~MatchesRecord(k, a) => devices'[k] = devices[k]
             /\ MatchesRecord(k, a) => devices[k] # Absent
  <2>1. CASE MatchesRecord(k, a)
    <3>1. devices[k] \in Infos
      BY <1>0, <2>1, RecordIs DEF MatchesRecord
    <3>2. devices'[k] = [devices[k] EXCEPT ![x] = b]
      BY <1>1, <2>1
    <3>3. /\ devices'[k] \in Infos
          /\ devices'[k].device_id = devices[k].device_id /\ devices'[k].address = devices[k].address
      BY <3>1, <3>2, FlagType
    <3>4. Key(devices'[k]) = Key(devices[k]) /\ devices'[k] # Absent /\ devices[k] # Absent
      BY <3>1, <3>3, KeyIs
    <3> QED BY <2>1, <3>3, <3>4
  <2>2. CASE ~MatchesRecord(k, a)
    BY <1>0, <1>1, <2>2 DEF Tables
  <2> QED BY <2>1, <2>2
<1>3. devices' \in Tables
  <2>1. devices' = [k \in Keys |-> devices'[k]]
    BY <1>1
  <2> QED BY <1>2, <2>1 DEF Tables
<1>4. Tidy(devices)'
  BY <1>0, <1>2 DEF Tidy
<1>5. paired_devices' = [k \in Keys |->
         IF ~MatchesRecord(k, a) THEN paired_devices[k]
         ELSE IF devices'[k].paired THEN devices'[k] ELSE Absent]
  BY DEF NodeSet
<1> DEFINE M(k) == MatchesRecord(k, a)
<1> HIDE DEF M
<1>6. Mirrors(paired_devices, devices)'
  BY <1>0, <1>2, <1>5 DEF Mirrors
<1>7. paired_devices' \in Tables
  <2>1. \A k \in Keys : paired_devices'[k] \in Infos \cup {Absent}
    BY <1>2, <1>6 DEF Mirrors
  <2>2. paired_devices' = [k \in Keys |-> paired_devices'[k]]
    BY <1>5
  <2> QED BY <2>1, <2>2 DEF Tables
<1> QED BY <1>2, <1>3, <1>4, <1>6, <1>7 DEF NodeGood

LEMMA TellFoundKeeps ==
  ASSUME NodeGood, NEW i \in Infos, Tell(Found(i))
  PROVE  NodeGood' /\ devices' = Upserted(devices, {i})
<1>1. NodeUpsert({i})
  BY DEF Tell, NodeTakes, Found
<1>2. Distinct({i})
  BY DEF Distinct
<1> QED BY <1>1, <1>2, NodeUpsertKeeps DEF NodeUpsert

LEMMA TellPairedKeeps ==
  ASSUME NodeGood, NEW infos \in SUBSET Infos, Distinct(infos), Tell(PairedUpdated(infos))
  PROVE  NodeGood' /\ devices' = Upserted(devices, infos)
<1>1. NodeUpsert(infos)
  BY DEF Tell, NodeTakes, PairedUpdated
<1> QED BY <1>1, NodeUpsertKeeps DEF NodeUpsert

LEMMA TellRemovedKeeps ==
  ASSUME NodeGood, NEW a, Tell(Removed(a))
  PROVE  NodeGood' /\ \A k \in Keys : devices[k] # Absent /\ devices'[k] = Absent => a = k
<1>1. NodeRemove(a)
  BY DEF Tell, NodeTakes, Removed
<1> QED BY <1>1, NodeRemoveKeeps

LEMMA TellFlagKeeps ==
  ASSUME NodeGood, NEW a, NEW up \in BOOLEAN,
         Tell(Connection(a, up)) \/ Tell(PairingSucceeded(a))
  PROVE  NodeGood' /\ \A k \in Keys : (devices'[k] = Absent) = (devices[k] = Absent)
<1>1. NodeSet(a, "connected", up) \/ NodeSet(a, "paired", TRUE)
  BY DEF Tell, NodeTakes, Connection, PairingSucceeded
<1> QED BY <1>1, NodeSetKeeps

-----------------------------------------------------------------------------
(* The parts of a command                                                  *)

Among(s, p) == \E n \in 1..Len(s) : s[n] = p

OnlyLast(s, p) == \A n \in 1..Len(s) : s[n] = p => n = Len(s)

OnlyFirst(s, P) == \A n \in 2..Len(s) : s[n] \notin P

LEMMA Onward ==
  ASSUME NEW S, NEW s \in Seq(S), s # <<>>
  PROVE  /\ Tail(s) \in Seq(S) /\ Head(s) \in S
         /\ \A p : Among(s, p) <=> p = Head(s) \/ Among(Tail(s), p)
         /\ \A p : OnlyLast(s, p) => /\ OnlyLast(Tail(s), p)
                                     /\ Head(s) = p => Tail(s) = <<>>
         /\ \A P : OnlyFirst(s, P) => /\ OnlyFirst(Tail(s), P)
                                      /\ Tail(s) # <<>> => Head(Tail(s)) \notin P
<1>1. /\ Tail(s) \in Seq(S) /\ Head(s) \in S /\ Head(s) = s[1]
      /\ Len(s) \in Nat \ {0} /\ Len(Tail(s)) = Len(s) - 1
      /\ \A n \in 1..Len(s) - 1 : Tail(s)[n] = s[n + 1]
  OBVIOUS
<1> DEFINE t == Tail(s)
<1> HIDE DEF t
<1>2. t \in Seq(S) /\ Len(t) = Len(s) - 1 /\ \A n \in 1..Len(t) : t[n] = s[n + 1]
  BY <1>1 DEF t
<1>3. ASSUME NEW p PROVE Among(s, p) <=> p = Head(s) \/ Among(t, p)
  <2>1. ASSUME NEW n \in 1..Len(s), s[n] = p, p # Head(s) PROVE Among(t, p)
    <3>1. n - 1 \in 1..Len(t) /\ t[n - 1] = p
      BY <1>1, <1>2, <2>1
    <3> QED BY <3>1 DEF Among
  <2>2. ASSUME NEW n \in 1..Len(t), t[n] = p PROVE Among(s, p)
    <3>1. n + 1 \in 1..Len(s) /\ s[n + 1] = p
      BY <1>1, <1>2, <2>2
    <3> QED BY <3>1 DEF Among
  <2>3. Among(s, Head(s))
    BY <1>1 DEF Among
  <2> QED BY <2>1, <2>2, <2>3 DEF Among
<1>4. ASSUME NEW p, OnlyLast(s, p)
      PROVE  OnlyLast(t, p) /\ (Head(s) = p => t = <<>>)
  <2>1. ASSUME NEW n \in 1..Len(t), t[n] = p PROVE n = Len(t)
    <3>1. n + 1 \in 1..Len(s) /\ s[n + 1] = p
      BY <1>1, <1>2, <2>1
    <3>2. n + 1 = Len(s)
      BY <1>4, <3>1 DEF OnlyLast
    <3>3. Len(t) = Len(s) - 1 /\ Len(s) \in Nat /\ n \in Int
      BY <1>1, <1>2
    <3> QED BY <3>2, <3>3
  <2>2. OnlyLast(t, p)
    BY <2>1 DEF OnlyLast
  <2>3. Head(s) = p => Len(t) = 0
    <3>1. 1 \in 1..Len(s)
      BY <1>1
    <3>2. Head(s) = p => 1 = Len(s)
      BY <1>1, <1>4, <3>1 DEF OnlyLast
    <3> QED BY <1>2, <3>2
  <2>4. Len(t) = 0 => t = <<>>
    BY <1>2
  <2> QED BY <2>2, <2>3, <2>4
<1>5. ASSUME NEW P, OnlyFirst(s, P)
      PROVE  OnlyFirst(t, P) /\ (t # <<>> => Head(t) \notin P)
  <2>1. \A n \in 2..Len(t) : n + 1 \in 2..Len(s)
    BY <1>1, <1>2
  <2>2. OnlyFirst(t, P)
    BY <1>1, <1>2, <1>5, <2>1 DEF OnlyFirst
  <2>3. t # <<>> => Len(t) \in Nat \ {0} /\ Head(t) = t[1]
    BY <1>2
  <2>4. t # <<>> => 2 \in 2..Len(s) /\ t[1] = s[2]
    BY <1>1, <1>2, <2>3
  <2> QED BY <1>5, <2>2, <2>3, <2>4 DEF OnlyFirst
<1> QED BY <1>1, <1>3, <1>4, <1>5 DEF t

LEMMA Instead ==
  ASSUME NEW S, NEW s \in Seq(S), s # <<>>, NEW x \in S
  PROVE  LET r == <<x>> \o Tail(s) IN
           /\ r \in Seq(S) /\ r # <<>> /\ Head(r) = x
           /\ \A p : Among(r, p) <=> p = x \/ Among(Tail(s), p)
           /\ \A p : OnlyLast(s, p) /\ p # x => OnlyLast(r, p)
           /\ \A P : OnlyFirst(s, P) => OnlyFirst(r, P)
<1> DEFINE t == Tail(s)
           r == <<x>> \o t
<1>1. t \in Seq(S) /\ Len(t) = Len(s) - 1 /\ Len(s) \in Nat \ {0}
      /\ \A n \in 2..Len(s) : t[n - 1] = s[n]
  OBVIOUS
<1> HIDE DEF t
<1>2. r \in Seq(S) /\ Len(r) = 1 + Len(t) /\ r[1] = x /\ \A n \in 2..Len(r) : r[n] = t[n - 1]
  BY <1>1
<1> HIDE DEF r
<1>3. r # <<>> /\ Head(r) = x
  BY <1>1, <1>2
<1>4. Tail(r) = t
  BY <1>1 DEF r
<1>5. \A n \in 2..Len(s) : r[n] = s[n]
  BY <1>1, <1>2
<1>6. Len(r) = Len(s)
  BY <1>1, <1>2
<1>7. \A p : OnlyLast(s, p) /\ p # x => OnlyLast(r, p)
  BY <1>1, <1>2, <1>5, <1>6 DEF OnlyLast
<1>8. \A P : OnlyFirst(s, P) => OnlyFirst(r, P)
  BY <1>5, <1>6 DEF OnlyFirst
<1>9. \A p : Among(r, p) <=> p = x \/ Among(t, p)
  BY <1>2, <1>3, <1>4, Onward
<1> QED BY <1>2, <1>3, <1>7, <1>8, <1>9 DEF r, t

-----------------------------------------------------------------------------
(* What the threads are busy with                                          *)

\* A task has what it will need.
Equipped(k) ==
    /\ k.at \in {"added", "updated", "silent", "forced", "tell_found"} => k.info \in Infos
    /\ k.at \in {"connection", "read_back", "tell_connection", "remove", "tell_removed"}
         \/ k.after # "free" => k.address \in Addrs
    /\ k.at = "remove" => k.key \in Addrs

TasksGood == task \in [Threads -> Tasks] /\ \A t \in Threads : Equipped(task[t])

LEMMA TaskPut ==
  ASSUME TasksGood, NEW t \in Threads, NEW new \in Tasks, Equipped(new),
         task' = [task EXCEPT ![t] = new]
  PROVE  TasksGood' /\ task'[t] = new /\ \A u \in Threads \ {t} : task'[u] = task[u]
<1>1. \A u \in Threads : task'[u] = IF u = t THEN new ELSE task[u]
  BY DEF TasksGood
<1>2. task' \in [Threads -> Tasks]
  BY DEF TasksGood
<1> QED BY <1>1, <1>2 DEF TasksGood

\* The tasks a thread begins with.
LEMMA NewTasks ==
  /\ NoTask \in Tasks /\ Equipped(NoTask)
  /\ \A place \in {"added", "updated", "silent", "forced"}, i \in Infos :
       LET new == [NoTask EXCEPT !.at = place, !.info = i, !.after = "free"] IN
         new \in Tasks /\ Equipped(new)
  /\ \A i \in Infos, a \in Addrs, after \in {"free", "connection"} :
       LET new == [NoTask EXCEPT !.at = "updated", !.address = a, !.info = i, !.after = after] IN
         new \in Tasks /\ Equipped(new)
  /\ \A a \in Addrs, after \in {"free", "tell_connection"} :
       LET new == [NoTask EXCEPT !.at = "connection", !.address = a, !.after = after] IN
         new \in Tasks /\ Equipped(new)
  /\ \A a \in Addrs : LET new == [NoTask EXCEPT !.at = "tell_connection", !.address = a] IN
         new \in Tasks /\ Equipped(new)
  /\ \A k, a \in Addrs : LET new == [NoTask EXCEPT !.at = "remove", !.key = k, !.address = a] IN
         new \in Tasks /\ Equipped(new)
<1>1. NoTask \in Tasks /\ Equipped(NoTask)
  BY DEF NoTask, Tasks, Places, Equipped
<1>2. ASSUME NEW place \in {"added", "updated", "silent", "forced"}, NEW i \in Infos
      PROVE  LET new == [NoTask EXCEPT !.at = place, !.info = i, !.after = "free"] IN
               new \in Tasks /\ Equipped(new)
  BY DEF NoTask, Tasks, Places, Equipped
<1>3. ASSUME NEW i \in Infos, NEW a \in Addrs, NEW after \in {"free", "connection"}
      PROVE  LET new == [NoTask EXCEPT !.at = "updated", !.address = a, !.info = i, !.after = after] IN
               new \in Tasks /\ Equipped(new)
  BY DEF NoTask, Tasks, Places, Equipped, Addrs
<1>4. ASSUME NEW a \in Addrs, NEW after \in {"free", "tell_connection"}
      PROVE  LET new == [NoTask EXCEPT !.at = "connection", !.address = a, !.after = after] IN
               new \in Tasks /\ Equipped(new)
  BY DEF NoTask, Tasks, Places, Equipped, Addrs
<1>5. ASSUME NEW a \in Addrs
      PROVE  LET new == [NoTask EXCEPT !.at = "tell_connection", !.address = a] IN
               new \in Tasks /\ Equipped(new)
  BY DEF NoTask, Tasks, Places, Equipped, Addrs
<1>6. ASSUME NEW k \in Addrs, NEW a \in Addrs
      PROVE  LET new == [NoTask EXCEPT !.at = "remove", !.key = k, !.address = a] IN
               new \in Tasks /\ Equipped(new)
  BY DEF NoTask, Tasks, Places, Equipped, Addrs
<1> QED BY <1>1, <1>2, <1>3, <1>4, <1>5, <1>6

\* Going on keeps what the task has.
LEMMA GoKeeps ==
  ASSUME TasksGood, NEW t \in Threads, NEW to, Go(t, to),
         \/ to = "free"
         \/ to = "tell_found" /\ task[t].info \in Infos
         \/ to \in {"connection", "tell_connection", "read_back", "tell_removed"}
              /\ task[t].address \in Addrs
  PROVE  /\ TasksGood' /\ \A u \in Threads \ {t} : task'[u] = task[u]
         /\ to = "free" => task'[t] = NoTask
         /\ to # "free" => /\ task'[t].at = to /\ task'[t].key = task[t].key
                           /\ task'[t].address = task[t].address
                           /\ to \notin {"connection", "tell_connection"} =>
                                task'[t].after = task[t].after /\ task'[t].info = task[t].info
                           /\ to \in {"connection", "tell_connection"} =>
                                task'[t].after = "tell_connection"
<1> DEFINE k == task[t]
           new == IF to = "free" THEN NoTask
                  ELSE IF to \in {"connection", "tell_connection"}
                  THEN [k EXCEPT !.at = to, !.info = Absent, !.after = "tell_connection"]
                  ELSE [k EXCEPT !.at = to]
<1>1. task' = [task EXCEPT ![t] = new]
  BY DEF Go, TasksGood
<1>2. k \in Tasks /\ Equipped(k)
  BY DEF TasksGood
<1>3. CASE to = "free"
  <2>1. new = NoTask
    BY <1>3
  <2> HIDE DEF new
  <2> QED BY <1>1, <1>3, <2>1, NewTasks, TaskPut
<1>4. CASE to # "free"
  <2>1. /\ new.at = to /\ new.key = k.key /\ new.address = k.address
        /\ to \notin {"connection", "tell_connection"} => new.after = k.after /\ new.info = k.info
        /\ to \in {"connection", "tell_connection"} => new.after = "tell_connection"
        /\ new \in Tasks
    BY <1>2, <1>4 DEF Tasks, Places
  <2> HIDE DEF new
  <2>2. Equipped(new)
    BY <1>2, <1>4, <2>1 DEF Equipped
  <2> QED BY <1>1, <1>4, <2>1, <2>2, TaskPut
<1> QED BY <1>3, <1>4

\* A task that is over goes where it was to go after.
LEMMA AfterGood ==
  ASSUME TasksGood, NEW t \in Threads
  PROVE  \/ task[t].after = "free"
         \/ task[t].after \in {"connection", "tell_connection"} /\ task[t].address \in Addrs
<1>1. task[t] \in Tasks /\ Equipped(task[t])
  BY DEF TasksGood
<1> QED BY <1>1 DEF Tasks, Equipped

\* The record of a device.
LEMMA InfoType ==
  ASSUME NEW i \in Ids, NEW p \in BOOLEAN, NEW up \in BOOLEAN
  PROVE  /\ Info(i, p, up) \in Infos /\ Info(i, p, up).device_id = i
         /\ Info(i, p, up).address = MacOf[i] /\ MacOf[i] \in Addrs
         /\ [Info(i, p, up) EXCEPT !.address = Extracted(i)] \in Infos
         /\ [Info(i, p, up) EXCEPT !.address = Extracted(i)].device_id = i
         /\ [Info(i, p, up) EXCEPT !.address = Extracted(i)].address = Extracted(i)
         /\ Extracted(i) \in Addrs
<1>1. MacOf[i] \in Macs /\ Extracted(i) \in Macs \cup {Radio}
  BY DEF Macs, Extracted
<1> HIDE DEF Extracted
<1> QED BY <1>1 DEF Info, Infos, Addrs

-----------------------------------------------------------------------------
(* What the worker has to do                                               *)

Aiming == {"finalize", "succeeded", "connection", "connection_quietly", "believed", "unpair", "forget"}

Batched == {"silent", "forced", "send_paired"}

\* A command is about a device if its parts are; a scan ends with its watchers.
Plan == /\ \A p \in Aiming : Among(todo, p) => goal \in Ids
        /\ OnlyLast(todo, "watch") /\ OnlyFirst(todo, Batched)
        /\ Among(todo, "watch") => ~Among(todo, "unpair")

\* What a part goes through is what it takes.
Batches == todo # <<>> => /\ Head(todo) = "send_paired" => batch \subseteq Infos /\ Distinct(batch)
                          /\ Head(todo) \in {"silent", "forced"} => batch \subseteq Ids

WorkGood == /\ todo \in Seq(PartNames) /\ goal \in Ids \cup {Absent} /\ batch \subseteq Ids \cup Infos
            /\ Plan /\ Batches

\* The client has been told that a scan is on from its command to its end.
Signals == /\ running # {} => scanning
           /\ scanning => signalled = "scan_started"
           /\ Among(todo, "watch") <=> signalled = "scan_started" /\ ~scanning

ShapeGood == /\ objects \in [Aeps -> {"gone", "near", "paired"}]
             /\ running \subseteq Watchers /\ seen \in [Watchers -> SUBSET Aeps]
             /\ scanning \in BOOLEAN /\ signalled \in {"scan_started", "scan_stopped"}
             /\ stimuli \in 0..MaxStimuli /\ withdrawn \subseteq Aeps

Inv == ShapeGood /\ TasksGood /\ WorkGood /\ Signals /\ CacheGood /\ NodeGood

\* The worker goes on to the next part.
LEMMA ProceedKeeps ==
  ASSUME WorkGood, todo # <<>>, todo' = Tail(todo), goal' = goal \/ goal' \in Ids,
         batch' \subseteq Ids \cup Infos
  PROVE  /\ WorkGood' /\ \A p : Among(todo, p) <=> p = Head(todo) \/ Among(todo, p)'
         /\ Head(todo) = "watch" => todo' = <<>>
<1>1. todo \in Seq(PartNames) /\ todo' = Tail(todo) /\ (goal' = goal \/ goal' \in Ids)
  BY DEF WorkGood
<1>2. /\ todo' \in Seq(PartNames)
      /\ \A p : Among(todo, p) <=> p = Head(todo) \/ Among(todo, p)'
      /\ \A p : OnlyLast(todo, p) => OnlyLast(todo, p)' /\ (Head(todo) = p => todo' = <<>>)
      /\ \A P : OnlyFirst(todo, P) => OnlyFirst(todo, P)' /\ (todo' # <<>> => Head(todo') \notin P)
  BY <1>1, Onward
<1>3. OnlyFirst(todo, Batched)' /\ (todo' # <<>> => Head(todo') \notin Batched)
  BY <1>2 DEF WorkGood, Plan
<1>4. Plan'
  BY <1>1, <1>2, <1>3 DEF WorkGood, Plan
<1>5. Batches'
  BY <1>3 DEF Batches, Batched
<1> QED BY <1>1, <1>2, <1>4, <1>5 DEF WorkGood, Plan

\* The worker has something to go through.
LEMMA InsteadKeeps ==
  ASSUME WorkGood, todo # <<>>, Head(todo) # "watch", NEW x \in Batched,
         todo' = <<x>> \o Tail(todo), goal' = goal, batch' \subseteq Ids \cup Infos,
         x = "send_paired" => batch' \subseteq Infos /\ Distinct(batch)',
         x # "send_paired" => batch' \subseteq Ids
  PROVE  /\ WorkGood'
         /\ \A p : Among(todo, p)' => p = x \/ Among(todo, p)
         /\ \A p : Among(todo, p) => p = Head(todo) \/ Among(todo, p)'
<1>1. todo \in Seq(PartNames) /\ x \in PartNames /\ x # "watch" /\ x # "unpair" /\ x \notin Aiming
  BY DEF WorkGood, PartNames, Batched, Aiming
<1>2. /\ todo' \in Seq(PartNames) /\ todo' # <<>> /\ Head(todo') = x
      /\ \A p : Among(todo, p)' <=> p = x \/ Among(Tail(todo), p)
      /\ \A p : OnlyLast(todo, p) /\ p # x => OnlyLast(todo, p)'
      /\ \A P : OnlyFirst(todo, P) => OnlyFirst(todo, P)'
  BY <1>1, Instead
<1>3. \A p : Among(todo, p) <=> p = Head(todo) \/ Among(Tail(todo), p)
  BY <1>1, Onward
<1>4. Plan'
  BY <1>1, <1>2, <1>3 DEF WorkGood, Plan
<1>5. Batches'
  BY <1>2 DEF Batches, Batched
<1> QED BY <1>1, <1>2, <1>3, <1>4, <1>5 DEF WorkGood

\* A command begins, or is given up.
LEMMA PartsGood ==
  /\ \A p : ~Among(<<>>, p)
  /\ LET s == <<"paired", "tell_paired", "visible", "watch">> IN
       /\ s \in Seq(PartNames) /\ s # <<>> /\ Head(s) \notin Batched
       /\ \A p \in Aiming : ~Among(s, p)
       /\ OnlyLast(s, "watch") /\ OnlyFirst(s, Batched) /\ Among(s, "watch")
  /\ LET s == <<"paired", "tell_paired">> IN
       /\ s \in Seq(PartNames) /\ s # <<>> /\ Head(s) \notin Batched
       /\ \A p \in Aiming \cup {"watch"} : ~Among(s, p)
       /\ OnlyLast(s, "watch") /\ OnlyFirst(s, Batched)
  /\ \A s \in {<<"paired", "finalize", "succeeded", "connection", "tell_paired">>, <<"connection">>,
               <<"connection_quietly", "believed">>} :
       /\ s \in Seq(PartNames) /\ s # <<>> /\ Head(s) \notin Batched
       /\ \A p \in {"watch", "unpair", "forget"} : ~Among(s, p)
       /\ OnlyLast(s, "watch") /\ OnlyFirst(s, Batched)
  /\ \A s \in {<<"connection_quietly", "believed", "unpair", "forget">>, <<"unpair", "forget">>} :
       /\ s \in Seq(PartNames) /\ s # <<>> /\ Head(s) \notin Batched
       /\ ~Among(s, "watch")
       /\ OnlyLast(s, "watch") /\ OnlyFirst(s, Batched)
<1>1. \A p : ~Among(<<>>, p)
  BY DEF Among
<1>2. LET s == <<"paired", "tell_paired", "visible", "watch">> IN
       /\ s \in Seq(PartNames) /\ s # <<>> /\ Head(s) \notin Batched
       /\ \A p \in Aiming : ~Among(s, p)
       /\ OnlyLast(s, "watch") /\ OnlyFirst(s, Batched) /\ Among(s, "watch")
  BY DEF Among, OnlyLast, OnlyFirst, Batched, Aiming, PartNames
<1>3. LET s == <<"paired", "tell_paired">> IN
       /\ s \in Seq(PartNames) /\ s # <<>> /\ Head(s) \notin Batched
       /\ \A p \in Aiming \cup {"watch"} : ~Among(s, p)
       /\ OnlyLast(s, "watch") /\ OnlyFirst(s, Batched)
  BY DEF Among, OnlyLast, OnlyFirst, Batched, Aiming, PartNames
<1>4. ASSUME NEW s \in {<<"paired", "finalize", "succeeded", "connection", "tell_paired">>, <<"connection">>,
                       <<"connection_quietly", "believed">>}
      PROVE
       /\ s \in Seq(PartNames) /\ s # <<>> /\ Head(s) \notin Batched
       /\ \A p \in {"watch", "unpair", "forget"} : ~Among(s, p)
       /\ OnlyLast(s, "watch") /\ OnlyFirst(s, Batched)
  <2>1. CASE s = <<"paired", "finalize", "succeeded", "connection", "tell_paired">>
    BY <2>1 DEF Among, OnlyLast, OnlyFirst, Batched, PartNames
  <2>2. CASE s = <<"connection">>
    BY <2>2 DEF Among, OnlyLast, OnlyFirst, Batched, PartNames
  <2>3. CASE s = <<"connection_quietly", "believed">>
    BY <2>3 DEF Among, OnlyLast, OnlyFirst, Batched, PartNames
  <2> QED BY <2>1, <2>2, <2>3
<1>5. ASSUME NEW s \in {<<"connection_quietly", "believed", "unpair", "forget">>, <<"unpair", "forget">>}
      PROVE
       /\ s \in Seq(PartNames) /\ s # <<>> /\ Head(s) \notin Batched
       /\ ~Among(s, "watch")
       /\ OnlyLast(s, "watch") /\ OnlyFirst(s, Batched)
  <2>1. CASE s = <<"connection_quietly", "believed", "unpair", "forget">>
    BY <2>1 DEF Among, OnlyLast, OnlyFirst, Batched, PartNames
  <2>2. CASE s = <<"unpair", "forget">>
    BY <2>2 DEF Among, OnlyLast, OnlyFirst, Batched, PartNames
  <2> QED BY <2>1, <2>2
<1> QED BY <1>1, <1>2, <1>3, <1>4, <1>5

-----------------------------------------------------------------------------
(* Who touches what                                                        *)

LEMMA StepTouches ==
  ASSUME NEW t \in Threads, Step(t)
  PROVE  /\ UNCHANGED <<objects, seen, workerVars, scanVars, stimuli, withdrawn>>
         /\ Upsert(t) \/ Remove(t) \/ (\E up \in Reports : SetConnection(t, up)) \/ UNCHANGED cache
         /\ TellFound(t) \/ TellRemoved(t) \/ (\E up \in Reports : TellConnection(t, up)) \/ UNCHANGED node
<1>1. CASE Upsert(t)
  BY <1>1 DEF Upsert, node
<1>2. CASE TellFound(t)
  BY <1>2 DEF TellFound, cache
<1>3. CASE ReadBack(t)
  BY <1>3 DEF ReadBack, listVars
<1>4. CASE Remove(t)
  BY <1>4 DEF Remove, node
<1>5. CASE TellRemoved(t)
  BY <1>5 DEF TellRemoved
<1>6. ASSUME NEW up \in Reports, SetConnection(t, up)
      PROVE  UNCHANGED <<objects, seen, workerVars, scanVars, stimuli, withdrawn>> /\ UNCHANGED node
  BY <1>6 DEF SetConnection, node
<1>7. ASSUME NEW up \in Reports, TellConnection(t, up)
      PROVE  UNCHANGED <<objects, seen, workerVars, scanVars, stimuli, withdrawn>> /\ UNCHANGED cache
  BY <1>7 DEF TellConnection, cache
<1> QED BY <1>1, <1>2, <1>3, <1>4, <1>5, <1>6, <1>7 DEF Step

\* A handler begins something, and no more.
LEMMA WatcherTouches ==
  ASSUME NEW w \in Watchers, Watcher(w)
  PROVE  UNCHANGED <<objects, workerVars, scanVars, stimuli, listVars>>
<1> QED BY DEF Watcher, HandleDeviceAdded, HandleDeviceUpdated, HandleDeviceRemoved

LEMMA CommandTouches ==
  ASSUME Command
  PROVE  /\ UNCHANGED <<seen, task, listVars>> /\ todo = <<>> /\ Free("worker")
         /\ stimuli < MaxStimuli /\ stimuli' = stimuli + 1
<1>1. CASE StartScan \/ StopScan \/ Refresh
  BY <1>1 DEF StartScan, StopScan, Refresh, Idle, Stimulus
<1>2. ASSUME NEW i \in Ids, Pair(i) \/ Connect(i) \/ Disconnect(i) \/ UnpairDevice(i)
      PROVE  /\ UNCHANGED <<seen, task, listVars>> /\ todo = <<>> /\ Free("worker")
             /\ stimuli < MaxStimuli /\ stimuli' = stimuli + 1
  BY <1>2 DEF Pair, Connect, Disconnect, UnpairDevice, Idle, Stimulus
<1> QED BY <1>1, <1>2 DEF Command

LEMMA WorkTouches ==
  ASSUME Work
  PROVE  /\ todo # <<>> /\ UNCHANGED <<stimuli, withdrawn, cache>>
         /\ SendPaired \/ Succeed \/ UNCHANGED node
<1>1. CASE Enumerate \/ ReadPaired
  BY <1>1 DEF Enumerate, ReadPaired, Part, listVars
<1>2. CASE SendPaired \/ Succeed
  BY <1>2 DEF SendPaired, Succeed, Part
<1>3. CASE CheckConnection \/ TellBelieved \/ UnpairAsync \/ ForgetUnpaired
  BY <1>3 DEF CheckConnection, TellBelieved, UnpairAsync, ForgetUnpaired, Part, listVars
<1>4. ASSUME NEW i \in Ids, NEW up \in Reports, Ingest(i, up)
      PROVE  todo # <<>> /\ UNCHANGED <<stimuli, withdrawn, cache, node>>
  BY <1>4 DEF Ingest, listVars
<1>5. ASSUME NEW up \in Reports, Finalize(up)
      PROVE  todo # <<>> /\ UNCHANGED <<stimuli, withdrawn, cache, node>>
  BY <1>5 DEF Finalize, Part, listVars
<1>6. ASSUME NEW started \in SUBSET Watchers, StartWatchers(started)
      PROVE  todo # <<>> /\ UNCHANGED <<stimuli, withdrawn, cache, node>>
  BY <1>6 DEF StartWatchers, Part, listVars
<1> QED BY <1>1, <1>2, <1>3, <1>4, <1>5, <1>6 DEF Work, node

\* The cache is touched by upserts, removals and changes of a connection; the node's list by
\* what it is told.
LEMMA CacheTouched ==
  ASSUME [Next]_vars
  PROVE  \/ \E t \in Threads : Upsert(t) \/ Remove(t) \/ \E up \in Reports : SetConnection(t, up)
         \/ UNCHANGED cache
<1>1. CASE UNCHANGED vars
  BY <1>1 DEF vars, listVars
<1>2. CASE Windows
  BY <1>2 DEF Windows, WindowsSets, listVars
<1>3. CASE Command
  BY <1>3, CommandTouches DEF listVars
<1>4. CASE Work
  BY <1>4, WorkTouches
<1>5. CASE \E t \in Threads : Step(t)
  BY <1>5, StepTouches
<1>6. CASE \E w \in Watchers : Watcher(w)
  BY <1>6, WatcherTouches DEF listVars
<1> QED BY <1>1, <1>2, <1>3, <1>4, <1>5, <1>6 DEF Next

LEMMA NodeTouched ==
  ASSUME [Next]_vars
  PROVE  \/ \E t \in Threads : TellFound(t) \/ TellRemoved(t) \/ \E up \in Reports : TellConnection(t, up)
         \/ SendPaired \/ Succeed \/ UNCHANGED node
<1>1. CASE UNCHANGED vars
  BY <1>1 DEF vars, listVars
<1>2. CASE Windows
  BY <1>2 DEF Windows, WindowsSets, listVars
<1>3. CASE Command
  BY <1>3, CommandTouches DEF listVars
<1>4. CASE Work
  BY <1>4, WorkTouches
<1>5. CASE \E t \in Threads : Step(t)
  BY <1>5, StepTouches
<1>6. CASE \E w \in Watchers : Watcher(w)
  BY <1>6, WatcherTouches DEF listVars
<1> QED BY <1>1, <1>2, <1>3, <1>4, <1>5, <1>6 DEF Next

-----------------------------------------------------------------------------
(* The invariant                                                           *)

LEMMA InitGood == ASSUME Init PROVE Inv
<1>1. Empty \in Tables /\ Tidy(Empty) /\ Mirrors(Empty, Empty)
  BY DEF Empty, Tables, Tidy, Mirrors
<1>2. CacheGood /\ NodeGood
  <2>1. /\ discovered = Empty /\ paired = Empty /\ devices = Empty /\ paired_devices = Empty
    BY DEF Init, ListsInit
  <2>2. /\ id_to_key = [p \in Ids \cup {Radio} |-> Absent]
        /\ address_to_id = [a \in Addrs |-> Absent]
    BY KeyIs DEF Init, ListsInit
  <2> QED BY <1>1, <2>1, <2>2 DEF CacheGood, NodeGood
<1>3. TasksGood
  BY NewTasks DEF Init, TasksGood
<1>4. WorkGood
  BY PartsGood DEF Init, WorkGood, Plan, Batches, OnlyLast, OnlyFirst
<1>5. Signals
  BY PartsGood DEF Init, Signals
<1>6. ShapeGood
  <2>1. seen \in [Watchers -> SUBSET Aeps] /\ running \subseteq Watchers /\ withdrawn \subseteq Aeps
    BY DEF Init
  <2>2. stimuli \in 0..MaxStimuli
    BY WindowsBounds DEF Init
  <2> QED BY <2>1, <2>2 DEF Init, ShapeGood
<1> QED BY <1>2, <1>3, <1>4, <1>5, <1>6 DEF Inv

\* The cache stays in order, and what is paired stays paired.
LEMMA CacheKept ==
  ASSUME Inv, [Next]_vars
  PROVE  /\ CacheGood'
         /\ \A k \in Keys : discovered[k] # Absent /\ discovered[k].paired /\ discovered'[k] # Absent
                              => discovered'[k].paired
<1> USE DEF Inv
<1>1. CASE UNCHANGED cache
  BY <1>1 DEF cache, CacheGood, Tidy, Mirrors
<1>2. ASSUME NEW t \in Threads, Upsert(t)
      PROVE  /\ CacheGood'
             /\ \A k \in Keys : discovered[k] # Absent /\ discovered[k].paired /\ discovered'[k] # Absent
                                  => discovered'[k].paired
  <2> DEFINE i == task[t].info
  <2>1. i \in Infos /\ CacheUpsert({i})
    BY <1>2 DEF Upsert, TasksGood, Equipped
  <2> HIDE DEF i
  <2>2. discovered' = Upserted(discovered, {i}) /\ discovered \in Tables
    BY <2>1 DEF CacheUpsert, CacheGood
  <2> QED BY <2>1, <2>2, CacheUpsertKeeps, UpsertedRecord
<1>3. ASSUME NEW t \in Threads, Remove(t)
      PROVE  /\ CacheGood'
             /\ \A k \in Keys : discovered[k] # Absent /\ discovered[k].paired /\ discovered'[k] # Absent
                                  => discovered'[k].paired
  <2>1. task[t].key \in Addrs /\ CacheRemove(task[t].key, task[t].address)
    BY <1>3 DEF Remove, At, TasksGood, Equipped
  <2> QED BY <2>1, CacheRemoveKeeps
<1>4. ASSUME NEW t \in Threads, NEW up \in Reports, SetConnection(t, up)
      PROVE  /\ CacheGood'
             /\ \A k \in Keys : discovered[k] # Absent /\ discovered[k].paired /\ discovered'[k] # Absent
                                  => discovered'[k].paired
  <2>1. task[t].address \in Addrs /\ up \in BOOLEAN
    BY <1>4, WindowsBounds DEF SetConnection, At, TasksGood, Equipped
  <2>2. CASE UNCHANGED cache
    BY <1>1, <2>2
  <2>3. CASE discovered[task[t].address] # Absent /\ UpdateConnection(task[t].address, up)
    BY <2>1, <2>3, UpdateConnectionKeeps
  <2> QED BY <1>4, <2>2, <2>3 DEF SetConnection
<1> QED BY <1>1, <1>2, <1>3, <1>4, CacheTouched

\* So does the node's list.
LEMMA NodeKept ==
  ASSUME Inv, [Next]_vars
  PROVE  NodeGood'
<1> USE DEF Inv
<1>1. CASE UNCHANGED node
  BY <1>1 DEF node, NodeGood, Tidy, Mirrors
<1>2. ASSUME NEW t \in Threads, TellFound(t)
      PROVE  NodeGood'
  BY <1>2, TellFoundKeeps DEF TellFound, At, TasksGood, Equipped
<1>3. ASSUME NEW t \in Threads, TellRemoved(t)
      PROVE  NodeGood'
  BY <1>3, TellRemovedKeeps DEF TellRemoved
<1>4. ASSUME NEW t \in Threads, NEW up \in Reports, TellConnection(t, up)
      PROVE  NodeGood'
  BY <1>4, TellFlagKeeps, WindowsBounds DEF TellConnection
<1>5. CASE SendPaired
  BY <1>5, TellPairedKeeps DEF SendPaired, Part, WorkGood, Batches
<1>6. CASE Succeed
  BY <1>6, TellFlagKeeps DEF Succeed
<1> QED BY <1>1, <1>2, <1>3, <1>4, <1>5, <1>6, NodeTouched

\* What a thread is to do next it has been given.
LEMMA StepKeepsTasks ==
  ASSUME Inv, NEW t \in Threads, Step(t)
  PROVE  TasksGood' /\ \A u \in Threads \ {t} : task'[u] = task[u]
<1> USE DEF Inv
<1>0. task[t] \in Tasks /\ Equipped(task[t])
  BY DEF TasksGood
<1>1. CASE Upsert(t)
  BY <1>0, <1>1, GoKeeps, AfterGood DEF Upsert, Equipped
<1>2. CASE TellFound(t)
  BY <1>2, GoKeeps, AfterGood DEF TellFound
<1>3. ASSUME NEW up \in Reports, SetConnection(t, up)
      PROVE  TasksGood' /\ \A u \in Threads \ {t} : task'[u] = task[u]
  <2>1. task[t].address \in Addrs
    BY <1>0, <1>3 DEF SetConnection, At, Equipped
  <2>2. Go(t, "read_back") \/ Go(t, task[t].after)
    BY <1>3 DEF SetConnection
  <2> QED BY <2>1, <2>2, GoKeeps, AfterGood
<1>4. CASE ReadBack(t)
  <2> DEFINE record == discovered[task[t].address]
  <2>1. task[t].address \in Addrs
    BY <1>0, <1>4 DEF ReadBack, At, Equipped
  <2>2. CASE record # Absent
    <3>1. record \in Infos
      BY <2>1, <2>2, KeyIs, RecordIs DEF CacheGood
    <3>2. task' = [task EXCEPT ![t] = [task[t] EXCEPT !.at = "tell_found", !.info = record]]
      BY <1>4, <2>2 DEF ReadBack, TasksGood
    <3> HIDE DEF record
    <3>3. LET new == [task[t] EXCEPT !.at = "tell_found", !.info = record] IN new \in Tasks /\ Equipped(new)
      BY <1>0, <2>1, <3>1 DEF Tasks, Places, Equipped
    <3> QED BY <3>2, <3>3, TaskPut
  <2>3. CASE record = Absent
    BY <1>4, <2>3, GoKeeps, AfterGood DEF ReadBack
  <2> QED BY <2>2, <2>3
<1>5. ASSUME NEW up \in Reports, TellConnection(t, up)
      PROVE  TasksGood' /\ \A u \in Threads \ {t} : task'[u] = task[u]
  BY <1>5, GoKeeps DEF TellConnection
<1>6. CASE Remove(t)
  BY <1>0, <1>6, GoKeeps DEF Remove, At, Equipped
<1>7. CASE TellRemoved(t)
  BY <1>7, GoKeeps DEF TellRemoved
<1> QED BY <1>1, <1>2, <1>3, <1>4, <1>5, <1>6, <1>7 DEF Step

\* What is begun is fit to be done.
LEMMA ForgetKeeps ==
  ASSUME Inv, NEW t \in Threads, NEW i \in Ids, Forget(t, i)
  PROVE  TasksGood' /\ \A u \in Threads \ {t} : task'[u] = task[u]
<1> USE DEF Inv
<1> DEFINE k == FindById(i)
           a == discovered[k].address
<1>1. k \in Addrs \cup {Absent} /\ (k # Absent => a \in Addrs)
  BY FindByIdFinds, KeyIs
<1>2. IF k # Absent THEN DoRemove(t, k, a) ELSE UNCHANGED task
  BY DEF Forget
<1> HIDE DEF k, a
<1> QED BY <1>1, <1>2, NewTasks, TaskPut DEF DoRemove, TasksGood

LEMMA WatcherKeepsTasks ==
  ASSUME Inv, NEW w \in Watchers, Watcher(w)
  PROVE  TasksGood' /\ \A u \in Threads \ {w} : task'[u] = task[u]
<1> USE DEF Inv
<1>0. w \in Threads /\ Aeps \subseteq Ids
  BY DEF Threads, Ids
<1>1. ASSUME NEW i \in Aeps, NEW up \in Reports, HandleDeviceAdded(w, i, up)
      PROVE  TasksGood' /\ \A u \in Threads \ {w} : task'[u] = task[u]
  <2> DEFINE info == Info(i, objects[i] = "paired", up)
  <2>1. info \in Infos
    BY <1>0, InfoType, WindowsBounds
  <2>2. DoUpsert(w, "added", info, "free")
    BY <1>1 DEF HandleDeviceAdded
  <2> HIDE DEF info
  <2> QED BY <1>0, <2>1, <2>2, NewTasks, TaskPut DEF DoUpsert
<1>2. ASSUME NEW i \in Aeps, NEW given \in BOOLEAN, NEW has \in BOOLEAN, NEW up \in Reports,
           HandleDeviceUpdated(w, i, given, has, up)
      PROVE  TasksGood' /\ \A u \in Threads \ {w} : task'[u] = task[u]
  <2> DEFINE k == FindById(i)
             a == IF given THEN MacOf[i] ELSE IF k # Absent THEN discovered[k].address ELSE Extracted(i)
             new == [Info(i, FALSE, has /\ up) EXCEPT !.address = a]
             old == [discovered[k] EXCEPT !.address = a, !.connected = IF has THEN up ELSE @]
             after == IF has THEN "free" ELSE "connection"
  <2>1. k = Absent => new \in Infos
    <3>1. (has /\ up) \in BOOLEAN /\ FALSE \in BOOLEAN /\ i \in Ids
      BY <1>0, WindowsBounds
    <3>2. /\ Info(i, FALSE, has /\ up) \in Infos /\ Info(i, FALSE, has /\ up).address = MacOf[i]
          /\ [Info(i, FALSE, has /\ up) EXCEPT !.address = Extracted(i)] \in Infos /\ MacOf[i] \in Addrs
      BY <3>1, InfoType
    <3>3. [Info(i, FALSE, has /\ up) EXCEPT !.address = MacOf[i]] \in Infos
      BY <3>2 DEF Info
    <3>4. k = Absent => a = MacOf[i] \/ a = Extracted(i)
      OBVIOUS
    <3> HIDE DEF a, k
    <3> QED BY <3>2, <3>3, <3>4
  <2>2. k # Absent => discovered[k] \in Infos
    BY <1>0, FindByIdFinds
  <2>3. k # Absent => a \in Addrs /\ old \in Infos
    <3>1. k # Absent => a \in Addrs
      BY <1>0, <2>2, InfoType DEF Infos, Addrs
    <3> HIDE DEF a
    <3> QED BY <2>2, <3>1, WindowsBounds DEF Infos, Addrs
  <2>4. after \in {"free", "connection"}
    OBVIOUS
  <2>5. CASE k = Absent
    <3>1. DoUpsert(w, "updated", new, "free")
      BY <1>2, <2>5 DEF HandleDeviceUpdated
    <3> HIDE DEF new
    <3> QED BY <1>0, <2>1, <2>5, <3>1, NewTasks, TaskPut DEF DoUpsert
  <2>6. CASE k # Absent
    <3>1. task' = [task EXCEPT ![w] =
             [NoTask EXCEPT !.at = "updated", !.address = a, !.info = old, !.after = after]]
      BY <1>2, <2>6 DEF HandleDeviceUpdated
    <3> HIDE DEF a, old, after
    <3> QED BY <1>0, <2>3, <2>4, <2>6, <3>1, NewTasks, TaskPut
  <2> QED BY <2>5, <2>6
<1>3. ASSUME NEW i \in Aeps, HandleDeviceRemoved(w, i)
      PROVE  TasksGood' /\ \A u \in Threads \ {w} : task'[u] = task[u]
  BY <1>0, <1>3, ForgetKeeps DEF HandleDeviceRemoved
<1> QED BY <1>1, <1>2, <1>3 DEF Watcher

LEMMA WorkKeepsTasks ==
  ASSUME Inv, Work
  PROVE  TasksGood' /\ \A u \in Watchers : task'[u] = task[u]
<1> USE DEF Inv
<1>0. /\ "worker" \in Threads /\ \A u \in Watchers : u \in Threads \ {"worker"}
      /\ todo # <<>> => Among(todo, Head(todo))
      /\ \A p \in Aiming : Among(todo, p) => goal \in Ids /\ MacOf[goal] \in Addrs
  <2>1. todo # <<>> => Among(todo, Head(todo))
    BY Onward DEF WorkGood
  <2>2. \A p \in Aiming : Among(todo, p) => goal \in Ids
    BY DEF WorkGood, Plan
  <2> QED BY <2>1, <2>2, InfoType DEF Threads, Watchers
<1>1. CASE UNCHANGED task
  BY <1>0, <1>1 DEF TasksGood
<1>2. ASSUME NEW i \in Ids, NEW up \in Reports, Ingest(i, up)
      PROVE  TasksGood' /\ \A u \in Watchers : task'[u] = task[u]
  <2> DEFINE p == i \in Hids \/ objects[i] = "paired"
             info == Info(i, p, up)
  <2>1. info \in Infos
    BY InfoType, WindowsBounds
  <2>2. DoUpsert("worker", Head(todo), info, "free") /\ Head(todo) \in {"silent", "forced"}
    BY <1>2 DEF Ingest
  <2> HIDE DEF info
  <2> QED BY <1>0, <2>1, <2>2, NewTasks, TaskPut DEF DoUpsert
<1>3. ASSUME NEW up \in Reports, Finalize(up)
      PROVE  TasksGood' /\ \A u \in Watchers : task'[u] = task[u]
  <2> DEFINE info == Info(goal, TRUE, up)
  <2>1. goal \in Ids
    BY <1>0, <1>3 DEF Finalize, Part, Aiming
  <2>2. info \in Infos
    BY <2>1, InfoType, WindowsBounds
  <2>3. DoUpsert("worker", "forced", info, "free")
    BY <1>3 DEF Finalize
  <2> HIDE DEF info
  <2> QED BY <1>0, <2>2, <2>3, NewTasks, TaskPut DEF DoUpsert
<1>4. CASE CheckConnection
  <2>1. MacOf[goal] \in Addrs
    BY <1>0, <1>4 DEF CheckConnection, Part, Aiming
  <2>2. \E after \in {"free", "tell_connection"} : DoConnection("worker", MacOf[goal], after)
    BY <1>4 DEF CheckConnection
  <2> QED BY <1>0, <2>1, <2>2, NewTasks, TaskPut DEF DoConnection
<1>5. CASE TellBelieved
  <2>1. MacOf[goal] \in Addrs
    BY <1>0, <1>5 DEF TellBelieved, Part, Aiming
  <2> QED BY <1>0, <1>5, <2>1, NewTasks, TaskPut DEF TellBelieved
<1>6. CASE ForgetUnpaired
  <2>1. goal \in Ids /\ MacOf[goal] \in Addrs
    BY <1>0, <1>6 DEF ForgetUnpaired, Part, Aiming
  <2>2. CASE Forget("worker", goal)
    BY <1>0, <2>1, <2>2, ForgetKeeps
  <2>3. CASE DoRemove("worker", MacOf[goal], MacOf[goal])
    BY <1>0, <2>1, <2>3, NewTasks, TaskPut DEF DoRemove
  <2> QED BY <1>6, <2>2, <2>3 DEF ForgetUnpaired
<1>7. CASE Enumerate \/ ReadPaired \/ SendPaired \/ Succeed \/ UnpairAsync
           \/ \E started \in SUBSET Watchers : StartWatchers(started)
  BY <1>1, <1>7 DEF Enumerate, ReadPaired, SendPaired, Succeed, UnpairAsync, StartWatchers
<1> QED BY <1>2, <1>3, <1>4, <1>5, <1>6, <1>7 DEF Work

LEMMA TasksKept ==
  ASSUME Inv, [Next]_vars
  PROVE  TasksGood'
<1>1. CASE UNCHANGED task
  BY <1>1 DEF Inv, TasksGood
<1>2. CASE Command
  BY <1>1, <1>2, CommandTouches
<1>3. CASE Windows \/ UNCHANGED vars
  BY <1>1, <1>3 DEF Windows, WindowsSets, vars
<1> QED BY <1>2, <1>3, StepKeepsTasks, WatcherKeepsTasks, WorkKeepsTasks DEF Next

\* What a command begins with is in order.
LEMMA BeginKeeps ==
  ASSUME WorkGood, NEW s \in Seq(PartNames), todo' = s, UNCHANGED batch, goal' \in Ids \cup {Absent},
         s # <<>>, Head(s) \notin Batched, OnlyLast(s, "watch"), OnlyFirst(s, Batched),
         Among(s, "watch") => ~Among(s, "unpair"),
         \A p \in Aiming : Among(s, p) => goal' \in Ids
  PROVE  WorkGood'
<1>1. Plan'
  BY DEF Plan
<1>2. Batches'
  BY DEF Batches, Batched
<1> QED BY <1>1, <1>2 DEF WorkGood

LEMMA CommandKeepsWork ==
  ASSUME Inv, Command
  PROVE  /\ WorkGood'
         /\ StartScan => Among(todo, "watch")' /\ signalled' = "scan_started"
                           /\ UNCHANGED <<running, scanning>> /\ ~scanning
         /\ ~StartScan => ~Among(todo, "watch")' /\ (UNCHANGED scanVars \/ StopScan)
<1> USE DEF Inv
<1>0. todo = <<>> /\ "unpair" \in Aiming
  BY CommandTouches DEF Aiming
<1>1. CASE StartScan
  <2>1. WorkGood' /\ Among(todo, "watch")'
    BY <1>0, <1>1, PartsGood, BeginKeeps DEF StartScan, Parts
  <2> QED BY <1>1, <2>1 DEF StartScan
<1>2. CASE StopScan
  <2>1. UNCHANGED <<todo, goal, batch>>
    BY <1>2 DEF StopScan, workerVars
  <2>2. WorkGood'
    BY <1>0, <2>1 DEF WorkGood, Plan, Batches
  <2>3. ~Among(todo, "watch")'
    BY <1>0, <2>1, PartsGood
  <2> QED BY <1>2, <2>2, <2>3 DEF StopScan, StartScan
<1>3. CASE Refresh
  <2>1. WorkGood' /\ ~Among(todo, "watch")'
    BY <1>0, <1>3, PartsGood, BeginKeeps DEF Refresh, Parts
  <2>2. UNCHANGED scanVars
    BY <1>3 DEF Refresh
  <2>3. ~StartScan
    BY <1>0, <1>3, <2>1, PartsGood DEF StartScan, Parts
  <2> QED BY <2>1, <2>2, <2>3
<1>4. ASSUME NEW i \in Ids, Pair(i) \/ Connect(i) \/ Disconnect(i) \/ UnpairDevice(i)
      PROVE  WorkGood' /\ ~StartScan /\ ~Among(todo, "watch")' /\ UNCHANGED scanVars
  <2>1. CASE Pair(i) \/ Connect(i) \/ Disconnect(i)
    <3>1. PICK s \in {<<"paired", "finalize", "succeeded", "connection", "tell_paired">>,
                      <<"connection">>, <<"connection_quietly", "believed">>} : Parts(s, i)
      BY <2>1 DEF Pair, Connect, Disconnect
    <3>2. WorkGood' /\ ~Among(todo, "watch")'
      BY <1>0, <3>1, PartsGood, BeginKeeps DEF Parts
    <3>3. UNCHANGED scanVars
      BY <2>1 DEF Pair, Connect, Disconnect
    <3> QED BY <3>2, <3>3, PartsGood DEF StartScan, Parts
  <2>2. CASE UnpairDevice(i)
    <3>1. PICK s \in {<<"connection_quietly", "believed", "unpair", "forget">>, <<"unpair", "forget">>} :
            Parts(s, i)
      BY <2>2 DEF UnpairDevice
    <3>2. WorkGood' /\ ~Among(todo, "watch")'
      BY <1>0, <3>1, PartsGood, BeginKeeps DEF Parts
    <3>3. UNCHANGED scanVars
      BY <2>2 DEF UnpairDevice
    <3> QED BY <3>2, <3>3, PartsGood DEF StartScan, Parts
  <2> QED BY <1>4, <2>1, <2>2
<1> QED BY <1>1, <1>2, <1>3, <1>4 DEF Command

\* The worker's plan is kept: it takes one part after the other.
LEMMA WorkKeepsWork ==
  ASSUME Inv, Work
  PROVE  /\ WorkGood' /\ \A p \in Aiming : Among(todo, p)' => Among(todo, p)
         /\ \/ (Among(todo, "watch")' <=> Among(todo, "watch")) /\ UNCHANGED scanVars
            \/ todo' = <<>> /\ Among(todo, "watch") /\ \E started \in SUBSET Watchers : StartWatchers(started)
<1> USE DEF Inv
<1>0. /\ todo # <<>> /\ todo \in Seq(PartNames) /\ batch \subseteq Ids \cup Infos
      /\ goal \in Ids \cup {Absent}
      /\ "unpair" \in Aiming /\ "silent" \notin Aiming \cup {"watch"} /\ "forced" \notin Aiming \cup {"watch"}
      /\ "send_paired" \notin Aiming \cup {"watch"}
  BY WorkTouches DEF Aiming, WorkGood
<1>1. CASE Enumerate
  <2>1. Head(todo) # "watch" /\ goal' = goal /\ UNCHANGED scanVars
    BY <1>1 DEF Enumerate
  <2>2. batch' \subseteq Ids
    BY <1>1 DEF Enumerate, Ids
  <2>3. \/ todo' = <<>> \o Tail(todo)
        \/ \E x \in {"silent", "forced"} : todo' = <<x>> \o Tail(todo)
    BY <1>1 DEF Enumerate
  <2>4. <<>> \o Tail(todo) = Tail(todo)
    BY <1>0
  <2>5. CASE todo' = Tail(todo)
    BY <1>0, <2>1, <2>2, <2>5, ProceedKeeps
  <2>6. ASSUME NEW x \in {"silent", "forced"}, todo' = <<x>> \o Tail(todo)
        PROVE  /\ WorkGood' /\ \A p \in Aiming : Among(todo, p)' => Among(todo, p)
               /\ Among(todo, "watch")' <=> Among(todo, "watch")
    BY <1>0, <2>1, <2>2, <2>6, InsteadKeeps DEF Batched
  <2> QED BY <2>1, <2>3, <2>4, <2>5, <2>6
<1>2. ASSUME NEW i \in Ids, NEW up \in Reports, Ingest(i, up)
      PROVE  /\ WorkGood' /\ \A p \in Aiming : Among(todo, p)' => Among(todo, p)
             /\ (Among(todo, "watch")' <=> Among(todo, "watch")) /\ UNCHANGED scanVars
  <2>1. /\ Head(todo) \in {"silent", "forced"} /\ batch' = batch \ {i} /\ goal' = goal
        /\ todo' = IF batch = {i} THEN Tail(todo) ELSE todo
        /\ UNCHANGED scanVars
    BY <1>2 DEF Ingest
  <2>2. CASE batch = {i}
    BY <1>0, <2>1, <2>2, ProceedKeeps
  <2>3. CASE batch # {i}
    <3>1. todo' = todo /\ batch' \subseteq Ids
      BY <1>0, <2>1, <2>3 DEF WorkGood, Batches
    <3> QED BY <1>0, <2>1, <3>1 DEF WorkGood, Plan, Batches
  <2> QED BY <2>2, <2>3
<1>3. CASE ReadPaired
  <2>1. /\ Head(todo) = "tell_paired" /\ todo' = <<"send_paired">> \o Tail(todo) /\ goal' = goal
        /\ UNCHANGED scanVars
    BY <1>3 DEF ReadPaired, Part
  <2>2. batch' = {paired[k] : k \in Keys} \ {Absent}
    BY <1>3 DEF ReadPaired
  <2>3. batch' \subseteq Infos
    BY <2>2 DEF CacheGood, Tables
  <2>4. Distinct(batch)'
    BY <2>2 DEF Distinct, CacheGood, Mirrors, Tidy
  <2> QED BY <1>0, <2>1, <2>3, <2>4, InsteadKeeps DEF Batched
<1>4. CASE \/ SendPaired \/ Succeed \/ CheckConnection \/ TellBelieved \/ ForgetUnpaired
           \/ \E up \in Reports : Finalize(up)
  <2>1. /\ Head(todo) # "watch" /\ todo' = Tail(todo) /\ goal' = goal /\ UNCHANGED scanVars
        /\ batch' \subseteq Ids \cup Infos
    <3>1. CASE SendPaired \/ Succeed
      BY <1>0, <1>4, <3>1 DEF SendPaired, Succeed, Part, Proceed
    <3>2. CASE CheckConnection \/ TellBelieved \/ ForgetUnpaired \/ \E up \in Reports : Finalize(up)
      BY <1>0, <1>4, <3>2 DEF CheckConnection, TellBelieved, ForgetUnpaired, Finalize, Part, Proceed
    <3> QED BY <1>4, <3>1, <3>2
  <2> QED BY <1>0, <2>1, ProceedKeeps
<1>5. CASE UnpairAsync
  <2>1. Head(todo) = "unpair" /\ UNCHANGED <<batch, scanVars>>
    BY <1>5 DEF UnpairAsync, Part
  <2>2. Among(todo, "unpair") /\ goal \in Ids
    BY <1>0, <2>1, Onward DEF WorkGood, Plan
  <2>3. CASE todo' = <<>> /\ goal' = goal
    <3>1. WorkGood'
      BY <1>0, <2>1, <2>3, PartsGood DEF WorkGood, Plan, Batches, OnlyLast, OnlyFirst
    <3> QED BY <2>1, <2>2, <2>3, <3>1, PartsGood DEF WorkGood, Plan
  <2>4. CASE todo' = Tail(todo) /\ goal' \in Ids
    BY <1>0, <2>1, <2>4, ProceedKeeps
  <2>5. CachedPath(MacOf[goal]) \in Ids \cup {Absent}
    BY <2>2, CachedPathType, InfoType
  <2> QED BY <1>5, <2>2, <2>3, <2>4, <2>5 DEF UnpairAsync
<1>6. ASSUME NEW started \in SUBSET Watchers, StartWatchers(started)
      PROVE  /\ WorkGood' /\ \A p \in Aiming : Among(todo, p)' => Among(todo, p)
             /\ todo' = <<>> /\ Among(todo, "watch")
  <2>1. Head(todo) = "watch" /\ todo' = Tail(todo) /\ goal' = goal /\ UNCHANGED batch
    BY <1>6 DEF StartWatchers, Part, Proceed
  <2> QED BY <1>0, <2>1, ProceedKeeps, Onward
<1> QED BY <1>1, <1>2, <1>3, <1>4, <1>5, <1>6 DEF Work

\* Nobody else touches the worker's plan or the scan.
LEMMA OthersTouch ==
  ASSUME Inv, \/ Windows \/ UNCHANGED vars \/ (\E t \in Threads : Step(t))
              \/ \E w \in Watchers : Watcher(w)
  PROVE  /\ UNCHANGED <<workerVars, scanVars>> /\ WorkGood' /\ Signals'
<1>1. UNCHANGED <<workerVars, scanVars>>
  <2>1. CASE Windows \/ UNCHANGED vars
    BY <2>1 DEF Windows, WindowsSets, vars
  <2>2. CASE \E t \in Threads : Step(t)
    BY <2>2, StepTouches
  <2>3. CASE \E w \in Watchers : Watcher(w)
    BY <2>3, WatcherTouches
  <2> QED BY <2>1, <2>2, <2>3
<1>2. UNCHANGED <<todo, goal, batch, running, scanning, signalled>>
  BY <1>1 DEF workerVars, scanVars
<1>3. WorkGood'
  BY <1>2 DEF Inv, WorkGood, Plan, Batches
<1>4. Signals'
  BY <1>2 DEF Inv, Signals
<1> QED BY <1>1, <1>3, <1>4

LEMMA WorkKept ==
  ASSUME Inv, [Next]_vars
  PROVE  WorkGood'
<1> QED BY OthersTouch, CommandKeepsWork, WorkKeepsWork DEF Next

\* The signals are true to what runs.
LEMMA SignalsKept ==
  ASSUME Inv, [Next]_vars
  PROVE  Signals'
<1> USE DEF Inv
<1>1. CASE Command
  <2>1. todo = <<>> /\ ~Among(todo, "watch")
    BY <1>1, CommandTouches, PartsGood
  <2>2. CASE StartScan
    BY <1>1, <2>2, CommandKeepsWork DEF Signals
  <2>3. CASE StopScan
    <3>1. ~Among(todo, "watch")' /\ scanning /\ signalled = "scan_started"
      BY <1>1, <2>3, CommandKeepsWork DEF Signals, StopScan, StartScan
    <3> QED BY <2>3, <3>1 DEF Signals, StopScan
  <2>4. CASE ~StartScan /\ ~StopScan
    BY <1>1, <2>1, <2>4, CommandKeepsWork DEF Signals, scanVars
  <2> QED BY <2>2, <2>3, <2>4
<1>2. CASE Work
  <2>1. CASE (Among(todo, "watch")' <=> Among(todo, "watch")) /\ UNCHANGED scanVars
    BY <2>1 DEF Signals, scanVars
  <2>2. ASSUME todo' = <<>>, Among(todo, "watch"), NEW started \in SUBSET Watchers, StartWatchers(started)
        PROVE  Signals'
    <3>1. ~Among(todo, "watch")'
      BY <2>2, PartsGood
    <3> QED BY <2>2, <3>1 DEF Signals, StartWatchers
  <2> QED BY <1>2, <2>1, <2>2, WorkKeepsWork
<1> QED BY <1>1, <1>2, OthersTouch DEF Next

LEMMA ShapeKept ==
  ASSUME Inv, [Next]_vars
  PROVE  ShapeGood'
<1> USE DEF Inv
<1>0. ShapeGood /\ Aeps \subseteq Ids /\ MaxStimuli \in Nat
  BY WindowsBounds DEF Ids
<1>1. CASE UNCHANGED vars
  BY <1>0, <1>1 DEF vars, scanVars, ShapeGood
<1>2. CASE Windows
  BY <1>0, <1>2 DEF Windows, WindowsSets, Stimulus, scanVars, ShapeGood
<1>3. CASE \E t \in Threads : Step(t)
  BY <1>0, <1>3, StepTouches DEF scanVars, ShapeGood
<1>4. ASSUME NEW w \in Watchers, Watcher(w)
      PROVE  ShapeGood'
  <2>1. UNCHANGED <<objects, running, scanning, signalled, stimuli>>
    BY <1>4, WatcherTouches DEF scanVars
  <2>2. seen' \in [Watchers -> SUBSET Aeps] /\ withdrawn' \subseteq Aeps
    <3>1. ASSUME NEW i \in Aeps, NEW up \in Reports, HandleDeviceAdded(w, i, up)
          PROVE  seen' = [seen EXCEPT ![w] = @ \cup {i}] /\ withdrawn' = withdrawn
      BY <3>1 DEF HandleDeviceAdded
    <3>2. ASSUME NEW i \in Aeps, NEW given \in BOOLEAN, NEW has \in BOOLEAN, NEW up \in Reports,
           HandleDeviceUpdated(w, i, given, has, up)
          PROVE  seen' = seen /\ withdrawn' = withdrawn
      BY <3>2 DEF HandleDeviceUpdated
    <3>3. ASSUME NEW i \in Aeps, HandleDeviceRemoved(w, i)
          PROVE  seen' = [seen EXCEPT ![w] = @ \ {i}] /\ withdrawn' = withdrawn \cup {i}
      BY <3>3 DEF HandleDeviceRemoved
    <3> QED BY <1>0, <1>4, <3>1, <3>2, <3>3 DEF Watcher, ShapeGood
  <2> QED BY <1>0, <2>1, <2>2 DEF ShapeGood
<1>5. CASE Command
  <2>1. stimuli' \in 0..MaxStimuli /\ UNCHANGED seen
    BY <1>0, <1>5, CommandTouches DEF ShapeGood
  <2>2. CASE StartScan \/ Refresh
    BY <1>0, <2>1, <2>2 DEF StartScan, Refresh, scanVars, ShapeGood
  <2>3. CASE StopScan
    BY <1>0, <2>1, <2>3 DEF StopScan, ShapeGood
  <2>4. ASSUME NEW i \in Ids, Pair(i) \/ Connect(i) \/ Disconnect(i) \/ UnpairDevice(i)
        PROVE  /\ UNCHANGED <<running, scanning, signalled>>
               /\ objects' \in [Aeps -> {"gone", "near", "paired"}] /\ withdrawn' \subseteq Aeps
    BY <1>0, <2>4 DEF Pair, Connect, Disconnect, UnpairDevice, scanVars, ShapeGood
  <2>5. CASE \E i \in Ids : Pair(i) \/ Connect(i) \/ Disconnect(i) \/ UnpairDevice(i)
    BY <1>0, <2>1, <2>4, <2>5 DEF ShapeGood
  <2> QED BY <1>5, <2>2, <2>3, <2>5 DEF Command
<1>6. CASE Work
  <2>1. UNCHANGED <<stimuli, withdrawn>>
    BY <1>6, WorkTouches
  <2>2. CASE Enumerate \/ ReadPaired \/ SendPaired \/ Succeed \/ CheckConnection \/ TellBelieved
               \/ ForgetUnpaired
    <3>1. UNCHANGED <<objects, seen, running, scanning, signalled>>
      BY <2>2 DEF Enumerate, ReadPaired, SendPaired, Succeed, CheckConnection, TellBelieved,
         ForgetUnpaired, scanVars
    <3> QED BY <1>0, <2>1, <3>1 DEF ShapeGood
  <2>3. CASE UnpairAsync
    BY <1>0, <2>1, <2>3 DEF UnpairAsync, scanVars, ShapeGood
  <2>4. CASE (\E i \in Ids : \E up \in Reports : Ingest(i, up)) \/ \E up \in Reports : Finalize(up)
    BY <1>0, <2>1, <2>4 DEF Ingest, Finalize, scanVars, ShapeGood
  <2>5. ASSUME NEW started \in SUBSET Watchers, StartWatchers(started)
        PROVE  ShapeGood'
    BY <1>0, <2>1, <2>5 DEF StartWatchers, ShapeGood
  <2> QED BY <1>6, <2>2, <2>3, <2>4, <2>5 DEF Work
<1> QED BY <1>1, <1>2, <1>3, <1>4, <1>5, <1>6 DEF Next

\* Inv is an invariant.
LEMMA Invariant == Spec => []Inv
<1>1. Init => Inv
  BY InitGood
<1>2. Inv /\ [Next]_vars => Inv'
  BY ShapeKept, TasksKept, WorkKept, SignalsKept, CacheKept, NodeKept DEF Inv
<1> QED BY <1>1, <1>2, PTL DEF Spec

-----------------------------------------------------------------------------
(* The theorems                                                            *)

\* Type correctness.
THEOREM WindowsDevicesTypeCorrect == Spec => []TypeOK
<1>1. Inv => TypeOK
  <2>1. Addrs \cup {Absent} = Macs \cup {Radio, Absent}
    BY DEF Addrs
  <2> QED BY <2>1 DEF Inv, ShapeGood, TasksGood, WorkGood, CacheGood, NodeGood, TypeOK, Addrs
<1> QED BY <1>1, Invariant, PTL

\* Neither list has a device twice or a record under a key that is not its own, whatever the
\* order in which the threads upsert their copies, set flags and remove.
THEOREM OneRecordOnWindows == Spec => []OneRecord
<1>1. Inv => OneRecord
  BY DEF Inv, CacheGood, NodeGood, OneRecord
<1> QED BY <1>1, Invariant, PTL

\* The lists of paired devices are those that the lists of devices call paired.
THEOREM PairedMirrorsOnWindows == Spec => []PairedMirrors
<1>1. Inv => PairedMirrors
  BY DEF Inv, CacheGood, NodeGood, PairedMirrors
<1> QED BY <1>1, Invariant, PTL

\* No watcher runs before scan_started or after scan_stopped, and between two commands the
\* last signal tells whether a scan is on.
THEOREM SignalsAreTrue == Spec => []ScanSignalsTrue
<1>1. Inv => ScanSignalsTrue
  BY PartsGood DEF Inv, Signals, ScanSignalsTrue, ShapeGood
<1> QED BY <1>1, Invariant, PTL

\* No thread makes a record unpaired with a copy from before the pairing.
THEOREM PairingIsNotLost == Spec => PairingIsKept
<1> DEFINE Kept == \A k \in Keys : discovered[k] # Absent /\ discovered[k].paired /\ discovered'[k] # Absent
                                     => discovered'[k].paired
<1>1. Inv /\ [Next]_vars => Kept
  BY CacheKept
<1> HIDE DEF Kept
<1>2. Spec => [][Kept]_vars
  BY <1>1, Invariant, PTL DEF Spec
<1> QED BY <1>2 DEF PairingIsKept, Kept

-----------------------------------------------------------------------------
(* A device is listed until it is withdrawn                                *)

\* No device but withdrawn ones has that address.
Doomed(a, gone) == \A i \in Aeps \ gone : MacOf[i] # a

\* An address goes with an id if it is that device's.  What an update made up after a device
\* had been withdrawn (`gone') may go by the adapter's address, and from there by that of
\* another withdrawn device.
Matched(a, id, gone) == a = MacOf[id] \/ (Doomed(a, gone) /\ Doomed(MacOf[id], gone))

Genuine(info, gone) == Matched(info.address, info.device_id, gone)

AllGenuine(table, gone) == \A k \in Keys : table[k] # Absent => Genuine(table[k], gone)

Carrying == {"added", "updated", "silent", "forced", "tell_found"}

\* Threads carry genuine records, and remove nothing that is not doomed.
Truthful(k, gone) == /\ k.at \in Carrying => Genuine(k.info, gone)
                     /\ k.at = "remove" => Doomed(k.key, gone)
                     /\ k.at \in {"remove", "tell_removed"} => Doomed(k.address, gone)

TasksTrue == \A t \in Threads : Truthful(task[t], withdrawn)

CacheTrue == /\ AllGenuine(discovered, withdrawn)
             /\ \A p \in Ids : id_to_key[p] # Absent => Matched(id_to_key[p], p, withdrawn)
             /\ \A a \in Macs : address_to_id[a] # Absent => Matched(a, address_to_id[a], withdrawn)

WorkTrue == /\ todo # <<>> /\ Head(todo) = "send_paired" => \A b \in batch : Genuine(b, withdrawn)
            /\ Among(todo, "unpair") \/ Among(todo, "forget") => Doomed(MacOf[goal], withdrawn)

Known(i) == discovered[MacOf[i]] # Absent /\ id_to_key[i] = MacOf[i]

\* What a watcher has seen and put into the cache is known.
Added(w, i) == /\ w \in running /\ i \in seen[w]
               /\ ~(task[w].at = "added" /\ task[w].info.device_id = i)

KnownOnceAdded == \A i \in Aeps \ withdrawn, w \in Watchers : Added(w, i) => Known(i)

ListedOnceTold == \A i \in Aeps \ withdrawn, w \in Watchers : Told(w, i) => devices[MacOf[i]] # Absent

IInv == /\ Inv /\ TasksTrue /\ CacheTrue /\ AllGenuine(devices, withdrawn) /\ WorkTrue
        /\ KnownOnceAdded /\ ListedOnceTold

LEMMA MacIs ==
  /\ \A i \in Ids : MacOf[i] \in Macs /\ MacOf[i] \in Keys /\ MacOf[i] \in Addrs /\ MacOf[i] # Radio
  /\ Aeps \subseteq Ids
  /\ \A i, j \in Aeps : MacOf[i] = MacOf[j] => i = j
  /\ Radio \in Keys /\ Radio \in Addrs /\ Absent \notin Addrs
<1> QED BY KeyIs, IdsAssumption DEF Macs, Addrs, Ids

\* What is withdrawn stays so.
LEMMA Growing ==
  ASSUME [Next]_vars
  PROVE  withdrawn \subseteq withdrawn'
<1>1. CASE UNCHANGED vars
  BY <1>1 DEF vars
<1>2. CASE Windows
  BY <1>2 DEF Windows, WindowsSets
<1>3. CASE Command
  <2>1. CASE StartScan \/ StopScan \/ Refresh
    BY <2>1 DEF StartScan, StopScan, Refresh
  <2>2. ASSUME NEW i \in Ids, Pair(i) \/ Connect(i) \/ Disconnect(i) \/ UnpairDevice(i)
        PROVE  withdrawn \subseteq withdrawn'
    BY <2>2 DEF Pair, Connect, Disconnect, UnpairDevice
  <2> QED BY <1>3, <2>1, <2>2 DEF Command
<1>4. CASE Work
  BY <1>4, WorkTouches
<1>5. CASE \E t \in Threads : Step(t)
  BY <1>5, StepTouches
<1>6. CASE \E w \in Watchers : Watcher(w)
  <2>1. ASSUME NEW w \in Watchers, NEW i \in Aeps,
               \/ \E up \in Reports : HandleDeviceAdded(w, i, up)
               \/ \E given, has \in BOOLEAN, up \in Reports : HandleDeviceUpdated(w, i, given, has, up)
               \/ HandleDeviceRemoved(w, i)
        PROVE  withdrawn \subseteq withdrawn'
    BY <2>1 DEF HandleDeviceAdded, HandleDeviceUpdated, HandleDeviceRemoved
  <2> QED BY <1>6, <2>1 DEF Watcher
<1> QED BY <1>1, <1>2, <1>3, <1>4, <1>5, <1>6 DEF Next

LEMMA GenuineGrows ==
  ASSUME NEW gone, NEW more, gone \subseteq more
  PROVE  /\ \A i : Genuine(i, gone) => Genuine(i, more)
         /\ \A table : AllGenuine(table, gone) => AllGenuine(table, more)
         /\ \A a : Doomed(a, gone) => Doomed(a, more)
         /\ \A a, id : Matched(a, id, gone) => Matched(a, id, more)
<1> QED BY DEF Genuine, Matched, AllGenuine, Doomed

\* An upsert of genuine records keeps a table genuine, and drops no device from it that is
\* not withdrawn.
LEMMA UpsertedGenuine ==
  ASSUME NEW table \in Tables, Tidy(table), NEW gone \in SUBSET Aeps, AllGenuine(table, gone),
         NEW infos \in SUBSET Infos, \A i \in infos : Genuine(i, gone)
  PROVE  /\ AllGenuine(Upserted(table, infos), gone)
         /\ \A j \in Aeps \ gone : /\ table[MacOf[j]] # Absent => Upserted(table, infos)[MacOf[j]] # Absent
                                   /\ \A i \in infos : i.device_id = j =>
                                        i.address = MacOf[j] /\ Upserted(table, infos)[MacOf[j]] # Absent
<1> DEFINE new == Upserted(table, infos)
<1>1. ASSUME NEW k \in Keys, new[k] # Absent
      PROVE  Genuine(new[k], gone)
  <2>1. CASE \E i \in infos : i.address = k
    <3>1. PICK i \in infos : new[k].device_id = i.device_id /\ new[k].address = i.address
      BY <2>1, UpsertedRecord
    <3> QED BY <3>1 DEF Genuine
  <2>2. CASE new[k] = table[k]
    BY <1>1, <2>2 DEF AllGenuine
  <2> QED BY <1>1, <2>1, <2>2, UpsertedRecord
<1>2. ASSUME NEW j \in Aeps \ gone, NEW i \in infos, i.device_id = j
      PROVE  i.address = MacOf[j] /\ new[MacOf[j]] # Absent
  <2>1. i.address = MacOf[j] /\ MacOf[j] \in Keys
    BY <1>2, MacIs DEF Genuine, Matched, Doomed
  <2> QED BY <2>1, UpsertedRecord, KeyIs
<1>3. ASSUME NEW j \in Aeps \ gone, table[MacOf[j]] # Absent
      PROVE  new[MacOf[j]] # Absent
  <2> DEFINE k == MacOf[j]
  <2>0. k \in Keys /\ k # Radio
    BY MacIs
  <2>1. CASE \E i \in infos : i.address = k
    BY <2>0, <2>1, UpsertedRecord, KeyIs
  <2>2. CASE \E i \in infos : k \in Stale(table, i)
    <3>1. PICK i \in infos : k \in Stale(table, i)
      BY <2>2
    <3>2. k # i.address /\ (table[k].device_id = i.device_id \/ table[k].address = i.address)
      BY <3>1, KeyIs DEF Stale
    <3>3. table[k].address = k /\ table[k].device_id \in Ids /\ i.device_id \in Ids
      BY <1>3, <2>0, RecordIs, KeyIs
    <3>4. ~Doomed(k, gone)
      BY DEF Doomed
    <3>5. k = MacOf[i.device_id]
      BY <1>3, <2>0, <3>2, <3>3, <3>4 DEF AllGenuine, Genuine, Matched
    <3> QED BY <3>2, <3>4, <3>5 DEF Genuine, Matched
  <2>3. CASE new[k] = table[k]
    BY <1>3, <2>3
  <2> QED BY <2>0, <2>1, <2>2, <2>3, UpsertedRecord
<1> QED BY <1>1, <1>2, <1>3 DEF AllGenuine

\* The cache stays genuine and forgets no device but withdrawn ones.
LEMMA UpsertKnows ==
  ASSUME Inv, CacheTrue, NEW info \in Infos, Genuine(info, withdrawn), CacheUpsert({info})
  PROVE  /\ AllGenuine(discovered', withdrawn)
         /\ \A p \in Ids : id_to_key'[p] # Absent => Matched(id_to_key'[p], p, withdrawn)
         /\ \A a \in Macs : address_to_id'[a] # Absent => Matched(a, address_to_id'[a], withdrawn)
         /\ \A j \in Aeps \ withdrawn : Known(j) \/ info.device_id = j => Known(j)'
<1> DEFINE infos == {info}
<1>0. /\ discovered \in Tables /\ Tidy(discovered) /\ withdrawn \in SUBSET Aeps /\ infos \in SUBSET Infos
      /\ AllGenuine(discovered, withdrawn) /\ \A i \in infos : Genuine(i, withdrawn)
  BY DEF Inv, CacheGood, ShapeGood, CacheTrue
<1>1. discovered' = Upserted(discovered, infos)
  BY DEF CacheUpsert
<1>2. /\ AllGenuine(discovered', withdrawn)
      /\ \A j \in Aeps \ withdrawn :
           /\ discovered[MacOf[j]] # Absent => discovered'[MacOf[j]] # Absent
           /\ info.device_id = j => info.address = MacOf[j] /\ discovered'[MacOf[j]] # Absent
  <2>1. info \in infos
    OBVIOUS
  <2> HIDE DEF infos
  <2> QED BY <1>0, <1>1, <2>1, UpsertedGenuine
<1>3. id_to_key' = [p \in Ids \cup {Radio} |->
         IF info.device_id = p THEN info.address
         ELSE IF \E k \in Stale(discovered, info) : discovered[k].device_id = p THEN Absent
         ELSE id_to_key[p]]
  BY KeyIs DEF CacheUpsert
<1>4. \A p \in Ids : id_to_key'[p] # Absent => Matched(id_to_key'[p], p, withdrawn)
  BY <1>3 DEF Genuine, CacheTrue
<1>5. ASSUME NEW a \in Macs, address_to_id'[a] # Absent
      PROVE  Matched(a, address_to_id'[a], withdrawn)
  <2>1. address_to_id' = [b \in Addrs |-> IF info.address = b THEN info.device_id ELSE address_to_id[b]]
    BY KeyIs DEF CacheUpsert
  <2>2. address_to_id'[a] = (IF info.address = a THEN info.device_id ELSE address_to_id[a]) /\ a # Radio
    BY <2>1, KeyIs, IdsAssumption DEF Addrs
  <2> QED BY <1>5, <2>2 DEF Genuine, CacheTrue
<1>6. ASSUME NEW j \in Aeps \ withdrawn, Known(j)
      PROVE  id_to_key'[j] = MacOf[j] \/ info.device_id = j
  <2>1. SUFFICES ASSUME info.device_id # j, NEW k \in Stale(discovered, info), discovered[k].device_id = j
                 PROVE  FALSE
    BY <1>3, <1>6, MacIs DEF Known
  <2>2. /\ k \in Keys /\ k # info.address /\ discovered[k] # Absent
        /\ discovered[k].device_id = info.device_id \/ discovered[k].address = info.address
    BY KeyIs DEF Stale
  <2>3. discovered[k].address = k
    BY <1>0, <2>2, RecordIs
  <2> QED BY <2>1, <2>2, <2>3
<1>7. \A j \in Aeps \ withdrawn : info.device_id = j => id_to_key'[j] = info.address
  BY <1>3, MacIs
<1> QED BY <1>2, <1>4, <1>5, <1>6, <1>7 DEF Known

LEMMA CacheStaysTrue ==
  ASSUME IInv, [Next]_vars
  PROVE  /\ CacheTrue'
         /\ \A j \in Aeps \ withdrawn' : Known(j) => Known(j)'
         /\ \A t \in Threads : Upsert(t) => \A j \in Aeps \ withdrawn' :
              task[t].info.device_id = j => Known(j)'
<1> USE DEF IInv
<1>0. withdrawn \subseteq withdrawn' /\ CacheTrue
  BY Growing
<1> DEFINE Goal == /\ AllGenuine(discovered', withdrawn)
                   /\ \A p \in Ids : id_to_key'[p] # Absent => Matched(id_to_key'[p], p, withdrawn)
                   /\ \A a \in Macs : address_to_id'[a] # Absent => Matched(a, address_to_id'[a], withdrawn)
                   /\ \A j \in Aeps \ withdrawn : Known(j) => Known(j)'
<1>1. ASSUME UNCHANGED cache
      PROVE  Goal
  BY <1>0, <1>1 DEF cache, CacheTrue, Known
<1>2. ASSUME NEW t \in Threads, Upsert(t)
      PROVE  Goal /\ \A j \in Aeps \ withdrawn : task[t].info.device_id = j => Known(j)'
  <2>1. task[t].info \in Infos /\ Genuine(task[t].info, withdrawn) /\ CacheUpsert({task[t].info})
    BY <1>2 DEF Upsert, Inv, TasksGood, Equipped, TasksTrue, Truthful, Carrying
  <2> QED BY <2>1, UpsertKnows
<1>3. ASSUME NEW t \in Threads, Remove(t)
      PROVE  Goal
  <2> DEFINE k == task[t].key
             a == task[t].address
  <2>1. k \in Addrs /\ CacheRemove(k, a) /\ Doomed(k, withdrawn) /\ CacheGood
    BY <1>3 DEF Remove, At, Inv, TasksGood, Equipped, TasksTrue, Truthful
  <2> HIDE DEF k, a
  <2>2. /\ discovered'[k] = Absent /\ \A l \in Keys \ {k} : discovered'[l] = discovered[l]
        /\ \A p \in Ids : ~(discovered[k] # Absent /\ discovered[k].device_id = p)
                           => id_to_key'[p] = id_to_key[p]
    BY <2>1, CacheRemoveKeeps
  <2>3. AllGenuine(discovered', withdrawn)
    BY <1>0, <2>2 DEF CacheTrue, AllGenuine
  <2>4. \A p \in Ids : id_to_key'[p] # Absent => Matched(id_to_key'[p], p, withdrawn)
    BY <1>0, <2>1 DEF CacheTrue, CacheRemove
  <2>5. ASSUME NEW b \in Macs, address_to_id'[b] # Absent PROVE Matched(b, address_to_id'[b], withdrawn)
    <3>1. address_to_id' = [c \in Addrs |-> IF c = a THEN Absent ELSE address_to_id[c]]
      BY <2>1, KeyIs DEF CacheRemove
    <3> QED BY <1>0, <2>5, <3>1 DEF CacheTrue, Addrs
  <2>6. ASSUME NEW j \in Aeps \ withdrawn, Known(j)
        PROVE  Known(j)'
    <3>1. MacOf[j] # k /\ MacOf[j] \in Keys /\ j \in Ids
      BY <2>1, MacIs DEF Doomed
    <3>2. ~(discovered[k] # Absent /\ discovered[k].device_id = j)
      <4>1. ~Doomed(MacOf[j], withdrawn)
        BY DEF Doomed
      <4> QED BY <1>0, <2>1, <3>1, <4>1, KeyIs, RecordIs
            DEF CacheTrue, CacheGood, AllGenuine, Genuine, Matched
    <3> QED BY <2>2, <2>6, <3>1, <3>2 DEF Known
  <2> QED BY <2>3, <2>4, <2>5, <2>6
<1>4. ASSUME NEW t \in Threads, NEW up \in Reports, SetConnection(t, up)
      PROVE  Goal
  <2> DEFINE k == task[t].address
  <2>1. k \in Addrs /\ up \in BOOLEAN /\ CacheGood
    BY <1>4, WindowsBounds DEF SetConnection, At, Inv, TasksGood, Equipped
  <2>2. CASE discovered[k] # Absent /\ UpdateConnection(k, up)
    <3> HIDE DEF k
    <3>1. /\ UNCHANGED <<id_to_key, address_to_id>>
          /\ \A l \in Keys \ {k} : discovered'[l] = discovered[l]
          /\ discovered'[k] # Absent
          /\ discovered'[k].device_id = discovered[k].device_id /\ discovered'[k].address = k
      BY <2>1, <2>2, UpdateConnectionKeeps
    <3>2. discovered[k].address = k
      BY <2>1, <2>2, KeyIs, RecordIs DEF CacheGood
    <3>3. AllGenuine(discovered', withdrawn)
      BY <1>0, <2>2, <3>1, <3>2 DEF CacheTrue, AllGenuine, Genuine
    <3>4. \A j \in Aeps \ withdrawn : Known(j) => Known(j)'
      BY <3>1, MacIs DEF Known
    <3> QED BY <1>0, <3>1, <3>3, <3>4 DEF CacheTrue
  <2> QED BY <1>1, <1>4, <2>2 DEF SetConnection
<1>5. Goal /\ \A t \in Threads : Upsert(t) => \A j \in Aeps \ withdrawn :
                task[t].info.device_id = j => Known(j)'
  <2>1. Goal
    BY <1>1, <1>2, <1>3, <1>4, CacheTouched
  <2> QED BY <1>2, <2>1
<1>6. AllGenuine(discovered', withdrawn')
  BY <1>0, <1>5, GenuineGrows
<1>7. /\ \A p \in Ids : id_to_key'[p] # Absent => Matched(id_to_key'[p], p, withdrawn')
      /\ \A a \in Macs : address_to_id'[a] # Absent => Matched(a, address_to_id'[a], withdrawn')
  BY <1>0, <1>5, GenuineGrows
<1> QED BY <1>0, <1>5, <1>6, <1>7 DEF CacheTrue

\* So does the node's list.
LEMMA NodeStaysTrue ==
  ASSUME IInv, [Next]_vars
  PROVE  /\ AllGenuine(devices', withdrawn')
         /\ \A j \in Aeps \ withdrawn' : devices[MacOf[j]] # Absent => devices'[MacOf[j]] # Absent
         /\ \A t \in Threads : TellFound(t) => \A j \in Aeps \ withdrawn' :
              task[t].info.device_id = j => devices'[MacOf[j]] # Absent
<1> USE DEF IInv
<1>0. /\ withdrawn \subseteq withdrawn' /\ AllGenuine(devices, withdrawn) /\ NodeGood
      /\ devices \in Tables /\ Tidy(devices) /\ withdrawn \in SUBSET Aeps
  BY Growing DEF Inv, NodeGood, ShapeGood
<1> DEFINE Goal == /\ AllGenuine(devices', withdrawn)
                   /\ \A j \in Aeps \ withdrawn : devices[MacOf[j]] # Absent => devices'[MacOf[j]] # Absent
<1>1. ASSUME UNCHANGED node
      PROVE  Goal
  BY <1>0, <1>1 DEF node
<1>2. ASSUME NEW t \in Threads, TellFound(t)
      PROVE  Goal /\ \A j \in Aeps \ withdrawn : task[t].info.device_id = j => devices'[MacOf[j]] # Absent
  <2> DEFINE info == task[t].info
             infos == {info}
  <2>1. info \in Infos /\ Genuine(info, withdrawn) /\ Tell(Found(info))
    BY <1>2 DEF TellFound, At, Inv, TasksGood, Equipped, TasksTrue, Truthful, Carrying
  <2>2. devices' = Upserted(devices, infos)
    BY <1>0, <2>1, TellFoundKeeps
  <2>3. infos \in SUBSET Infos /\ info \in infos /\ \A i \in infos : Genuine(i, withdrawn)
    BY <2>1
  <2> HIDE DEF infos
  <2> QED BY <1>0, <2>2, <2>3, UpsertedGenuine
<1>3. ASSUME NEW t \in Threads, TellRemoved(t)
      PROVE  Goal
  <2> DEFINE a == task[t].address
  <2>1. Tell(Removed(a)) /\ Doomed(a, withdrawn)
    BY <1>3 DEF TellRemoved, At, TasksTrue, Truthful
  <2> HIDE DEF a
  <2>2. NodeGood' /\ \A k \in Keys : devices[k] # Absent /\ devices'[k] = Absent => a = k
    BY <1>0, <2>1, TellRemovedKeeps
  <2>3. \A j \in Aeps \ withdrawn : devices[MacOf[j]] # Absent => devices'[MacOf[j]] # Absent
    BY <2>1, <2>2, MacIs DEF Doomed
  <2>4. devices' = [k \in Keys |-> IF devices[k] # Absent /\ a \in {k, devices[k].address}
                                   THEN Absent ELSE devices[k]]
    BY <2>1 DEF Tell, NodeTakes, Removed, NodeRemove
  <2>5. AllGenuine(devices', withdrawn)
    BY <1>0, <2>4 DEF AllGenuine
  <2> QED BY <2>3, <2>5
<1>4. ASSUME NEW a, NEW up \in BOOLEAN, Tell(Connection(a, up)) \/ Tell(PairingSucceeded(a))
      PROVE  Goal
  <2>1. NodeGood' /\ \A k \in Keys : (devices'[k] = Absent) = (devices[k] = Absent)
    BY <1>0, <1>4, TellFlagKeeps
  <2>2. ASSUME NEW k \in Keys, devices'[k] # Absent
        PROVE  Genuine(devices'[k], withdrawn)
    <3>1. PICK x \in {"paired", "connected"}, b \in BOOLEAN : NodeSet(a, x, b)
      BY <1>4 DEF Tell, NodeTakes, Connection, PairingSucceeded
    <3>2. devices'[k] = devices[k] \/ devices'[k] = [devices[k] EXCEPT ![x] = b]
      BY <3>1 DEF NodeSet
    <3>3. devices[k] \in Infos /\ Genuine(devices[k], withdrawn)
      BY <1>0, <2>1, <2>2, RecordIs DEF AllGenuine
    <3>4. devices'[k].address = devices[k].address /\ devices'[k].device_id = devices[k].device_id
      <4>1. CASE devices'[k] = devices[k]
        BY <4>1
      <4>2. CASE devices'[k] = [devices[k] EXCEPT ![x] = b]
        <5>1. x \in {"paired", "connected"} /\ b \in BOOLEAN
          OBVIOUS
        <5> DEFINE i == devices[k]
        <5>2. i \in Infos /\ devices'[k] = [i EXCEPT ![x] = b]
          BY <3>3, <4>2
        <5> HIDE DEF i
        <5>3. [i EXCEPT ![x] = b].device_id = i.device_id /\ [i EXCEPT ![x] = b].address = i.address
          BY <5>1, <5>2, FlagType
        <5> QED BY <5>2, <5>3 DEF i
      <4> QED BY <3>2, <4>1, <4>2
    <3> QED BY <3>3, <3>4 DEF Genuine
  <2> QED BY <2>1, <2>2, MacIs DEF AllGenuine
<1>5. ASSUME SendPaired
      PROVE  Goal
  <2>1. /\ batch \in SUBSET Infos /\ Distinct(batch) /\ \A i \in batch : Genuine(i, withdrawn)
        /\ Tell(PairedUpdated(batch))
    BY <1>5 DEF SendPaired, Part, Inv, WorkGood, Batches, WorkTrue
  <2> QED BY <1>0, <2>1, TellPairedKeeps, UpsertedGenuine
<1>6. Goal
  <2>1. ASSUME NEW t \in Threads, NEW up \in Reports, TellConnection(t, up)
        PROVE  Goal
    BY <1>4, <2>1, WindowsBounds DEF TellConnection
  <2>2. CASE Succeed
    <3>1. Tell(PairingSucceeded(MacOf[goal])) /\ TRUE \in BOOLEAN
      BY <2>2 DEF Succeed
    <3> QED BY <1>4, <3>1
  <2> QED BY <1>1, <1>2, <1>3, <1>5, <2>1, <2>2, NodeTouched
<1>7. AllGenuine(devices', withdrawn')
  BY <1>0, <1>6, GenuineGrows
<1> QED BY <1>0, <1>2, <1>6, <1>7

\* What a thread begins with is true.
LEMMA NewTrue ==
  ASSUME NEW gone
  PROVE  /\ Truthful(NoTask, gone)
         /\ \A place \in {"added", "updated", "silent", "forced"} : \A i : Genuine(i, gone) =>
              Truthful([NoTask EXCEPT !.at = place, !.info = i, !.after = "free"], gone)
         /\ \A i, a, after : Genuine(i, gone) =>
              Truthful([NoTask EXCEPT !.at = "updated", !.address = a, !.info = i, !.after = after], gone)
         /\ \A a, after : Truthful([NoTask EXCEPT !.at = "connection", !.address = a, !.after = after], gone)
         /\ \A a : Truthful([NoTask EXCEPT !.at = "tell_connection", !.address = a], gone)
         /\ \A k, a : Doomed(k, gone) /\ Doomed(a, gone) =>
              Truthful([NoTask EXCEPT !.at = "remove", !.key = k, !.address = a], gone)
<1>1. Truthful(NoTask, gone)
  BY DEF Truthful, NoTask, Carrying
<1>2. ASSUME NEW place \in {"added", "updated", "silent", "forced"}, NEW i, Genuine(i, gone)
      PROVE  Truthful([NoTask EXCEPT !.at = place, !.info = i, !.after = "free"], gone)
  BY <1>2 DEF Truthful, NoTask, Carrying
<1>3. ASSUME NEW i, NEW a, NEW after, Genuine(i, gone)
      PROVE  Truthful([NoTask EXCEPT !.at = "updated", !.address = a, !.info = i, !.after = after], gone)
  BY <1>3 DEF Truthful, NoTask, Carrying
<1>4. ASSUME NEW a, NEW after
      PROVE  Truthful([NoTask EXCEPT !.at = "connection", !.address = a, !.after = after], gone)
  BY DEF Truthful, NoTask, Carrying
<1>5. ASSUME NEW a
      PROVE  Truthful([NoTask EXCEPT !.at = "tell_connection", !.address = a], gone)
  BY DEF Truthful, NoTask, Carrying
<1>6. ASSUME NEW k, NEW a, Doomed(k, gone), Doomed(a, gone)
      PROVE  Truthful([NoTask EXCEPT !.at = "remove", !.key = k, !.address = a], gone)
  BY <1>6 DEF Truthful, NoTask, Carrying
<1> QED BY <1>1, <1>2, <1>3, <1>4, <1>5, <1>6

\* A task that was true stays true.
LEMMA TruthfulGrows ==
  ASSUME TasksTrue, [Next]_vars
  PROVE  \A t \in Threads : task'[t] = task[t] => Truthful(task'[t], withdrawn')
<1> QED BY Growing, GenuineGrows DEF TasksTrue, Truthful

LEMMA StepStaysTrue ==
  ASSUME IInv, [Next]_vars, NEW t \in Threads, Step(t)
  PROVE  TasksTrue'
<1> USE DEF IInv
<1> DEFINE k == task[t]
           new == task'[t]
<1>0. /\ TasksGood /\ Inv /\ k \in Tasks /\ Equipped(k) /\ Truthful(k, withdrawn) /\ withdrawn' = withdrawn
      /\ k.after \notin Carrying \cup {"remove", "tell_removed"}
  BY StepTouches DEF Inv, TasksGood, TasksTrue, Tasks, Carrying
<1>1. CASE Upsert(t)
  <2>1. k.info \in Infos /\ k.at \in Carrying
    BY <1>0, <1>1 DEF Upsert, Equipped, Carrying
  <2>2. Go(t, "tell_found") \/ Go(t, k.after)
    BY <1>1 DEF Upsert
  <2>3. new = NoTask \/ (new.at = "tell_found" /\ new.info = k.info) \/ new.at = k.after
    BY <1>0, <2>1, <2>2, GoKeeps, AfterGood
  <2>4. Truthful(new, withdrawn)
    BY <1>0, <2>1, <2>3, NewTrue DEF Truthful, Carrying
  <2> QED BY <1>0, <2>4, StepKeepsTasks, TruthfulGrows DEF TasksTrue
<1>2. CASE ReadBack(t)
  <2> DEFINE record == discovered[k.address]
  <2>1. k.address \in Addrs /\ k.address \in Keys
    BY <1>0, <1>2, KeyIs DEF ReadBack, At, Equipped
  <2>2. CASE record # Absent
    <3>1. Genuine(record, withdrawn)
      BY <2>1, <2>2 DEF CacheTrue, AllGenuine
    <3>2. new = [k EXCEPT !.at = "tell_found", !.info = record]
      BY <1>0, <1>2, <2>2 DEF ReadBack, TasksGood
    <3> HIDE DEF record
    <3>3. new.at = "tell_found" /\ new.info = record
      BY <1>0, <3>2 DEF Tasks
    <3>4. Truthful(new, withdrawn)
      BY <3>1, <3>3 DEF Truthful
    <3> QED BY <1>0, <3>4, StepKeepsTasks, TruthfulGrows DEF TasksTrue
  <2>3. CASE record = Absent
    <3>1. new = NoTask \/ new.at = k.after
      BY <1>0, <1>2, <2>3, GoKeeps, AfterGood DEF ReadBack
    <3>2. Truthful(new, withdrawn)
      BY <1>0, <3>1, NewTrue DEF Truthful
    <3> QED BY <1>0, <3>2, StepKeepsTasks, TruthfulGrows DEF TasksTrue
  <2> QED BY <2>2, <2>3
<1>3. CASE Remove(t)
  <2>1. k.at = "remove" /\ k.address \in Addrs
    BY <1>0, <1>3 DEF Remove, At, Equipped
  <2>2. new.at = "tell_removed" /\ new.address = k.address
    BY <1>0, <1>3, <2>1, GoKeeps DEF Remove
  <2>3. Truthful(new, withdrawn)
    BY <1>0, <2>1, <2>2 DEF Truthful, Carrying
  <2> QED BY <1>0, <2>3, StepKeepsTasks, TruthfulGrows DEF TasksTrue
<1>4. CASE \/ TellFound(t) \/ TellRemoved(t)
           \/ \E up \in Reports : SetConnection(t, up) \/ TellConnection(t, up)
  <2>1. Go(t, "free") \/ Go(t, k.after) \/ (Go(t, "read_back") /\ At(t, "connection"))
    <3>1. CASE TellFound(t) \/ TellRemoved(t)
      BY <3>1 DEF TellFound, TellRemoved
    <3>2. ASSUME NEW up \in Reports, SetConnection(t, up) \/ TellConnection(t, up)
          PROVE  Go(t, "free") \/ Go(t, k.after) \/ (Go(t, "read_back") /\ At(t, "connection"))
      BY <3>2 DEF SetConnection, TellConnection
    <3> QED BY <1>4, <3>1, <3>2
  <2>2. At(t, "connection") => k.address \in Addrs
    BY <1>0 DEF At, Equipped
  <2>3. new = NoTask \/ new.at = k.after \/ new.at = "read_back"
    BY <1>0, <2>1, <2>2, GoKeeps, AfterGood
  <2>4. Truthful(new, withdrawn)
    BY <1>0, <2>3, NewTrue DEF Truthful, Carrying
  <2> QED BY <1>0, <2>4, StepKeepsTasks, TruthfulGrows DEF TasksTrue
<1> QED BY <1>1, <1>2, <1>3, <1>4 DEF Step

\* What is forgotten was withdrawn, whatever the cache finds for its id.
LEMMA ForgetStaysTrue ==
  ASSUME IInv, [Next]_vars, NEW t \in Threads, NEW i \in Ids, Doomed(MacOf[i], withdrawn'), Forget(t, i)
  PROVE  Truthful(task'[t], withdrawn')
<1> USE DEF IInv
<1> DEFINE k == FindById(i)
           a == discovered[k].address
<1>0. CacheGood /\ TasksGood /\ TasksTrue /\ i \in Ids \cup {Radio}
  BY DEF Inv
<1>1. /\ k \in Addrs \cup {Absent}
      /\ k # Absent => /\ discovered[k] \in Infos /\ a = k
                       /\ k = id_to_key[i] \/ discovered[k].device_id = i
  BY <1>0, FindByIdFinds
<1>2. k # Absent => k = MacOf[i] \/ Doomed(k, withdrawn)
  BY <1>1, KeyIs, MacIs DEF CacheTrue, AllGenuine, Genuine, Matched
<1>3. k # Absent => Doomed(k, withdrawn') /\ a = k
  BY <1>1, <1>2, Growing, GenuineGrows
<1>4. IF k # Absent THEN DoRemove(t, k, a) ELSE UNCHANGED task
  BY DEF Forget
<1> HIDE DEF k, a
<1>5. CASE k # Absent
  <2>1. task'[t] = [NoTask EXCEPT !.at = "remove", !.key = k, !.address = a]
    BY <1>0, <1>4, <1>5 DEF DoRemove, TasksGood
  <2>2. Doomed(k, withdrawn') /\ Doomed(a, withdrawn')
    BY <1>3, <1>5
  <2>3. Truthful([NoTask EXCEPT !.at = "remove", !.key = k, !.address = a], withdrawn')
    BY <2>2, NewTrue
  <2> QED BY <2>1, <2>3
<1>6. CASE k = Absent
  BY <1>0, <1>4, <1>6, TruthfulGrows
<1> QED BY <1>5, <1>6

\* An update makes up a record only of a device that has been withdrawn.
LEMMA WatcherStaysTrue ==
  ASSUME IInv, [Next]_vars, NEW w \in Watchers, Watcher(w)
  PROVE  TasksTrue'
<1> USE DEF IInv
<1>0. /\ w \in Threads /\ Aeps \subseteq Ids /\ TasksGood /\ CacheGood /\ Inv
      /\ withdrawn \subseteq withdrawn'
  BY MacIs, Growing DEF Threads, Inv
<1>1. ASSUME Truthful(task'[w], withdrawn')
      PROVE  TasksTrue'
  BY <1>0, <1>1, WatcherKeepsTasks, TruthfulGrows DEF TasksTrue
<1>2. ASSUME NEW i \in Aeps, NEW up \in Reports, HandleDeviceAdded(w, i, up)
      PROVE  Truthful(task'[w], withdrawn')
  <2> DEFINE info == Info(i, objects[i] = "paired", up)
  <2>1. Genuine(info, withdrawn')
    BY DEF Info, Genuine, Matched
  <2>2. DoUpsert(w, "added", info, "free")
    BY <1>2 DEF HandleDeviceAdded
  <2> HIDE DEF info
  <2>3. task'[w] = [NoTask EXCEPT !.at = "added", !.info = info, !.after = "free"]
    BY <1>0, <2>2 DEF DoUpsert, TasksGood
  <2>4. Truthful([NoTask EXCEPT !.at = "added", !.info = info, !.after = "free"], withdrawn')
    BY <2>1, NewTrue
  <2> QED BY <2>3, <2>4
<1>3. ASSUME NEW i \in Aeps, NEW given \in BOOLEAN, NEW has \in BOOLEAN, NEW up \in Reports,
           HandleDeviceUpdated(w, i, given, has, up)
      PROVE  Truthful(task'[w], withdrawn')
  <2> DEFINE k == FindById(i)
             a == IF given THEN MacOf[i] ELSE IF k # Absent THEN discovered[k].address ELSE Extracted(i)
             new == [Info(i, FALSE, has /\ up) EXCEPT !.address = a]
             old == [discovered[k] EXCEPT !.address = a, !.connected = IF has THEN up ELSE @]
             after == IF has THEN "free" ELSE "connection"
  <2>1. w \in running /\ i \in seen[w] /\ task[w].at = "free" /\ withdrawn' = withdrawn
    BY <1>3 DEF HandleDeviceUpdated, Free, NoTask
  <2>2. i \notin withdrawn => k = MacOf[i] /\ discovered[k] # Absent
    <3>1. SUFFICES ASSUME i \notin withdrawn
                   PROVE  k = MacOf[i] /\ discovered[k] # Absent
      OBVIOUS
    <3>2. Known(i)
      BY <2>1, <3>1 DEF KnownOnceAdded, Added
    <3>3. id_to_key[i] # Absent /\ discovered[id_to_key[i]] # Absent
      BY <1>0, <3>2, MacIs DEF Known
    <3>4. FindById(i) = id_to_key[i]
      BY <1>0, <3>3, FindByIdFinds
    <3> QED BY <3>2, <3>4 DEF Known
  <2>3. i \in withdrawn => Doomed(MacOf[i], withdrawn)
    BY MacIs DEF Doomed
  <2>4. Doomed(Radio, withdrawn)
    BY MacIs DEF Doomed
  <2>5. CASE k = Absent
    <3>1. Doomed(MacOf[i], withdrawn)
      BY <1>0, <2>2, <2>3, <2>5, MacIs
    <3>2. Genuine(new, withdrawn)
      <4>1. new.address = a /\ new.device_id = i /\ a \in {MacOf[i], Radio}
        BY <2>5 DEF Info, Extracted
      <4> QED BY <2>4, <3>1, <4>1 DEF Genuine, Matched
    <3>3. DoUpsert(w, "updated", new, "free")
      BY <1>3, <2>5 DEF HandleDeviceUpdated
    <3> HIDE DEF new
    <3>4. task'[w] = [NoTask EXCEPT !.at = "updated", !.info = new, !.after = "free"]
      BY <1>0, <3>3 DEF DoUpsert, TasksGood
    <3> QED BY <2>1, <3>2, <3>4, NewTrue
  <2>6. CASE k # Absent
    <3> DEFINE found == discovered[k]
    <3>1. /\ k \in Keys /\ found \in Infos /\ found # Absent /\ found.address = k
          /\ k = id_to_key[i] \/ found.device_id = i
      BY <1>0, <2>6, FindByIdFinds, KeyIs
    <3>2. Matched(k, found.device_id, withdrawn)
      BY <3>1 DEF CacheTrue, AllGenuine, Genuine
    <3>3. Matched(k, i, withdrawn)
      BY <1>0, <2>6, <3>1, <3>2 DEF CacheTrue
    <3>4. Matched(a, found.device_id, withdrawn)
      <4>1. CASE i \notin withdrawn
        <5>1. a = k
          BY <2>2, <2>6, <3>1, <4>1
        <5> QED BY <3>2, <5>1
      <4>2. CASE i \in withdrawn
        BY <2>3, <2>6, <3>1, <3>2, <3>3, <4>2 DEF Matched
      <4> QED BY <4>1, <4>2
    <3>5. Genuine(old, withdrawn)
      <4>1. old.address = a /\ old.device_id = found.device_id
        BY <3>1 DEF Infos
      <4> QED BY <3>4, <4>1 DEF Genuine
    <3>6. task' = [task EXCEPT ![w] =
             [NoTask EXCEPT !.at = "updated", !.address = a, !.info = old, !.after = after]]
      BY <1>3, <2>6 DEF HandleDeviceUpdated
    <3> HIDE DEF a, old, after
    <3>7. task'[w] = [NoTask EXCEPT !.at = "updated", !.address = a, !.info = old, !.after = after]
      BY <1>0, <3>6 DEF TasksGood
    <3>8. Truthful([NoTask EXCEPT !.at = "updated", !.address = a, !.info = old, !.after = after], withdrawn)
      BY <3>5, NewTrue
    <3> QED BY <2>1, <3>7, <3>8
  <2> QED BY <2>5, <2>6
<1>4. ASSUME NEW i \in Aeps, HandleDeviceRemoved(w, i)
      PROVE  Truthful(task'[w], withdrawn')
  <2>1. i \in withdrawn' /\ Forget(w, i)
    BY <1>4 DEF HandleDeviceRemoved
  <2>2. Doomed(MacOf[i], withdrawn')
    BY <2>1, MacIs DEF Doomed
  <2> QED BY <1>0, <2>1, <2>2, ForgetStaysTrue
<1> QED BY <1>1, <1>2, <1>3, <1>4 DEF Watcher

\* The worker makes true records and removes what it has unpaired.
LEMMA WorkStaysTrue ==
  ASSUME IInv, [Next]_vars, Work
  PROVE  TasksTrue'
<1> USE DEF IInv
<1>0. /\ "worker" \in Threads /\ \A t \in Threads : t = "worker" \/ t \in Watchers
      /\ TasksGood /\ Inv /\ withdrawn' = withdrawn /\ todo # <<>> /\ Among(todo, Head(todo))
      /\ \A p \in Aiming : Among(todo, p) => goal \in Ids
  <2>1. todo # <<>> => Among(todo, Head(todo))
    BY Onward DEF Inv, WorkGood
  <2> QED BY <2>1, WorkTouches DEF Threads, Inv, WorkGood, Plan
<1>1. ASSUME Truthful(task'["worker"], withdrawn')
      PROVE  TasksTrue'
  BY <1>0, <1>1, WorkKeepsTasks, TruthfulGrows DEF TasksTrue
<1>2. ASSUME NEW i \in Ids, NEW p \in BOOLEAN, NEW up \in BOOLEAN, NEW place \in {"silent", "forced"},
             DoUpsert("worker", place, Info(i, p, up), "free")
      PROVE  TasksTrue'
  <2> DEFINE info == Info(i, p, up)
  <2>1. Genuine(info, withdrawn')
    BY DEF Info, Genuine, Matched
  <2> HIDE DEF info
  <2>2. task'["worker"] = [NoTask EXCEPT !.at = place, !.info = info, !.after = "free"]
    BY <1>0, <1>2 DEF DoUpsert, TasksGood, info
  <2>3. Truthful([NoTask EXCEPT !.at = place, !.info = info, !.after = "free"], withdrawn')
    BY <2>1, NewTrue
  <2> QED BY <1>1, <2>2, <2>3
<1>3. CASE UNCHANGED task
  BY <1>0, <1>1, <1>3, TruthfulGrows
<1>4. ASSUME NEW i \in Ids, NEW up \in Reports, Ingest(i, up)
      PROVE  TasksTrue'
  <2>1. /\ DoUpsert("worker", Head(todo), Info(i, i \in Hids \/ objects[i] = "paired", up), "free")
        /\ Head(todo) \in {"silent", "forced"} /\ up \in BOOLEAN
        /\ (i \in Hids \/ objects[i] = "paired") \in BOOLEAN
    BY <1>4, WindowsBounds DEF Ingest
  <2> QED BY <1>2, <2>1
<1>5. ASSUME NEW up \in Reports, Finalize(up)
      PROVE  TasksTrue'
  <2>1. goal \in Ids /\ up \in BOOLEAN /\ DoUpsert("worker", "forced", Info(goal, TRUE, up), "free")
    BY <1>0, <1>5, WindowsBounds DEF Finalize, Part, Aiming
  <2> QED BY <1>2, <2>1
<1>6. CASE CheckConnection
  <2>1. PICK after \in {"free", "tell_connection"} : DoConnection("worker", MacOf[goal], after)
    BY <1>6 DEF CheckConnection
  <2>2. task'["worker"] = [NoTask EXCEPT !.at = "connection", !.address = MacOf[goal], !.after = after]
    BY <1>0, <2>1 DEF DoConnection, TasksGood
  <2>3. Truthful([NoTask EXCEPT !.at = "connection", !.address = MacOf[goal], !.after = after], withdrawn')
    BY NewTrue
  <2> QED BY <1>1, <2>2, <2>3
<1>7. CASE TellBelieved
  <2>1. task'["worker"] = [NoTask EXCEPT !.at = "tell_connection", !.address = MacOf[goal]]
    BY <1>0, <1>7 DEF TellBelieved, TasksGood
  <2>2. Truthful([NoTask EXCEPT !.at = "tell_connection", !.address = MacOf[goal]], withdrawn')
    BY NewTrue
  <2> QED BY <1>1, <2>1, <2>2
<1>8. CASE ForgetUnpaired
  <2>1. Among(todo, "forget") /\ goal \in Ids
    BY <1>0, <1>8 DEF ForgetUnpaired, Part, Aiming
  <2>2. Doomed(MacOf[goal], withdrawn')
    BY <1>0, <2>1 DEF WorkTrue
  <2>3. CASE Forget("worker", goal)
    BY <1>0, <1>1, <2>1, <2>2, <2>3, ForgetStaysTrue
  <2>4. CASE DoRemove("worker", MacOf[goal], MacOf[goal])
    <3>1. task'["worker"] = [NoTask EXCEPT !.at = "remove", !.key = MacOf[goal], !.address = MacOf[goal]]
      BY <1>0, <2>4 DEF DoRemove, TasksGood
    <3>2. Truthful([NoTask EXCEPT !.at = "remove", !.key = MacOf[goal], !.address = MacOf[goal]], withdrawn')
      BY <2>2, NewTrue
    <3> QED BY <1>1, <3>1, <3>2
  <2> QED BY <1>8, <2>3, <2>4 DEF ForgetUnpaired
<1>9. CASE Enumerate \/ ReadPaired \/ SendPaired \/ Succeed \/ UnpairAsync
           \/ \E started \in SUBSET Watchers : StartWatchers(started)
  BY <1>3, <1>9 DEF Enumerate, ReadPaired, SendPaired, Succeed, UnpairAsync, StartWatchers
<1> QED BY <1>4, <1>5, <1>6, <1>7, <1>8, <1>9 DEF Work

LEMMA TasksStayTrue ==
  ASSUME IInv, [Next]_vars
  PROVE  TasksTrue'
<1>1. CASE UNCHANGED task
  BY <1>1, TruthfulGrows DEF IInv, TasksTrue
<1>2. CASE Command
  BY <1>1, <1>2, CommandTouches
<1>3. CASE Windows \/ UNCHANGED vars
  BY <1>1, <1>3 DEF Windows, WindowsSets, vars
<1> QED BY <1>2, <1>3, StepStaysTrue, WatcherStaysTrue, WorkStaysTrue DEF Next

\* The paired list that is sent is true, and only what was given up is unpaired.
LEMMA PlanStaysTrue ==
  ASSUME IInv, [Next]_vars
  PROVE  WorkTrue'
<1> USE DEF IInv
<1>0. withdrawn \subseteq withdrawn' /\ Inv /\ WorkTrue
  BY Growing
<1>1. CASE UNCHANGED <<todo, goal, batch>>
  BY <1>0, <1>1, GenuineGrows DEF WorkTrue
<1>2. CASE Command
  <2>0. todo = <<>> /\ UNCHANGED listVars
    BY <1>2, CommandTouches
  <2>1. ASSUME todo' # <<>> => Head(todo') \notin Batched,
               \/ ~Among(todo, "unpair")' /\ ~Among(todo, "forget")'
               \/ Doomed(MacOf[goal'], withdrawn')
        PROVE  WorkTrue'
    BY <2>1 DEF WorkTrue, Batched
  <2>2. CASE StartScan \/ Refresh
    <3>1. PICK s \in {<<"paired", "tell_paired", "visible", "watch">>, <<"paired", "tell_paired">>} : todo' = s
      BY <2>2 DEF StartScan, Refresh, Parts
    <3> QED BY <2>1, <3>1, PartsGood DEF Aiming
  <2>3. CASE StopScan
    BY <1>1, <2>3 DEF StopScan, workerVars
  <2>4. ASSUME NEW i \in Ids, Pair(i) \/ Connect(i) \/ Disconnect(i)
        PROVE  WorkTrue'
    <3>1. PICK s \in {<<"paired", "finalize", "succeeded", "connection", "tell_paired">>,
                      <<"connection">>, <<"connection_quietly", "believed">>} : todo' = s
      BY <2>4 DEF Pair, Connect, Disconnect, Parts
    <3> QED BY <2>1, <3>1, PartsGood
  <2>5. ASSUME NEW i \in Ids, UnpairDevice(i)
        PROVE  WorkTrue'
    <3>1. PICK s \in {<<"connection_quietly", "believed", "unpair", "forget">>, <<"unpair", "forget">>} :
            todo' = s
      BY <2>5 DEF UnpairDevice, Parts
    <3>2. i \in Aeps /\ i \in withdrawn' /\ goal' = i
      BY <2>5 DEF UnpairDevice, Parts
    <3>3. Doomed(MacOf[goal'], withdrawn')
      BY <3>2, MacIs DEF Doomed
    <3> QED BY <2>1, <3>1, <3>3, PartsGood
  <2> QED BY <1>2, <2>2, <2>3, <2>4, <2>5 DEF Command
<1>3. CASE Work
  <2>0. withdrawn' = withdrawn /\ WorkGood'
    BY <1>0, <1>3, WorkTouches, WorkKeepsWork
  <2>1. Among(todo, "unpair")' \/ Among(todo, "forget")' => Doomed(MacOf[goal], withdrawn)
    BY <1>0, <1>3, WorkKeepsWork DEF WorkTrue, Aiming
  <2>2. CASE UnpairAsync
    <3>1. Among(todo, "unpair") /\ goal \in Ids
      BY <1>0, <2>2, Onward DEF UnpairAsync, Part, Inv, WorkGood, Plan, Aiming
    <3>2. MacOf[goal'] = MacOf[goal] \/ Doomed(MacOf[goal'], withdrawn)
      <4> DEFINE a == MacOf[goal]
      <4>1. a \in Addrs /\ a \in Macs /\ a \in Keys /\ a # Radio
        BY <3>1, MacIs
      <4>2. CachedPath(a) # Absent => \/ CachedPath(a) = address_to_id[a]
                                      \/ discovered[a] # Absent /\ CachedPath(a) = discovered[a].device_id
        BY <4>1, CachedPathType DEF Inv
      <4>3. discovered[a] # Absent => Matched(a, discovered[a].device_id, withdrawn)
        BY <4>1, RecordIs DEF Inv, CacheGood, CacheTrue, AllGenuine, Genuine
      <4>4. goal' = goal \/ (CachedPath(a) # Absent /\ goal' = CachedPath(a))
        BY <2>2 DEF UnpairAsync
      <4> HIDE DEF a
      <4> QED BY <4>1, <4>2, <4>3, <4>4 DEF CacheTrue, Matched, a
    <3>3. todo' = Tail(todo) \/ todo' = <<>>
      BY <2>2 DEF UnpairAsync
    <3>4. todo' # <<>> => Head(todo') \notin Batched
      BY <1>0, <2>2, <3>3, Onward DEF UnpairAsync, Part, Inv, WorkGood, Plan
    <3> QED BY <2>0, <2>1, <3>2, <3>4 DEF WorkTrue, Batched
  <2>3. CASE ~UnpairAsync
    <3>1. goal' = goal
      BY <1>3, <2>3 DEF Work, Enumerate, ReadPaired, SendPaired, Succeed, CheckConnection, TellBelieved,
         ForgetUnpaired, Ingest, Finalize, StartWatchers, Proceed
    <3>2. ASSUME todo' # <<>>, Head(todo') = "send_paired"
          PROVE  \A b \in batch' : Genuine(b, withdrawn)
      <4>1. CASE ReadPaired
        <5>1. batch' = {paired[k] : k \in Keys} \ {Absent}
          BY <4>1 DEF ReadPaired
        <5>2. \A k \in Keys : paired[k] # Absent => paired[k] = discovered[k] /\ discovered[k] # Absent
          BY DEF Inv, CacheGood, Mirrors
        <5> QED BY <5>1, <5>2 DEF CacheTrue, AllGenuine
      <4>2. CASE ~ReadPaired
        <5>1. todo \in Seq(PartNames) /\ todo # <<>> /\ OnlyFirst(todo, Batched)
          BY <1>3, WorkTouches DEF Inv, WorkGood, Plan
        <5>2. todo' # Tail(todo)
          BY <3>2, <5>1, Onward DEF Batched
        <5>3. CASE Enumerate
          <6>1. \/ todo' = <<>> \o Tail(todo)
                \/ \E x \in {"silent", "forced"} : todo' = <<x>> \o Tail(todo)
            BY <5>3 DEF Enumerate
          <6>2. <<>> \o Tail(todo) = Tail(todo)
            BY <5>1
          <6>3. \A x \in {"silent", "forced"} : Head(<<x>> \o Tail(todo)) = x
            BY <5>1, Instead DEF PartNames
          <6> QED BY <3>2, <5>2, <6>1, <6>2, <6>3
        <5>4. CASE \E i \in Ids, up \in Reports : Ingest(i, up)
          BY <3>2, <5>2, <5>4 DEF Ingest
        <5> QED BY <1>3, <2>3, <4>2, <5>2, <5>3, <5>4 DEF Work, SendPaired, Succeed, CheckConnection,
                TellBelieved, ForgetUnpaired, Finalize, StartWatchers, Proceed
      <4> QED BY <4>1, <4>2
    <3> QED BY <2>0, <2>1, <3>1, <3>2 DEF WorkTrue
  <2> QED BY <2>2, <2>3
<1>4. CASE \/ Windows \/ UNCHANGED vars \/ (\E t \in Threads : Step(t))
           \/ \E w \in Watchers : Watcher(w)
  <2>1. UNCHANGED workerVars
    BY <1>0, <1>4, OthersTouch
  <2> QED BY <1>1, <2>1 DEF workerVars
<1> QED BY <1>2, <1>3, <1>4 DEF Next

\* What a watcher has added and told it had before, unless it does so just now.
LEMMA AddedBefore ==
  ASSUME Inv, [Next]_vars, NEW w \in Watchers, NEW i
  PROVE  /\ Added(w, i)' => Added(w, i) \/ (Upsert(w) /\ task[w].info.device_id = i)
         /\ Told(w, i)' => Told(w, i) \/ (TellFound(w) /\ task[w].info.device_id = i)
<1>0. w \in Threads /\ TasksGood /\ task[w] \in Tasks /\ Equipped(task[w])
      /\ task[w].after \notin {"added", "tell_found"}
  BY DEF Threads, Inv, TasksGood, Tasks
<1>1. ASSUME task'[w] = task[w], w \in running' /\ i \in seen'[w] => w \in running /\ i \in seen[w]
      PROVE  (Added(w, i)' => Added(w, i)) /\ (Told(w, i)' => Told(w, i))
  BY <1>1 DEF Added, Told
<1>2. CASE UNCHANGED vars \/ Windows
  BY <1>1, <1>2 DEF vars, scanVars, Windows, WindowsSets
<1>3. CASE Command
  <2>1. UNCHANGED <<task, seen>> /\ running' \subseteq running
    <3>1. UNCHANGED scanVars \/ StopScan \/ UNCHANGED <<running, scanning>>
      BY <1>3, CommandKeepsWork
    <3> QED BY <1>3, <3>1, CommandTouches DEF scanVars, StopScan
  <2> QED BY <1>1, <2>1
<1>4. CASE Work
  <2>1. task'[w] = task[w]
    BY <1>4, WorkKeepsTasks
  <2>2. CASE \E started \in SUBSET Watchers : StartWatchers(started)
    BY <1>1, <2>1, <2>2 DEF StartWatchers
  <2>3. CASE ~\E started \in SUBSET Watchers : StartWatchers(started)
    <3>1. UNCHANGED scanVars
      BY <1>4, <2>3, WorkKeepsWork
    <3>2. UNCHANGED seen
      BY <1>4, <2>3 DEF Work, Enumerate, ReadPaired, SendPaired, Succeed, CheckConnection, TellBelieved,
         UnpairAsync, ForgetUnpaired, Ingest, Finalize
    <3> QED BY <1>1, <2>1, <3>1, <3>2 DEF scanVars
  <2> QED BY <2>2, <2>3
<1>5. ASSUME NEW t \in Threads, Step(t)
      PROVE  /\ Added(w, i)' => Added(w, i) \/ (Upsert(w) /\ task[w].info.device_id = i)
             /\ Told(w, i)' => Told(w, i) \/ (TellFound(w) /\ task[w].info.device_id = i)
  <2>1. UNCHANGED <<running, scanning, seen>>
    BY <1>5, StepTouches DEF scanVars
  <2>2. CASE t # w
    BY <1>0, <1>1, <1>5, <2>1, <2>2, StepKeepsTasks
  <2>3. CASE Upsert(w)
    <3>1. Added(w, i)' => Added(w, i) \/ (Upsert(w) /\ task[w].info.device_id = i)
      BY <2>1, <2>3 DEF Added
    <3>2. task[w].at \in {"added", "updated", "silent", "forced"} /\ task[w].info \in Infos
      BY <1>0, <2>3 DEF Upsert, Equipped
    <3>3. CASE task[w].at = "added" /\ task[w].info.device_id = i /\ w \in running
      <4>1. Tells(w)
        BY <3>3 DEF Tells, At, Inv, Signals
      <4>2. Go(w, "tell_found")
        BY <2>3, <4>1 DEF Upsert
      <4>3. task'[w].at = "tell_found" /\ task'[w].info = task[w].info
        BY <1>0, <3>2, <4>2, GoKeeps
      <4> QED BY <3>1, <3>3, <4>3 DEF Told
    <3>4. CASE ~(task[w].at = "added" /\ task[w].info.device_id = i /\ w \in running)
      BY <2>1, <3>1, <3>2, <3>4 DEF Told
    <3> QED BY <3>3, <3>4
  <2>4. CASE TellFound(w)
    <3>1. task[w].at = "tell_found"
      BY <2>4 DEF TellFound, At
    <3> QED BY <2>1, <2>4, <3>1 DEF Added, Told
  <2>5. CASE ~Upsert(w) /\ ~TellFound(w) /\ t = w
    <3>1. task[w].at \notin {"added", "tell_found"}
      <4>1. CASE ReadBack(w) \/ Remove(w) \/ TellRemoved(w)
        BY <4>1 DEF ReadBack, Remove, TellRemoved, At
      <4>2. ASSUME NEW up \in Reports, SetConnection(w, up) \/ TellConnection(w, up)
            PROVE  task[w].at \notin {"added", "tell_found"}
        BY <4>2 DEF SetConnection, TellConnection, At
      <4> QED BY <1>5, <2>5, <4>1, <4>2 DEF Step
    <3> QED BY <2>1, <3>1 DEF Added, Told
  <2> QED BY <2>2, <2>3, <2>4, <2>5
<1>6. ASSUME NEW v \in Watchers, Watcher(v)
      PROVE  (Added(w, i)' => Added(w, i)) /\ (Told(w, i)' => Told(w, i))
  <2>1. UNCHANGED <<running, scanning>> /\ seen \in [Watchers -> SUBSET Aeps]
    BY <1>6, WatcherTouches DEF scanVars, Inv, ShapeGood
  <2>2. ASSUME NEW j \in Aeps, NEW up \in Reports, HandleDeviceAdded(v, j, up)
        PROVE  (Added(w, i)' => Added(w, i)) /\ (Told(w, i)' => Told(w, i))
    <3>1. seen' = [seen EXCEPT ![v] = @ \cup {j}] /\ task[v] = NoTask
      BY <2>2 DEF HandleDeviceAdded, Free
    <3>2. CASE v # w
      BY <1>0, <1>1, <1>6, <2>1, <3>1, <3>2, WatcherKeepsTasks
    <3>3. CASE v = w
      <4> DEFINE info == Info(j, objects[j] = "paired", up)
      <4>1. info.device_id = j
        BY DEF Info
      <4>2. DoUpsert(w, "added", info, "free")
        BY <2>2, <3>3 DEF HandleDeviceAdded
      <4> HIDE DEF info
      <4>3. task'[w].at = "added" /\ task'[w].info.device_id = j
        BY <1>0, <4>1, <4>2 DEF DoUpsert, TasksGood, NoTask
      <4>4. task[w].at = "free" /\ seen'[w] = seen[w] \cup {j}
        BY <2>1, <3>1, <3>3 DEF NoTask
      <4> QED BY <2>1, <4>3, <4>4 DEF Added, Told
    <3> QED BY <3>2, <3>3
  <2>3. ASSUME NEW j \in Aeps, \/ \E given, has \in BOOLEAN, up \in Reports :
                                    HandleDeviceUpdated(v, j, given, has, up)
                               \/ HandleDeviceRemoved(v, j)
        PROVE  (Added(w, i)' => Added(w, i)) /\ (Told(w, i)' => Told(w, i))
    <3>1. (seen' = seen \/ seen' = [seen EXCEPT ![v] = @ \ {j}]) /\ task[v] = NoTask
      BY <2>3 DEF HandleDeviceUpdated, HandleDeviceRemoved, Free
    <3>2. seen'[w] \subseteq seen[w]
      BY <2>1, <3>1
    <3>3. CASE v # w
      BY <1>0, <1>1, <1>6, <2>1, <3>2, <3>3, WatcherKeepsTasks
    <3>4. CASE v = w
      <4>1. task[w].at = "free"
        BY <3>1, <3>4 DEF NoTask
      <4> QED BY <2>1, <3>2, <4>1 DEF Added, Told
    <3> QED BY <3>3, <3>4
  <2> QED BY <1>6, <2>2, <2>3 DEF Watcher
<1> QED BY <1>2, <1>3, <1>4, <1>5, <1>6 DEF Next

LEMMA InitTrue == ASSUME Init PROVE IInv
<1>1. Inv
  BY InitGood
<1>2. TasksTrue
  BY NewTrue DEF Init, TasksTrue
<1>3. CacheTrue /\ AllGenuine(devices, withdrawn)
  <2>1. discovered = Empty /\ devices = Empty
    BY DEF Init, ListsInit
  <2>2. id_to_key = [p \in Ids \cup {Radio} |-> Absent] /\ address_to_id = [a \in Addrs |-> Absent]
    BY KeyIs DEF Init, ListsInit
  <2>3. Macs \subseteq Addrs
    BY DEF Addrs
  <2> QED BY <2>1, <2>2, <2>3 DEF CacheTrue, AllGenuine, Empty
<1>4. WorkTrue
  BY PartsGood DEF Init, WorkTrue
<1>5. KnownOnceAdded /\ ListedOnceTold
  BY DEF Init, KnownOnceAdded, ListedOnceTold, Added, Told
<1> QED BY <1>1, <1>2, <1>3, <1>4, <1>5 DEF IInv

LEMMA StaysTrue == ASSUME IInv, [Next]_vars PROVE IInv'
<1>0. Inv /\ withdrawn \subseteq withdrawn' /\ Watchers \subseteq Threads
  BY Growing DEF IInv, Threads
<1>1. Inv'
  BY <1>0, ShapeKept, TasksKept, WorkKept, SignalsKept, CacheKept, NodeKept DEF Inv
<1>2. KnownOnceAdded'
  <2>1. ASSUME NEW i \in Aeps \ withdrawn', NEW w \in Watchers, Added(w, i)'
        PROVE  Known(i)'
    <3>1. i \in Aeps \ withdrawn /\ w \in Threads
      BY <1>0
    <3>2. CASE Added(w, i)
      BY <3>1, <3>2, CacheStaysTrue DEF IInv, KnownOnceAdded
    <3>3. CASE Upsert(w) /\ task[w].info.device_id = i
      BY <3>1, <3>3, CacheStaysTrue
    <3> QED BY <1>0, <2>1, <3>2, <3>3, AddedBefore
  <2> QED BY <2>1 DEF KnownOnceAdded
<1>3. ListedOnceTold'
  <2>1. ASSUME NEW i \in Aeps \ withdrawn', NEW w \in Watchers, Told(w, i)'
        PROVE  devices'[MacOf[i]] # Absent
    <3>1. i \in Aeps \ withdrawn /\ w \in Threads
      BY <1>0
    <3>2. CASE Told(w, i)
      BY <3>1, <3>2, NodeStaysTrue DEF IInv, ListedOnceTold
    <3>3. CASE TellFound(w) /\ task[w].info.device_id = i
      BY <3>1, <3>3, NodeStaysTrue
    <3> QED BY <1>0, <2>1, <3>2, <3>3, AddedBefore
  <2> QED BY <2>1 DEF ListedOnceTold
<1>4. AllGenuine(devices, withdrawn)'
  BY NodeStaysTrue
<1> QED BY <1>1, <1>2, <1>3, <1>4, TasksStayTrue, CacheStaysTrue, PlanStaysTrue DEF IInv

\* A device that a watcher has added and told, and nobody has withdrawn, is in the cache and in
\* the node's list as long as that watcher runs.
THEOREM DevicesStayListed == Spec => []ListedUntilWithdrawn
<1>1. Init => IInv
  BY InitTrue
<1>2. IInv /\ [Next]_vars => IInv'
  BY StaysTrue
<1>3. IInv => ListedUntilWithdrawn
  <2>1. ASSUME IInv, NEW i \in Aeps \ withdrawn, NEW w \in Watchers, Told(w, i)
        PROVE  discovered[MacOf[i]] # Absent /\ devices[MacOf[i]] # Absent
    <3>1. Added(w, i)
      BY <2>1 DEF Told, Added
    <3> QED BY <2>1, <3>1 DEF IInv, KnownOnceAdded, ListedOnceTold, Known
  <2> QED BY <2>1 DEF ListedUntilWithdrawn
<1> QED BY <1>1, <1>2, <1>3, PTL DEF Spec
=============================================================================
