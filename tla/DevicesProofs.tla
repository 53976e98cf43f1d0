----------------------------- MODULE DevicesProofs -----------------------------
(***************************************************************************)
(* Proofs about DeviceRecords and Devices, for any set of devices and any  *)
(* bounds: type correctness, OneRecord, PairedMirrors and IndexesAgree.    *)
(*                                                                         *)
(* An upsert keeps a table tidy because a record under another key that is *)
(* about the same device is stale, and two records under one key are about *)
(* one device.  The indexes agree because the cache is never given a record*)
(* without a MAC for a device whose MAC it knows (Fitting), and because the*)
(* devices whose MAC has not changed go by one MAC only, wherever they are *)
(* spoken of (Plain).                                                      *)
(***************************************************************************)
EXTENDS Devices, TLAPS

Distinct(infos) == \A x, y \in infos : x.device_id = y.device_id => x = y

\* The records, tables and signals that speak of no second MAC but of devices in R.
Plain(R) == {i \in Infos : i.device_id \in R \/ i.address \in {i.device_id, AddressOf[i.device_id]}}

PlainTables(R) == [Keys -> Plain(R) \cup {Absent}]

PlainSignals(R) == {s \in Signals : /\ s.address \in MacsOf(s.path) \cup {Absent}
                                    /\ s.path \notin R /\ s.type # "added" => s.address = Absent
                                    /\ s.type = "added" => s.address = AddressOf[s.path]}

-----------------------------------------------------------------------------
(* Records and tables                                                      *)

\* Every MAC is one of one device, and none is a path.
LEMMA MacFacts ==
  /\ \A p \in Paths : /\ AddressOf[p] \in MacsOf(p) /\ IdentityOf[p] \in MacsOf(p)
                       /\ \A a \in MacsOf(p) : a \in Addresses /\ a \in Keys /\ a \notin Paths
                       /\ p \in Keys /\ p \notin Addresses
  /\ \A p, q \in Paths : \A a \in MacsOf(p) : a \in MacsOf(q) => p = q
  /\ Absent \notin Keys /\ \A a \in Addresses : a \in Keys /\ a # Absent
<1>1. \A p \in Paths : \A a \in MacsOf(p) : a \in Addresses
  BY DEF Addresses
<1>2. \A p, q \in Paths : \A a \in MacsOf(p) : a \in MacsOf(q) => p = q
  BY DevicesAssumption DEF DevicesAssumption
<1>3. \A p \in Paths : AddressOf[p] \in MacsOf(p) /\ IdentityOf[p] \in MacsOf(p)
  BY DEF MacsOf
<1> QED BY <1>1, <1>2, <1>3, DevicesAssumption DEF DevicesAssumption, Keys

\* A record's key is its path or one of its MACs.
LEMMA KeyType ==
  ASSUME NEW i \in Infos
  PROVE  /\ i # Absent /\ Key(i) # Absent
         /\ i.device_id \in Paths /\ i.device_id \in Keys
         /\ i.address \in Keys /\ Key(i) \in Keys
         /\ i.address \in Addresses => i.address \in MacsOf(i.device_id) /\ Key(i) = i.address
         /\ i.address \notin Addresses => i.address = i.device_id /\ Key(i) = i.device_id
<1>1. i.device_id \in Paths /\ i.address \in Keys /\ i.address \in {i.device_id} \cup MacsOf(i.device_id)
  BY DEF Infos
<1>2. i # Absent
  BY AbsentAssumption DEF AbsentAssumption
<1> QED BY <1>1, <1>2, MacFacts DEF Key

\* Records under one key are about one device.
LEMMA KeyInjective ==
  ASSUME NEW i \in Infos, NEW j \in Infos, Key(i) = Key(j)
  PROVE  i.device_id = j.device_id
<1>1. CASE i.address \in Addresses /\ j.address \in Addresses
  BY <1>1, KeyType, MacFacts
<1>2. CASE i.address \notin Addresses /\ j.address \notin Addresses
  BY <1>2, KeyType
<1>3. CASE ~(i.address \in Addresses <=> j.address \in Addresses)
  BY <1>3, KeyType, MacFacts
<1> QED BY <1>1, <1>2, <1>3

\* Changing a flag of a record leaves its device and its address alone.
LEMMA FlagType ==
  ASSUME NEW i \in Infos, NEW x \in {"paired", "connected"}, NEW b \in BOOLEAN
  PROVE  /\ [i EXCEPT ![x] = b] \in Infos
         /\ [i EXCEPT ![x] = b].device_id = i.device_id
         /\ [i EXCEPT ![x] = b].address = i.address
<1>1. CASE x = "paired"
  BY <1>1 DEF Infos
<1>2. CASE x = "connected"
  BY <1>2 DEF Infos
<1> QED BY <1>1, <1>2

\* Merging changes flags only.
LEMMA MergedType ==
  ASSUME NEW table \in Tables, NEW i \in Infos
  PROVE  /\ Merged(table, i) \in Infos
         /\ Merged(table, i).device_id = i.device_id
         /\ Merged(table, i).address = i.address
<1> DEFINE stale == Stale(table, i)
           p == i.paired \/ \E k \in stale \cup {Key(i)} : table[k] # Absent /\ table[k].paired
           c == i.connected \/ \E k \in stale : table[k].connected
<1>1. Merged(table, i) = [[i EXCEPT !.paired = p] EXCEPT !.connected = c]
  BY DEF Merged, Infos
<1>2. p \in BOOLEAN /\ c \in BOOLEAN
  OBVIOUS
<1> HIDE DEF p, c
<1> DEFINE i1 == [i EXCEPT !.paired = p]
<1>3. i1 \in Infos /\ i1.device_id = i.device_id /\ i1.address = i.address
  BY <1>2 DEF Infos
<1> HIDE DEF i1
<1>4. Merged(table, i) = [i1 EXCEPT !.connected = c]
  BY <1>1 DEF i1
<1> QED BY <1>2, <1>3, <1>4 DEF Infos

\* What an upsert leaves under a key: a record that was given, nothing, or what was there.
LEMMA UpsertedRecord ==
  ASSUME NEW table \in Tables, NEW infos \in SUBSET Infos, NEW k \in Keys
  PROVE  LET new == Upserted(table, infos)[k] IN
           \/ \E i \in infos : /\ Key(i) = k /\ new \in Infos
                               /\ new.device_id = i.device_id /\ new.address = i.address
           \/ new = Absent /\ \A i \in infos : Key(i) # k
           \/ new = table[k] /\ \A i \in infos : Key(i) # k /\ k \notin Stale(table, i)
<1>1. CASE \E i \in infos : Key(i) = k
  <2> DEFINE i == CHOOSE i \in infos : Key(i) = k
  <2>1. i \in infos /\ Key(i) = k
    BY <1>1
  <2>2. Upserted(table, infos)[k] = Merged(table, i)
    BY <1>1 DEF Upserted
  <2> HIDE DEF i
  <2> QED BY <2>1, <2>2, MergedType
<1>2. CASE ~\E i \in infos : Key(i) = k
  BY <1>2 DEF Upserted
<1> QED BY <1>1, <1>2

\* An upsert makes a table of a table.
LEMMA UpsertedType ==
  ASSUME NEW table \in Tables, NEW infos \in SUBSET Infos
  PROVE  Upserted(table, infos) \in Tables
<1>1. \A k \in Keys : Upserted(table, infos)[k] \in Infos \cup {Absent}
  BY UpsertedRecord DEF Tables
<1>2. Upserted(table, infos) = [k \in Keys |-> Upserted(table, infos)[k]]
  BY DEF Upserted
<1> QED BY <1>1, <1>2 DEF Tables

\* An upsert of plain records keeps a table plain.
LEMMA UpsertedPlain ==
  ASSUME NEW R, NEW table \in Tables, table \in PlainTables(R), NEW infos \in SUBSET Plain(R)
  PROVE  Upserted(table, infos) \in PlainTables(R)
<1>1. infos \in SUBSET Infos
  BY DEF Plain
<1>2. ASSUME NEW k \in Keys
      PROVE  Upserted(table, infos)[k] \in Plain(R) \cup {Absent}
  <2>1. table[k] \in Plain(R) \cup {Absent}
    BY DEF PlainTables
  <2>2. \A i \in infos : i.device_id \in R \/ i.address \in {i.device_id, AddressOf[i.device_id]}
    BY DEF Plain
  <2> QED BY <1>1, <2>1, <2>2, UpsertedRecord DEF Plain
<1>3. Upserted(table, infos) = [k \in Keys |-> Upserted(table, infos)[k]]
  BY DEF Upserted
<1> QED BY <1>2, <1>3 DEF PlainTables

\* An upsert keeps a table tidy.
LEMMA UpsertedTidy ==
  ASSUME NEW table \in Tables, NEW infos \in SUBSET Infos, Distinct(infos), Tidy(table)
  PROVE  Tidy(Upserted(table, infos))
<1> DEFINE new == Upserted(table, infos)
           Given(k) == \E i \in infos : /\ Key(i) = k /\ new[k] \in Infos
                                        /\ new[k].device_id = i.device_id
                                        /\ new[k].address = i.address
           Kept(k) == new[k] = table[k] /\ \A i \in infos : Key(i) # k /\ k \notin Stale(table, i)
<1>1. \A k \in Keys : new[k] # Absent => Given(k) \/ Kept(k)
  BY UpsertedRecord
<1> HIDE DEF new
<1>2. ASSUME NEW k \in Keys, new[k] # Absent
      PROVE  k = Key(new[k])
  <2>1. CASE Given(k)
    BY <2>1 DEF Key
  <2>2. CASE Kept(k)
    BY <1>2, <2>2 DEF Tidy
  <2> QED BY <1>1, <1>2, <2>1, <2>2
<1>3. ASSUME NEW k \in Keys, NEW l \in Keys, new[k] # Absent, new[l] # Absent,
             new[l].device_id = new[k].device_id
      PROVE  l = k
  <2>1. CASE Given(k) /\ Given(l)
    BY <1>3, <2>1 DEF Distinct
  <2>2. CASE Kept(k) /\ Kept(l)
    BY <1>3, <2>2 DEF Tidy
  <2>3. CASE Given(k) /\ Kept(l)
    BY <1>3, <2>3 DEF Stale
  <2>4. CASE Kept(k) /\ Given(l)
    BY <1>3, <2>4 DEF Stale
  <2> QED BY <1>1, <1>3, <2>1, <2>2, <2>3, <2>4
<1> QED BY <1>2, <1>3 DEF Tidy, new

\* The two tables are upserted in step.
LEMMA UpsertedMirrors ==
  ASSUME NEW table \in Tables, NEW pt \in Tables, NEW infos \in SUBSET Infos,
         Mirrors(pt, table)
  PROVE  /\ UpsertedPaired(pt, table, infos) \in Tables
         /\ Mirrors(UpsertedPaired(pt, table, infos), Upserted(table, infos))
<1> DEFINE new == Upserted(table, infos)
           mirror == UpsertedPaired(pt, table, infos)
<1>1. ASSUME NEW k \in Keys
      PROVE  mirror[k] = IF new[k] # Absent /\ new[k].paired THEN new[k] ELSE Absent
  <2>1. CASE \E i \in infos : Key(i) = k
    <3>1. new[k] # Absent
      BY <2>1, UpsertedRecord, KeyType
    <3>2. mirror[k] = IF new[k].paired THEN new[k] ELSE Absent
      BY <2>1 DEF UpsertedPaired
    <3> QED BY <3>1, <3>2
  <2>2. CASE ~(\E i \in infos : Key(i) = k) /\ \E i \in infos : k \in Stale(table, i)
    BY <2>2 DEF UpsertedPaired, Upserted
  <2>3. CASE ~(\E i \in infos : Key(i) = k) /\ ~\E i \in infos : k \in Stale(table, i)
    BY <2>3 DEF UpsertedPaired, Upserted, Mirrors
  <2> QED BY <2>1, <2>2, <2>3
<1>2. mirror = [k \in Keys |-> mirror[k]]
  BY DEF UpsertedPaired
<1>3. new \in Tables
  BY UpsertedType
<1> HIDE DEF new, mirror
<1>4. mirror \in Tables
  BY <1>1, <1>2, <1>3 DEF Tables
<1> QED BY <1>1, <1>4 DEF Mirrors, new, mirror

-----------------------------------------------------------------------------
(* DeviceCache                                                             *)

CacheType == /\ discovered \in Tables /\ paired \in Tables
             /\ id_to_key \in [Paths -> Keys \cup {Absent}]
             /\ address_to_id \in [Addresses -> Paths \cup {Absent}]

CacheInv == /\ CacheType
            /\ discovered \in PlainTables(readdressed)
            /\ Tidy(discovered)
            /\ Mirrors(paired, discovered)
            /\ IndexesAgree

\* No record without a MAC is given for a device that has one with its MAC.
Fitting(infos) == \A i \in infos : i.address \notin Addresses =>
                    \A a \in MacsOf(i.device_id) : discovered[a] = Absent

\* An upsert that fits keeps the tables and the indexes in agreement.
LEMMA CacheUpsertKeeps ==
  ASSUME CacheInv, NEW infos \in SUBSET Plain(readdressed), Distinct(infos), Fitting(infos),
         CacheUpsert(infos), UNCHANGED readdressed
  PROVE  CacheInv'
<1> DEFINE Given(k) == \E i \in infos : /\ Key(i) = k /\ discovered'[k] \in Infos
                                        /\ discovered'[k].device_id = i.device_id
                                        /\ discovered'[k].address = i.address
           Kept(k) == /\ discovered'[k] = discovered[k]
                      /\ \A i \in infos : Key(i) # k /\ k \notin Stale(discovered, i)
<1>0. infos \in SUBSET Infos
  BY DEF Plain
<1>1. discovered' = Upserted(discovered, infos) /\ paired' = UpsertedPaired(paired, discovered, infos)
  BY DEF CacheUpsert
<1>2. discovered' \in Tables /\ Tidy(discovered') /\ paired' \in Tables /\ Mirrors(paired', discovered')
  BY <1>0, <1>1, UpsertedType, UpsertedTidy, UpsertedMirrors DEF CacheInv, CacheType
<1>10. discovered' \in PlainTables(readdressed')
  BY <1>1, UpsertedPlain DEF CacheInv, CacheType
<1>3. \A k \in Keys : \/ Given(k)
                       \/ /\ discovered'[k] = Absent
                          /\ \A i \in infos : Key(i) # k
                       \/ Kept(k)
  BY <1>0, <1>1, UpsertedRecord DEF CacheInv, CacheType
<1>4. ASSUME NEW p \in Paths
      PROVE  /\ id_to_key'[p] \in Keys \cup {Absent}
             /\ id_to_key'[p] # Absent => /\ discovered'[id_to_key'[p]] # Absent
                                          /\ discovered'[id_to_key'[p]].device_id = p
             /\ \A i \in infos : i.device_id = p => id_to_key'[p] = Key(i)
             /\ \A k \in Keys : Kept(k) /\ discovered[k] # Absent /\ discovered[k].device_id = p
                                 => id_to_key'[p] = k
  <2>1. CASE \E i \in infos : i.device_id = p
    <3>1. PICK i \in infos : i.device_id = p /\ id_to_key'[p] = Key(i)
      BY <2>1 DEF CacheUpsert
    <3>2. \A j \in infos : j.device_id = p => j = i
      BY <3>1 DEF Distinct
    <3>3. Key(i) \in Keys /\ Given(Key(i))
      BY <1>0, <3>1, <1>3, KeyType
    <3>4. discovered'[Key(i)] # Absent /\ discovered'[Key(i)].device_id = p
      BY <1>0, <3>1, <3>3, KeyType, KeyInjective
    <3>5. \A k \in Keys : Kept(k) /\ discovered[k] # Absent => discovered[k].device_id # p
      BY <3>1 DEF Stale
    <3> QED BY <3>1, <3>2, <3>3, <3>4, <3>5
  <2>2. CASE /\ ~\E i \in infos : i.device_id = p
             /\ \E i \in infos : \E k \in Stale(discovered, i) : discovered[k].device_id = p
    <3>1. id_to_key'[p] = Absent
      BY <2>2 DEF CacheUpsert
    <3>2. PICK j \in infos : \E k \in Stale(discovered, j) : discovered[k].device_id = p
      BY <2>2
    <3> PICK l \in Stale(discovered, j) : discovered[l].device_id = p
      BY <3>2
    <3>3. l \in Keys /\ discovered[l] # Absent
      BY DEF Stale
    <3>4. \A k \in Keys : discovered[k] # Absent /\ discovered[k].device_id = p => k = l
      BY <3>3 DEF CacheInv, Tidy
    <3>5. ~Kept(l)
      OBVIOUS
    <3> QED BY <2>2, <3>1, <3>4, <3>5
  <2>3. CASE /\ ~\E i \in infos : i.device_id = p
             /\ ~\E i \in infos : \E k \in Stale(discovered, i) : discovered[k].device_id = p
    <3>1. id_to_key'[p] = id_to_key[p]
      BY <2>3 DEF CacheUpsert
    <3>2. ASSUME NEW k \in Keys, discovered[k] # Absent, discovered[k].device_id = p
          PROVE  Kept(k)
      <4>1. discovered[k] \in Infos /\ Key(discovered[k]) = k
        BY <3>2 DEF CacheInv, CacheType, Tables, Tidy
      <4>2. \A i \in infos : Key(i) # k
        BY <1>0, <2>3, <3>2, <4>1, KeyInjective
      <4>3. \A i \in infos : k \notin Stale(discovered, i)
        BY <2>3, <3>2
      <4>4. discovered'[k] = discovered[k]
        BY <1>1, <4>2, <4>3 DEF Upserted
      <4> QED BY <4>2, <4>3, <4>4
    <3>3. id_to_key[p] \in Keys \cup {Absent}
      BY DEF CacheInv, CacheType
    <3>4. id_to_key[p] # Absent => /\ discovered[id_to_key[p]] # Absent
                                   /\ discovered[id_to_key[p]].device_id = p
      BY DEF CacheInv, IndexesAgree
    <3>5. id_to_key[p] # Absent => Kept(id_to_key[p])
      BY <3>2, <3>3, <3>4
    <3>6. \A k \in Keys : discovered[k] # Absent /\ discovered[k].device_id = p => id_to_key[p] = k
      BY DEF CacheInv, IndexesAgree
    <3> QED BY <2>3, <3>1, <3>3, <3>4, <3>5, <3>6
  <2> QED BY <2>1, <2>2, <2>3
<1>5. ASSUME NEW k \in Keys, discovered'[k] # Absent
      PROVE  id_to_key'[discovered'[k].device_id] = k
  <2>1. discovered'[k] \in Infos /\ discovered'[k].device_id \in Paths
    BY <1>2, <1>5, KeyType DEF Tables
  <2>2. CASE Given(k)
    BY <1>0, <1>4, <2>1, <2>2
  <2>3. CASE Kept(k)
    BY <1>4, <1>5, <2>1, <2>3
  <2> QED BY <1>3, <1>5, <2>2, <2>3
<1>6. ASSUME NEW a \in Addresses
      PROVE  /\ address_to_id'[a] \in Paths \cup {Absent}
             /\ discovered'[a] # Absent => address_to_id'[a] = discovered'[a].device_id
             /\ discovered'[a] = Absent /\ address_to_id'[a] # Absent
                  => address_to_id'[a] \in readdressed /\ a \in MacsOf(address_to_id'[a])
  <2>0. a \in Keys /\ discovered[a] \in Infos \cup {Absent}
    BY DEF Keys, CacheInv, CacheType, Tables
  <2>1. CASE \E i \in infos : i.address = a
    <3>1. PICK i \in infos : i.address = a /\ address_to_id'[a] = i.device_id
      BY <2>1 DEF CacheUpsert
    <3>2. Key(i) = a /\ i.device_id \in Paths
      BY <1>0, <3>1, KeyType
    <3>3. Given(a)
      BY <1>3, <2>0, <3>2 DEF Keys
    <3>4. discovered'[a] # Absent /\ discovered'[a].device_id = i.device_id
      BY <1>0, <3>2, <3>3, KeyType, KeyInjective
    <3> QED BY <3>1, <3>2, <3>4
  <2>2. CASE ~\E i \in infos : i.address = a
    <3>1. address_to_id'[a] = address_to_id[a]
      BY <2>2 DEF CacheUpsert
    <3>2. /\ discovered[a] # Absent => address_to_id[a] = discovered[a].device_id
          /\ discovered[a] = Absent /\ address_to_id[a] # Absent
               => address_to_id[a] \in readdressed /\ a \in MacsOf(address_to_id[a])
      BY DEF CacheInv, IndexesAgree
    <3>3. \A i \in infos : Key(i) # a
      BY <1>0, <2>2, KeyType, MacFacts
    <3>4. ASSUME NEW i \in infos, a \in Stale(discovered, i)
          PROVE  /\ discovered'[a] = Absent
                 /\ address_to_id[a] \in readdressed /\ a \in MacsOf(address_to_id[a])
      <4>0. i \in Infos /\ discovered[a] \in Infos
        BY <1>0, <2>0, <3>4 DEF Stale
      <4>1. discovered[a] # Absent /\ Key(discovered[a]) = a
        BY <2>0, <3>4 DEF Stale, CacheInv, Tidy
      <4>2. discovered[a].address = a /\ a \in MacsOf(discovered[a].device_id)
        BY <4>0, <4>1, KeyType, MacFacts
      <4>3. discovered[a].device_id = i.device_id
        BY <2>2, <3>4, <4>2 DEF Stale
      <4>4. i.address \in Addresses /\ i.address # a
        BY <2>2, <4>1, <4>2, <4>3 DEF Fitting
      <4>5. i \in Plain(readdressed) /\ discovered[a] \in Plain(readdressed)
        BY <2>0, <4>1 DEF CacheInv, PlainTables
      <4>6. i.device_id \in readdressed
        BY <4>0, <4>2, <4>3, <4>4, <4>5, KeyType, MacFacts DEF Plain
      <4>7. discovered'[a] = Absent
        BY <1>1, <2>0, <3>3, <3>4 DEF Upserted
      <4> QED BY <3>2, <4>1, <4>2, <4>3, <4>6, <4>7
    <3>5. (\A i \in infos : a \notin Stale(discovered, i)) => discovered'[a] = discovered[a]
      BY <1>1, <2>0, <3>3 DEF Upserted
    <3>6. address_to_id[a] \in Paths \cup {Absent}
      BY DEF CacheInv, CacheType
    <3> QED BY <3>1, <3>2, <3>4, <3>5, <3>6
  <2> QED BY <2>1, <2>2
<1>7. id_to_key' \in [Paths -> Keys \cup {Absent}] /\ address_to_id' \in [Addresses -> Paths \cup {Absent}]
  <2>1. id_to_key' = [p \in Paths |-> id_to_key'[p]] /\ address_to_id' = [a \in Addresses |-> address_to_id'[a]]
    BY DEF CacheUpsert
  <2> QED BY <1>4, <1>6, <2>1
<1>8. CacheType'
  BY <1>2, <1>7 DEF CacheType, Tables
<1>9. IndexesAgree'
  BY <1>4, <1>5, <1>6 DEF IndexesAgree
<1> QED BY <1>2, <1>8, <1>9, <1>10 DEF CacheInv, Tidy, Mirrors

\* A removal keeps them in agreement, if the key and the address are one record's.
LEMMA CacheRemoveKeeps ==
  ASSUME CacheInv, NEW k \in Keys, NEW a \in Keys,
         a \in Addresses => a = k \/ discovered[a] = Absent,
         k \in Addresses => a = k \/ discovered[k] = Absent,
         CacheRemove(k, a), UNCHANGED readdressed
  PROVE  CacheInv'
<1>1. /\ discovered' \in Tables /\ paired' \in Tables
      /\ discovered'[k] = Absent /\ paired'[k] = Absent
      /\ \A l \in Keys \ {k} : discovered'[l] = discovered[l] /\ paired'[l] = paired[l]
  BY DEF CacheInv, CacheType, CacheRemove, Tables
<1>2. CacheType'
  BY <1>1 DEF CacheInv, CacheType, CacheRemove, Tables
<1>3. Tidy(discovered)'
  BY <1>1 DEF CacheInv, Tidy
<1>9. discovered' \in PlainTables(readdressed')
  BY <1>1 DEF CacheInv, PlainTables, Tables
<1>4. Mirrors(paired, discovered)'
  BY <1>1 DEF CacheInv, Mirrors
<1>5. ASSUME NEW p \in Paths, id_to_key'[p] # Absent
      PROVE  discovered'[id_to_key'[p]] # Absent /\ discovered'[id_to_key'[p]].device_id = p
  <2>1. id_to_key'[p] = id_to_key[p] /\ id_to_key[p] \in Keys
        /\ ~(discovered[k] # Absent /\ discovered[k].device_id = p)
    BY <1>5 DEF CacheRemove, CacheInv, CacheType
  <2>2. discovered[id_to_key[p]] # Absent /\ discovered[id_to_key[p]].device_id = p
    BY <1>5, <2>1 DEF CacheInv, IndexesAgree
  <2> QED BY <1>1, <2>1, <2>2
<1>6. ASSUME NEW l \in Keys, discovered'[l] # Absent
      PROVE  id_to_key'[discovered'[l].device_id] = l
  <2>1. l # k /\ discovered'[l] = discovered[l] /\ discovered[l] # Absent
    BY <1>1, <1>6
  <2>2. discovered[l] \in Infos /\ discovered[l].device_id \in Paths
    BY <2>1, KeyType DEF CacheInv, CacheType, Tables
  <2>3. ~(discovered[k] # Absent /\ discovered[k].device_id = discovered[l].device_id)
    BY <2>1 DEF CacheInv, Tidy
  <2>4. id_to_key[discovered[l].device_id] = l
    BY <2>1 DEF CacheInv, IndexesAgree
  <2> QED BY <2>1, <2>2, <2>3, <2>4 DEF CacheRemove
<1>7. ASSUME NEW b \in Addresses
      PROVE  /\ discovered'[b] # Absent => address_to_id'[b] = discovered'[b].device_id
             /\ discovered'[b] = Absent /\ address_to_id'[b] # Absent
                  => address_to_id'[b] \in readdressed /\ b \in MacsOf(address_to_id'[b])
  <2>0. b \in Keys
    BY DEF Keys
  <2>1. /\ discovered[b] # Absent => address_to_id[b] = discovered[b].device_id
        /\ discovered[b] = Absent /\ address_to_id[b] # Absent
             => address_to_id[b] \in readdressed /\ b \in MacsOf(address_to_id[b])
    BY DEF CacheInv, IndexesAgree
  <2>2. CASE b = a
    BY <1>1, <2>0, <2>2 DEF CacheRemove
  <2>3. CASE b # a
    BY <1>1, <2>0, <2>1, <2>3 DEF CacheRemove
  <2> QED BY <2>2, <2>3
<1>8. IndexesAgree'
  BY <1>5, <1>6, <1>7 DEF IndexesAgree
<1> QED BY <1>2, <1>3, <1>4, <1>8, <1>9 DEF CacheInv

\* A lookup by path finds the device's record if there is one.
LEMMA FindByIdFinds ==
  ASSUME CacheInv, NEW p \in Paths
  PROVE  /\ FindById(p) \in Keys \cup {Absent}
         /\ FindById(p) # Absent => /\ discovered[FindById(p)] \in Infos
                                    /\ discovered[FindById(p)].device_id = p
                                    /\ Key(discovered[FindById(p)]) = FindById(p)
         /\ FindById(p) = Absent => \A k \in Keys : discovered[k] # Absent => discovered[k].device_id # p
<1>1. CASE id_to_key[p] # Absent /\ discovered[id_to_key[p]] # Absent
  <2>1. FindById(p) = id_to_key[p] /\ id_to_key[p] \in Keys
    BY <1>1 DEF FindById, CacheInv, CacheType
  <2>2. discovered[id_to_key[p]].device_id = p
    BY <1>1 DEF CacheInv, IndexesAgree
  <2> QED BY <1>1, <2>1, <2>2 DEF CacheInv, CacheType, Tables, Tidy
<1>2. CASE ~(id_to_key[p] # Absent /\ discovered[id_to_key[p]] # Absent)
  <2>1. CASE \E k \in Keys : discovered[k] # Absent /\ discovered[k].device_id = p
    <3>1. FindById(p) \in Keys /\ discovered[FindById(p)] # Absent
          /\ discovered[FindById(p)].device_id = p
      BY <1>2, <2>1 DEF FindById
    <3>2. Absent \notin Keys
      BY DevicesAssumption DEF DevicesAssumption
    <3> QED BY <3>1, <3>2 DEF CacheInv, CacheType, Tables, Tidy
  <2>2. CASE ~\E k \in Keys : discovered[k] # Absent /\ discovered[k].device_id = p
    BY <1>2, <2>2 DEF FindById
  <2> QED BY <2>1, <2>2
<1> QED BY <1>1, <1>2

\* The record under a MAC is the one of the device that has it.
LEMMA AtAddress ==
  ASSUME CacheInv, NEW p \in Paths, NEW a \in MacsOf(p), discovered[a] # Absent
  PROVE  discovered[a].device_id = p /\ Key(discovered[a]) = a
<1>1. a \in Keys /\ a \in Addresses /\ a \notin Paths
  BY MacFacts
<1>2. discovered[a] \in Infos /\ Key(discovered[a]) = a
  BY <1>1 DEF CacheInv, CacheType, Tables, Tidy
<1> QED BY <1>1, <1>2, KeyType, MacFacts

-----------------------------------------------------------------------------
(* bluetoothd, the queue and the worker                                    *)

MacType == /\ mac \in [Paths -> Addresses] /\ readdressed \in SUBSET Paths
           /\ \A p \in Paths : /\ mac[p] \in MacsOf(p)
                               /\ p \notin readdressed => mac[p] = AddressOf[p]

BluezType == /\ objects \in [Paths -> Properties \cup {Absent}]
             /\ MacType
             /\ signals \in Seq(PlainSignals(readdressed))

\* Events as the worker emits them: no snapshot has a device twice.
GoodEvents == {e \in Events : e.type = "PAIRED_DEVICES_UPDATED" => Distinct(e.devices)}

\* And the records they bring speak of no second MAC but of devices in R.
PlainEvents(R) ==
    {e \in GoodEvents : /\ e.type = "DEVICE_FOUND" => e.device \in Plain(R)
                        /\ e.type = "PAIRED_DEVICES_UPDATED" => e.devices \subseteq Plain(R)}

QueueInv == event_queue \in Seq(PlainEvents(readdressed))

\* The commands that take an address are the ones that tell of a connection.
JobInv == /\ job \in {Idle} \cup [at : Steps \ {"idle"}, path : Paths, told : Keys]
          /\ job.at \in {"connect", "disconnect", "unpair_read", "unpair_remove"}
               => job.told \in Addresses

SessionType == /\ session \in {"up", "down"}
               /\ refreshed \in BOOLEAN /\ sessions \in 0..MaxSessions /\ nameless \in BOOLEAN

\* Emitting keeps the queue one of such events.
LEMMA EmitKeeps ==
  ASSUME QueueInv, NEW s \in Seq(PlainEvents(readdressed)), Emit(s), UNCHANGED readdressed
  PROVE  QueueInv'
BY DEF QueueInv, Emit

\* None, one and more make emissions.
LEMMA Emissions ==
  ASSUME NEW R
  PROVE  /\ <<>> \in Seq(PlainEvents(R))
         /\ \A e \in PlainEvents(R) : <<e>> \in Seq(PlainEvents(R))
         /\ \A s, t \in Seq(PlainEvents(R)) : s \o t \in Seq(PlainEvents(R))
OBVIOUS

\* The events about one device are such events.
LEMMA DeviceEvents ==
  ASSUME NEW R
  PROVE  /\ \A k \in Keys : Removed(k) \in PlainEvents(R) /\ PairingSucceeded(k) \in PlainEvents(R)
         /\ \A a \in Addresses, b \in BOOLEAN : Connection(a, b) \in PlainEvents(R)
BY DEF Removed, PairingSucceeded, Connection, PlainEvents, GoodEvents, Events

\* So is the one of an upsert.
LEMMA FoundAfterType ==
  ASSUME CacheInv, NEW i \in Plain(readdressed)
  PROVE  FoundAfter(i) \in PlainEvents(readdressed)
<1>1. i \in Infos /\ Key(i) \in Keys /\ {i} \in SUBSET Plain(readdressed)
  BY KeyType DEF Plain
<1>2. Upserted(discovered, {i}) \in PlainTables(readdressed)
  BY <1>1, UpsertedPlain DEF CacheInv, CacheType
<1>3. Upserted(discovered, {i})[Key(i)] # Absent
  BY <1>1, UpsertedRecord, KeyType DEF CacheInv, CacheType
<1> DEFINE new == Upserted(discovered, {i})[Key(i)]
<1>4. new \in Plain(readdressed) /\ new \in Infos
  BY <1>1, <1>2, <1>3 DEF PlainTables, Plain
<1>5. FoundAfter(i) = [type |-> "DEVICE_FOUND", device |-> new]
  BY DEF FoundAfter, Found
<1> HIDE DEF new
<1> QED BY <1>4, <1>5 DEF PlainEvents, GoodEvents, Events

\* What bluetoothd says of a device is a record with its MAC.
LEMMA FromBluezType ==
  ASSUME BluezType, NEW p \in Paths, objects[p] # Absent
  PROVE  /\ FromBluez(p) \in Plain(readdressed) /\ FromBluez(p).device_id = p
         /\ FromBluez(p).address \in Addresses /\ FromBluez(p).address = mac[p]
<1>1. mac[p] \in MacsOf(p) /\ mac[p] \in Addresses /\ mac[p] \in Keys
  BY MacFacts DEF BluezType, MacType
<1>2. FromBluez(p) \in Infos
  BY <1>1 DEF BluezType, FromBluez, Infos, Properties
<1> QED BY <1>1, <1>2 DEF FromBluez, Plain, BluezType, MacType

\* Signals that are sent are signals.
LEMMA SentKeeps ==
  ASSUME BluezType, NEW s \in Seq(PlainSignals(readdressed)), Sent(s), UNCHANGED readdressed
  PROVE  signals' \in Seq(PlainSignals(readdressed'))
BY DEF BluezType, Sent

\* A signal that names no MAC, and one of a new device, speak of no second one.
LEMMA SignalType ==
  ASSUME NEW R, NEW p \in Paths
  PROVE  /\ \A c \in Changes : /\ Signal("changed", p, Absent, c) \in PlainSignals(R)
                                /\ Signal("removed", p, Absent, c) \in PlainSignals(R)
         /\ \A c \in Properties : Signal("added", p, AddressOf[p], c) \in PlainSignals(R)
<1>1. AddressOf[p] \in MacsOf(p) /\ AddressOf[p] \in Addresses
  BY MacFacts
<1> QED BY <1>1 DEF Signal, PlainSignals, Signals

\* What a change is made of.
LEMMA ChangeTypes ==
  /\ Properties \subseteq Changes
  /\ Nothing \in Changes
  /\ [paired |-> FALSE, connected |-> FALSE] \in Changes
  /\ \A x \in {"paired", "connected"}, b \in BOOLEAN : [y \in {x} |-> b] \in Changes
<1>1. Properties \subseteq Changes
  <2>1. Properties \subseteq [{"paired", "connected"} -> BOOLEAN]
    BY DEF Properties
  <2>2. {"paired", "connected"} \in SUBSET {"paired", "connected"}
    OBVIOUS
  <2> QED BY <2>1, <2>2, Zenon DEF Changes
<1>2. Nothing \in Changes
  <2>1. Nothing \in [{} -> BOOLEAN]
    BY DEF Nothing
  <2> QED BY <2>1, Zenon DEF Changes
<1>3. [paired |-> FALSE, connected |-> FALSE] \in Properties
  BY DEF Properties
<1>4. ASSUME NEW x \in {"paired", "connected"}, NEW b \in BOOLEAN
      PROVE  [y \in {x} |-> b] \in Changes
  <2>1. [y \in {x} |-> b] \in [{x} -> BOOLEAN] /\ {x} \in SUBSET {"paired", "connected"}
    OBVIOUS
  <2> QED BY <2>1, Zenon DEF Changes
<1> QED BY <1>1, <1>2, <1>3, <1>4

\* A request that sets a property makes one signal at most.
LEMMA BluezSetsKeeps ==
  ASSUME BluezType, NEW p \in Paths, objects[p] # Absent, NEW x \in {"paired", "connected"},
         NEW b \in BOOLEAN, BluezSets(p, x, b)
  PROVE  BluezType'
<1>1. objects' \in [Paths -> Properties \cup {Absent}]
  <2>1. objects[p] \in Properties
    BY DEF BluezType
  <2>2. [objects[p] EXCEPT ![x] = b] \in Properties
    BY <2>1 DEF Properties
  <2>3. objects' = [objects EXCEPT ![p] = [objects[p] EXCEPT ![x] = b]]
    BY DEF BluezSets, BluezType
  <2> QED BY <2>2, <2>3 DEF BluezType
<1>2. UNCHANGED <<mac, readdressed>>
  BY DEF BluezSets
<1>3. signals' \in Seq(PlainSignals(readdressed'))
  <2> DEFINE s == Signal("changed", p, Absent, [y \in {x} |-> b])
  <2>0. s \in PlainSignals(readdressed)
    BY SignalType, ChangeTypes
  <2>1. <<s>> \in Seq(PlainSignals(readdressed))
    BY <2>0
  <2>2. UNCHANGED signals \/ Sent(<<s>>)
    BY DEF BluezSets
  <2> HIDE DEF s
  <2> QED BY <1>2, <2>1, <2>2, SentKeeps DEF BluezType
<1> QED BY <1>1, <1>2, <1>3 DEF BluezType, MacType

\* What a change makes of a record is a record of the same device.
LEMMA WithType ==
  ASSUME NEW i \in Infos, NEW c \in Changes
  PROVE  /\ With(c, i) \in Infos
         /\ With(c, i).device_id = i.device_id /\ With(c, i).address = i.address
         /\ With(c, i).connected \in BOOLEAN
<1>1. PICK S \in SUBSET {"paired", "connected"} : c \in [S -> BOOLEAN]
  BY Zenon DEF Changes
<1>2. /\ With(c, i).device_id = i.device_id /\ With(c, i).address = i.address
      /\ With(c, i).paired \in BOOLEAN /\ With(c, i).connected \in BOOLEAN
  BY <1>1 DEF With, Infos
<1>3. With(c, i) = [address |-> With(c, i).address, device_id |-> With(c, i).device_id,
                    paired |-> With(c, i).paired, connected |-> With(c, i).connected]
  BY DEF With, Infos
<1> QED BY <1>2, <1>3 DEF Infos

\* The record that a change is applied to is one that fits.
LEMMA UpdatedFits ==
  ASSUME CacheInv, NEW s \in PlainSignals(readdressed)
  PROVE  /\ Updated(s) \in Plain(readdressed) /\ Updated(s).connected \in BOOLEAN
         /\ Fitting({Updated(s)})
         /\ Updated(s).device_id = s.path
<1> DEFINE k == FindById(s.path)
           old == IF k # Absent THEN discovered[k]
                  ELSE [address |-> s.path, device_id |-> s.path,
                        paired |-> FALSE, connected |-> FALSE]
           named == IF s.address # Absent THEN s.address ELSE old.address
<1>1. /\ s.path \in Paths /\ s.changed \in Changes
      /\ s.address \in MacsOf(s.path) \cup {Absent}
      /\ s.path \in readdressed \/ s.address \in {AddressOf[s.path], Absent}
  BY ChangeTypes DEF PlainSignals, Signals
<1>2. old \in Plain(readdressed) /\ old \in Infos /\ old.device_id = s.path
  <2>1. CASE k # Absent
    <3>1. k \in Keys /\ discovered[k] \in Infos /\ discovered[k].device_id = s.path
      BY <1>1, <2>1, FindByIdFinds
    <3>2. discovered[k] # Absent
      BY <3>1, KeyType
    <3> QED BY <2>1, <3>1, <3>2 DEF CacheInv, PlainTables
  <2>2. CASE k = Absent
    BY <1>1, <2>2 DEF Plain, Infos, Keys
  <2> QED BY <2>1, <2>2
<1>3. Updated(s) = With(s.changed, [old EXCEPT !.address = named])
  <2>1. [old EXCEPT !.device_id = s.path, !.address = IF s.address # Absent THEN s.address ELSE @]
          = [old EXCEPT !.address = named]
    BY <1>2 DEF Infos
  <2> QED BY <2>1 DEF Updated
<1>4. /\ k # Absent => old = discovered[k]
      /\ named = IF s.address # Absent THEN s.address ELSE old.address
  OBVIOUS
<1> HIDE DEF old, named
<1>7. /\ [old EXCEPT !.address = named] \in Infos
      /\ [old EXCEPT !.address = named].device_id = s.path
      /\ [old EXCEPT !.address = named].address = named
      /\ s.path \in readdressed \/ named \in {s.path, AddressOf[s.path]}
  <2>1. named \in Keys /\ named \in {s.path} \cup MacsOf(s.path)
    BY <1>1, <1>2, <1>4, MacFacts DEF Infos
  <2> QED BY <1>1, <1>2, <1>4, <2>1 DEF Infos, Plain
<1>5. /\ Updated(s) \in Infos /\ Updated(s).connected \in BOOLEAN
      /\ Updated(s).device_id = s.path /\ Updated(s).address = named
  BY <1>1, <1>3, <1>7, WithType
<1>8. Updated(s) \in Plain(readdressed)
  BY <1>5, <1>7 DEF Plain
<1>6. ASSUME Updated(s).address \notin Addresses, NEW a \in MacsOf(s.path), discovered[a] # Absent
      PROVE  FALSE
  <2>1. a \in Keys /\ a \in Addresses
    BY <1>1, MacFacts
  <2>2. discovered[a].device_id = s.path
    BY <1>1, <1>6, AtAddress
  <2>3. k \in Keys /\ k # Absent
    BY <1>1, <1>6, <2>1, <2>2, FindByIdFinds
  <2>4. Key(old) = k /\ discovered[k] # Absent /\ discovered[k].device_id = s.path
    BY <1>1, <1>4, <2>3, FindByIdFinds, KeyType
  <2>5. k = a
    BY <1>6, <2>1, <2>2, <2>3, <2>4 DEF CacheInv, Tidy
  <2>6. s.address = Absent /\ named = old.address
    BY <1>1, <1>4, <1>5, <1>6, MacFacts
  <2>7. Key(old) = s.path
    BY <1>2, <1>5, <1>6, <2>6, KeyType
  <2> QED BY <1>1, <2>1, <2>4, <2>5, <2>7, MacFacts
<1> QED BY <1>5, <1>6, <1>8 DEF Fitting

\* One record is no two.
LEMMA OneIsDistinct == \A i : Distinct({i})
BY DEF Distinct

\* A record with a MAC always fits.
LEMMA UpsertOneKeeps ==
  ASSUME CacheInv, NEW i \in Plain(readdressed), Fitting({i}) \/ i.address \in Addresses,
         CacheUpsert({i}), UNCHANGED readdressed
  PROVE  CacheInv'
<1>1. Fitting({i}) /\ {i} \in SUBSET Plain(readdressed)
  BY DEF Fitting
<1> QED BY <1>1, OneIsDistinct, CacheUpsertKeeps

\* Upserting nothing keeps the cache as well.
LEMMA UpsertNoneKeeps ==
  ASSUME CacheInv, CacheUpsert({}), UNCHANGED readdressed
  PROVE  CacheInv'
BY CacheUpsertKeeps DEF Distinct, Fitting

\* What speaks of no second MAC but of some devices does so of more of them.
LEMMA PlainWidens ==
  ASSUME NEW R, NEW S, R \subseteq S
  PROVE  /\ Plain(R) \subseteq Plain(S) /\ PlainTables(R) \subseteq PlainTables(S)
         /\ PlainSignals(R) \subseteq PlainSignals(S) /\ PlainEvents(R) \subseteq PlainEvents(S)
         /\ Seq(PlainSignals(R)) \subseteq Seq(PlainSignals(S))
         /\ Seq(PlainEvents(R)) \subseteq Seq(PlainEvents(S))
<1>1. Plain(R) \subseteq Plain(S)
  BY DEF Plain
<1>2. PlainTables(R) \subseteq PlainTables(S)
  BY <1>1 DEF PlainTables
<1>3. PlainSignals(R) \subseteq PlainSignals(S)
  BY DEF PlainSignals
<1>4. PlainEvents(R) \subseteq PlainEvents(S)
  BY <1>1 DEF PlainEvents
<1> QED BY <1>1, <1>2, <1>3, <1>4

\* Nothing to do with the cache keeps it.
LEMMA CacheStays ==
  ASSUME CacheInv, UNCHANGED cacheVars, readdressed \subseteq readdressed'
  PROVE  CacheInv'
<1>1. PlainTables(readdressed) \subseteq PlainTables(readdressed')
  BY PlainWidens
<1>2. IndexesAgree'
  BY DEF cacheVars, CacheInv, IndexesAgree
<1> QED BY <1>1, <1>2 DEF cacheVars, CacheInv, CacheType, Tables, Tidy, Mirrors

\* A command begins with the path of a device, and what it learns of it fits.
LEMMA BeginKeeps ==
  ASSUME BluezType, CacheInv, NEW a \in Addresses, Begin(a), UNCHANGED readdressed
  PROVE  /\ CacheInv' /\ Resolved(a) \in Paths /\ a \in Keys
         /\ UNCHANGED <<nodeVars, sessionVars, nameless>>
<1>1. CachedPath(a) \in Paths \cup {Absent}
  <2>1. a \in Keys
    BY DEF Keys
  <2>2. discovered[a] # Absent => discovered[a].device_id \in Paths
    BY <2>1, KeyType DEF CacheInv, CacheType, Tables
  <2> QED BY <2>2 DEF CachedPath, CacheInv, CacheType
<1>2. CachedPath(a) = Absent => Resolved(a) \in Paths /\ objects[Resolved(a)] # Absent
  <2>1. ASSUME CachedPath(a) = Absent
        PROVE  \E p \in Paths : Knows(a, p)
    BY <2>1 DEF Resolved, Begin
  <2>2. ASSUME CachedPath(a) = Absent
        PROVE  Resolved(a) \in Paths /\ Knows(a, Resolved(a))
    BY <2>1, <2>2 DEF Resolved
  <2> QED BY <2>2 DEF Knows
<1>3. Resolved(a) \in Paths
  BY <1>1, <1>2 DEF Resolved
<1>4. CacheInv'
  <2>1. CASE CachedPath(a) # Absent
    BY <2>1, UpsertNoneKeeps DEF Begin, Learned
  <2>2. CASE CachedPath(a) = Absent
    <3>1. CacheUpsert({FromBluez(Resolved(a))})
      BY <2>2 DEF Begin, Learned
    <3> QED BY <2>2, <1>2, <3>1, FromBluezType, UpsertOneKeeps
  <2> QED BY <2>1, <2>2
<1> QED BY <1>3, <1>4 DEF Begin, Keys

\* What is read back fits, whatever the command tells after it.
LEMMA ReadBackKeeps ==
  ASSUME BluezType, CacheInv, QueueInv, job.path \in Paths,
         NEW s \in Seq(PlainEvents(readdressed)), ReadBack(s), UNCHANGED readdressed
  PROVE  CacheInv' /\ QueueInv'
<1>1. CASE /\ objects[job.path] # Absent
           /\ CacheUpsert({FromBluez(job.path)})
           /\ Emit(<<FoundAfter(FromBluez(job.path))>> \o s)
  <2>1. FromBluez(job.path) \in Plain(readdressed) /\ FromBluez(job.path).address \in Addresses
    BY <1>1, FromBluezType
  <2>2. CacheInv'
    BY <1>1, <2>1, UpsertOneKeeps
  <2>3. <<FoundAfter(FromBluez(job.path))>> \in Seq(PlainEvents(readdressed))
    BY <2>1, FoundAfterType, Emissions
  <2>4. <<FoundAfter(FromBluez(job.path))>> \o s \in Seq(PlainEvents(readdressed))
    BY <2>3, Emissions
  <2> QED BY <1>1, <2>2, <2>4, EmitKeeps
<1>2. CASE UNCHANGED cacheVars /\ Emit(s)
  BY <1>2, CacheStays, EmitKeeps
<1> QED BY <1>1, <1>2 DEF ReadBack

-----------------------------------------------------------------------------
(* The node                                                                *)

NodeInv == /\ devices \in Tables /\ paired_devices \in Tables
           /\ devices \in PlainTables(readdressed)
           /\ Tidy(devices)
           /\ Mirrors(paired_devices, devices)

\* Upserts of different devices keep the node's lists.
LEMMA NodeUpsertKeeps ==
  ASSUME NodeInv, NEW infos \in SUBSET Plain(readdressed), Distinct(infos), NodeUpsert(infos),
         UNCHANGED readdressed
  PROVE  NodeInv'
<1>0. infos \in SUBSET Infos
  BY DEF Plain
<1>1. /\ devices' = Upserted(devices, infos)
      /\ paired_devices' = UpsertedPaired(paired_devices, devices, infos)
  BY DEF NodeUpsert
<1>2. /\ devices' \in Tables /\ Tidy(devices') /\ paired_devices' \in Tables
      /\ Mirrors(paired_devices', devices')
  BY <1>0, <1>1, UpsertedType, UpsertedTidy, UpsertedMirrors DEF NodeInv
<1>3. devices' \in PlainTables(readdressed')
  BY <1>1, UpsertedPlain DEF NodeInv
<1> QED BY <1>2, <1>3 DEF NodeInv, Tables, Tidy, Mirrors

\* So does a removal, of whatever records the address matches.
LEMMA NodeRemoveKeeps ==
  ASSUME NodeInv, NEW a, NodeRemove(a), UNCHANGED readdressed
  PROVE  NodeInv'
<1> DEFINE gone == {k \in Keys : devices[k] # Absent /\ a \in {k, devices[k].address}}
<1>1. /\ devices' = [k \in Keys |-> IF k \in gone THEN Absent ELSE devices[k]]
      /\ paired_devices' = [k \in Keys |-> IF k \in gone THEN Absent ELSE paired_devices[k]]
  BY DEF NodeRemove
<1> HIDE DEF gone
<1>2. devices' \in Tables /\ paired_devices' \in Tables
  BY <1>1 DEF NodeInv, Tables
<1>3. Tidy(devices)'
  BY <1>1 DEF NodeInv, Tidy
<1>4. Mirrors(paired_devices, devices)'
  BY <1>1 DEF NodeInv, Mirrors
<1>5. devices' \in PlainTables(readdressed')
  BY <1>1 DEF NodeInv, PlainTables
<1> QED BY <1>2, <1>3, <1>4, <1>5 DEF NodeInv, Tables

\* And so does a change of a flag, which moves no record.
LEMMA NodeSetKeeps ==
  ASSUME NodeInv, NEW a, NEW x \in {"paired", "connected"}, NEW b \in BOOLEAN, NodeSet(a, x, b),
         UNCHANGED readdressed
  PROVE  NodeInv'
<1>1. \A k \in Keys : devices'[k] = IF MatchesRecord(k, a) THEN [devices[k] EXCEPT ![x] = b]
                                    ELSE devices[k]
  BY DEF NodeSet
<1>2. \A k \in Keys : paired_devices'[k] =
        IF ~MatchesRecord(k, a) THEN paired_devices[k]
        ELSE IF devices'[k].paired THEN devices'[k] ELSE Absent
  BY DEF NodeSet
<1>3. ASSUME NEW k \in Keys
      PROVE  \/ devices'[k] = Absent /\ devices[k] = Absent /\ ~MatchesRecord(k, a)
             \/ /\ devices[k] \in Infos /\ devices'[k] \in Infos
                /\ devices'[k].device_id = devices[k].device_id
                /\ devices'[k].address = devices[k].address
  <2>1. devices[k] \in Infos \cup {Absent}
    BY DEF NodeInv, Tables
  <2>2. CASE MatchesRecord(k, a)
    <3>1. devices[k] \in Infos /\ devices'[k] = [devices[k] EXCEPT ![x] = b]
      BY <1>1, <2>1, <2>2 DEF MatchesRecord
    <3> QED BY <3>1, FlagType
  <2>3. CASE ~MatchesRecord(k, a)
    BY <1>1, <2>1, <2>3
  <2> QED BY <2>2, <2>3
<1>4. devices' \in Tables
  <2>1. devices' = [k \in Keys |-> devices'[k]]
    BY DEF NodeSet
  <2> QED BY <1>3, <2>1 DEF Tables
<1>5. ASSUME NEW k \in Keys
      PROVE  /\ paired_devices'[k] = IF devices'[k] # Absent /\ devices'[k].paired
                                     THEN devices'[k] ELSE Absent
             /\ paired_devices'[k] \in Infos \cup {Absent}
  <2>1. CASE MatchesRecord(k, a)
    BY <1>2, <1>3, <2>1, KeyType
  <2>2. CASE ~MatchesRecord(k, a)
    BY <1>1, <1>2, <2>2 DEF NodeInv, Mirrors, Tables
  <2> QED BY <2>1, <2>2
<1>6. paired_devices' \in Tables
  <2>1. paired_devices' = [k \in Keys |-> paired_devices'[k]]
    BY DEF NodeSet
  <2> QED BY <1>5, <2>1 DEF Tables
<1>7. Tidy(devices)'
  <2>1. ASSUME NEW k \in Keys, devices'[k] # Absent
        PROVE  k = Key(devices'[k])
    <3>1. Key(devices'[k]) = Key(devices[k])
      BY <1>3, <2>1, KeyType DEF Key
    <3> QED BY <1>3, <2>1, <3>1, KeyType DEF NodeInv, Tidy
  <2>2. ASSUME NEW k \in Keys, NEW l \in Keys, devices'[k] # Absent, devices'[l] # Absent,
               devices'[l].device_id = devices'[k].device_id
        PROVE  l = k
    BY <1>3, <2>2, KeyType DEF NodeInv, Tidy
  <2> QED BY <2>1, <2>2 DEF Tidy
<1>8. Mirrors(paired_devices, devices)'
  BY <1>5 DEF Mirrors
<1>9. devices' \in PlainTables(readdressed')
  <2>1. \A k \in Keys : devices'[k] \in Plain(readdressed) \cup {Absent}
    BY <1>3, KeyType DEF NodeInv, PlainTables, Plain
  <2>2. devices' = [k \in Keys |-> devices'[k]]
    BY DEF NodeSet
  <2> QED BY <2>1, <2>2 DEF PlainTables
<1> QED BY <1>4, <1>6, <1>7, <1>8, <1>9 DEF NodeInv, Tables

\* Nothing to do with the node keeps its lists.
LEMMA NodeStays ==
  ASSUME NodeInv, UNCHANGED nodeVars, readdressed \subseteq readdressed'
  PROVE  NodeInv'
BY PlainWidens DEF nodeVars, NodeInv, Tables, Tidy, Mirrors

\* Whatever event is handled, the lists are kept.
LEMMA HandleEventKeeps ==
  ASSUME QueueInv, NodeInv, HandleEvent
  PROVE  QueueInv' /\ NodeInv'
<1> DEFINE e == Head(event_queue)
<1>1. /\ e \in PlainEvents(readdressed) /\ event_queue' \in Seq(PlainEvents(readdressed))
      /\ UNCHANGED readdressed
  BY DEF QueueInv, HandleEvent, bluezVars
<1>2. \/ e.type = "DEVICE_FOUND" /\ NodeUpsert({e.device})
      \/ e.type = "DEVICE_REMOVED" /\ NodeRemove(e.address)
      \/ e.type = "PAIRED_DEVICES_UPDATED" /\ NodeUpsert(e.devices)
      \/ e.type = "CONNECTION_CHANGED" /\ NodeSet(e.address, "connected", e.connected)
      \/ e.type = "PAIRING_SUCCEEDED" /\ NodeSet(e.address, "paired", TRUE)
  BY DEF HandleEvent, NodeTakes
<1> HIDE DEF e
<1>3. CASE e.type = "DEVICE_FOUND" /\ NodeUpsert({e.device})
  <2>1. {e.device} \in SUBSET Plain(readdressed)
    BY <1>1, <1>3 DEF PlainEvents
  <2> QED BY <1>1, <1>3, <2>1, OneIsDistinct, NodeUpsertKeeps DEF QueueInv
<1>4. CASE e.type = "DEVICE_REMOVED" /\ NodeRemove(e.address)
  BY <1>1, <1>4, NodeRemoveKeeps DEF QueueInv
<1>5. CASE e.type = "PAIRED_DEVICES_UPDATED" /\ NodeUpsert(e.devices)
  <2>1. e.devices \in SUBSET Plain(readdressed) /\ Distinct(e.devices)
    BY <1>1, <1>5 DEF PlainEvents, GoodEvents
  <2> QED BY <1>1, <1>5, <2>1, NodeUpsertKeeps DEF QueueInv
<1>6. CASE e.type = "CONNECTION_CHANGED" /\ NodeSet(e.address, "connected", e.connected)
  <2>1. e.connected \in BOOLEAN
    BY <1>1, <1>6 DEF PlainEvents, GoodEvents, Events
  <2> QED BY <1>1, <1>6, <2>1, NodeSetKeeps DEF QueueInv
<1>7. CASE e.type = "PAIRING_SUCCEEDED" /\ NodeSet(e.address, "paired", TRUE)
  BY <1>1, <1>7, NodeSetKeeps DEF QueueInv
<1> QED BY <1>2, <1>3, <1>4, <1>5, <1>6, <1>7

-----------------------------------------------------------------------------
(* The inductive invariant                                                 *)

IInv == BluezType /\ CacheInv /\ JobInv /\ QueueInv /\ NodeInv /\ SessionType

\* What a step leaves alone stays as it is.
LEMMA PartsStay ==
  ASSUME IInv
  PROVE  /\ UNCHANGED <<bluezVars, signals>> => BluezType'
         /\ UNCHANGED job => JobInv'
         /\ UNCHANGED event_queue /\ readdressed \subseteq readdressed' => QueueInv'
         /\ UNCHANGED <<sessionVars, nameless>> => SessionType'
<1>1. UNCHANGED <<bluezVars, signals>> => BluezType'
  BY DEF IInv, BluezType, MacType, bluezVars
<1>2. UNCHANGED event_queue /\ readdressed \subseteq readdressed' => QueueInv'
  BY PlainWidens DEF IInv, QueueInv
<1> QED BY <1>1, <1>2 DEF IInv, JobInv, SessionType, sessionVars

\* A job that is begun is a proper one.
LEMMA GoKeeps ==
  ASSUME NEW step \in Steps \ {"idle"}, NEW p \in Paths, NEW told \in Keys,
         step \in {"pair", "refresh"} \/ told \in Addresses, Go(step, p, told)
  PROVE  JobInv'
BY DEF Go, JobInv, Steps

\* A worker that is not idle has the path and the address of its command.
LEMMA JobFacts ==
  ASSUME JobInv
  PROVE  /\ job.at # "idle" => job.path \in Paths /\ job.told \in Keys
         /\ Idle.at = "idle"
BY DEF JobInv, Idle

\* An idle worker is no half-way command.
LEMMA IdleKeeps == job' = Idle => JobInv'
BY DEF JobInv, Idle

\* A device without MAC again: it has the one its path is made of.
LEMMA VanishesKeeps ==
  ASSUME BluezType, NEW p \in Paths, Vanishes(p)
  PROVE  objects' \in [Paths -> Properties \cup {Absent}] /\ MacType' /\ UNCHANGED readdressed
<1>1. objects' \in [Paths -> Properties \cup {Absent}] /\ UNCHANGED readdressed
  BY DEF Vanishes, BluezType
<1>2. mac' = [mac EXCEPT ![p] = AddressOf[p]]
  BY DEF Vanishes
<1>3. AddressOf[p] \in MacsOf(p) /\ AddressOf[p] \in Addresses
  BY MacFacts
<1> QED BY <1>1, <1>2, <1>3 DEF BluezType, MacType

\* What a change makes of a device is a device.
LEMMA WithProperties ==
  ASSUME NEW changed \in Changes, NEW old \in Properties
  PROVE  With(changed, old) \in Properties
<1>1. PICK S \in SUBSET {"paired", "connected"} : changed \in [S -> BOOLEAN]
  BY Zenon DEF Changes
<1>2. With(changed, old).paired \in BOOLEAN /\ With(changed, old).connected \in BOOLEAN
  BY <1>1 DEF With, Properties
<1>3. With(changed, old) = [paired |-> With(changed, old).paired,
                            connected |-> With(changed, old).connected]
  BY DEF With, Properties
<1> QED BY <1>2, <1>3 DEF Properties

\* bluetoothd disturbs nothing but its devices and signals.
LEMMA BluezKeeps ==
  ASSUME IInv, Bluez
  PROVE  IInv'
<1>1. PICK p \in Paths : \/ \E props \in Properties : BluezAdds(p, props)
                         \/ \E changed \in Changes : BluezChanges(p, changed)
                                                     \/ BluezResolves(p, changed)
                         \/ BluezRemoves(p)
  BY DEF Bluez
<1>2. BluezActs
  BY <1>1 DEF BluezAdds, BluezChanges, BluezResolves, BluezRemoves
<1>3. ASSUME NEW props \in Properties, BluezAdds(p, props)
      PROVE  BluezType' /\ UNCHANGED readdressed
  <2>1. objects' \in [Paths -> Properties \cup {Absent}] /\ UNCHANGED <<mac, readdressed>>
    BY <1>3 DEF BluezAdds, IInv, BluezType
  <2>2. <<Signal("added", p, AddressOf[p], props)>> \in Seq(PlainSignals(readdressed))
    BY SignalType
  <2>3. signals' \in Seq(PlainSignals(readdressed'))
    BY <1>3, <2>1, <2>2, SentKeeps DEF BluezAdds, IInv
  <2> QED BY <2>1, <2>3 DEF BluezType, MacType, IInv
<1>4. ASSUME NEW changed \in Changes, BluezChanges(p, changed)
      PROVE  BluezType' /\ UNCHANGED readdressed
  <2>1. With(changed, objects[p]) \in Properties
    BY <1>4, WithProperties DEF BluezChanges, IInv, BluezType
  <2>2. objects' \in [Paths -> Properties \cup {Absent}] /\ UNCHANGED <<mac, readdressed>>
    BY <1>4, <2>1 DEF BluezChanges, IInv, BluezType
  <2>3. <<Signal("changed", p, Absent, changed)>> \in Seq(PlainSignals(readdressed))
    BY SignalType
  <2>4. signals' \in Seq(PlainSignals(readdressed'))
    BY <1>4, <2>2, <2>3, SentKeeps DEF BluezChanges, IInv
  <2> QED BY <2>2, <2>4 DEF BluezType, MacType, IInv
<1>5. ASSUME NEW changed \in Changes, BluezResolves(p, changed)
      PROVE  BluezType' /\ readdressed \subseteq readdressed'
  <2>1. With(changed, objects[p]) \in Properties
    BY <1>5, WithProperties DEF BluezResolves, IInv, BluezType
  <2>2. /\ objects' \in [Paths -> Properties \cup {Absent}]
        /\ mac' = [mac EXCEPT ![p] = IdentityOf[p]] /\ readdressed' = readdressed \cup {p}
        /\ Sent(<<Signal("changed", p, IdentityOf[p], changed)>>)
    BY <1>5, <2>1 DEF BluezResolves, IInv, BluezType
  <2>3. IdentityOf[p] \in MacsOf(p) /\ IdentityOf[p] \in Addresses
    BY MacFacts
  <2>4. MacType'
    BY <2>2, <2>3 DEF IInv, BluezType, MacType
  <2>5. <<Signal("changed", p, IdentityOf[p], changed)>> \in Seq(PlainSignals(readdressed'))
    <3>1. Signal("changed", p, IdentityOf[p], changed) \in PlainSignals(readdressed')
      BY <2>2, <2>3 DEF Signal, Signals, PlainSignals
    <3> QED BY <3>1
  <2>6. signals \in Seq(PlainSignals(readdressed'))
    BY <2>2, PlainWidens DEF IInv, BluezType
  <2>7. signals' \in Seq(PlainSignals(readdressed'))
    <3> DEFINE P == PlainSignals(readdressed')
               s == <<Signal("changed", p, IdentityOf[p], changed)>>
    <3>1. signals \in Seq(P) /\ s \in Seq(P) /\ Sent(s)
      BY <2>2, <2>5, <2>6
    <3> HIDE DEF P, s
    <3>2. signals' \in Seq(P)
      BY <3>1 DEF Sent
    <3> QED BY <3>2 DEF P
  <2> QED BY <2>2, <2>4, <2>7 DEF BluezType
<1>6. ASSUME BluezRemoves(p)
      PROVE  BluezType' /\ UNCHANGED readdressed
  <2>1. objects' \in [Paths -> Properties \cup {Absent}] /\ MacType' /\ UNCHANGED readdressed
    BY <1>6, VanishesKeeps DEF BluezRemoves, IInv
  <2>2. <<Signal("removed", p, Absent, Nothing)>> \in Seq(PlainSignals(readdressed))
    BY SignalType, ChangeTypes
  <2>3. signals' \in Seq(PlainSignals(readdressed'))
    BY <1>6, <2>1, <2>2, SentKeeps DEF BluezRemoves, IInv
  <2> QED BY <2>1, <2>3 DEF BluezType
<1>7. BluezType' /\ readdressed \subseteq readdressed'
  BY <1>1, <1>3, <1>4, <1>5, <1>6
<1>8. JobInv' /\ QueueInv' /\ SessionType'
  BY <1>2, <1>7, PartsStay DEF BluezActs
<1>9. CacheInv' /\ NodeInv'
  BY <1>2, <1>7, CacheStays, NodeStays DEF BluezActs, IInv
<1> QED BY <1>7, <1>8, <1>9 DEF IInv

\* Removing the record at a key, with its own address, keeps the cache.
LEMMA RemoveFoundKeeps ==
  ASSUME CacheInv, NEW p \in Paths, FindById(p) # Absent,
         CacheRemove(FindById(p), discovered[FindById(p)].address), UNCHANGED readdressed
  PROVE  CacheInv' /\ discovered[FindById(p)].address \in Keys
<1> DEFINE k == FindById(p)
           a == discovered[k].address
<1>1. k \in Keys /\ discovered[k] \in Infos /\ Key(discovered[k]) = k
  BY FindByIdFinds
<1>2. CacheRemove(k, a)
  OBVIOUS
<1> HIDE DEF k
<1>3. /\ a \in Keys
      /\ a \in Addresses => a = k
      /\ k \in Addresses => a = k
  BY <1>1, KeyType, MacFacts
<1> QED BY <1>1, <1>2, <1>3, CacheRemoveKeeps DEF k

\* A signal is dispatched to the cache and told of.
LEMMA PollKeeps ==
  ASSUME IInv, Poll
  PROVE  IInv'
<1>1. PICK type \in {"added", "changed", "removed"} : Dispatch(type)
  BY DEF Poll, HandleInterfacesAdded, HandlePropertiesChanged, HandleInterfacesRemoved
<1> DEFINE s == Head(signals)
<1>2. s \in PlainSignals(readdressed) /\ UNCHANGED readdressed /\ BluezType'
  BY <1>1 DEF Dispatch, IInv, BluezType, MacType, bluezVars
<1>3. /\ s.path \in Paths
      /\ s.type = "added" => s.changed \in Properties /\ s.address = AddressOf[s.path]
  BY <1>2 DEF PlainSignals, Signals
<1>4. JobInv' /\ NodeInv'
  BY <1>1, <1>2, PartsStay, NodeStays DEF Dispatch, IInv
<1>5. UNCHANGED sessionVars
  BY <1>1 DEF Dispatch
<1>6. CASE HandleInterfacesAdded
  <2> DEFINE info == [address |-> s.address, device_id |-> s.path,
                      paired |-> s.changed.paired, connected |-> s.changed.connected]
  <2>1. s.type = "added" /\ CacheUpsert({info}) /\ Emit(<<FoundAfter(info)>>) /\ UNCHANGED nameless
    BY <1>6 DEF HandleInterfacesAdded, Dispatch
  <2>2. info \in Plain(readdressed) /\ info.address \in Addresses
    BY <1>3, <2>1, MacFacts DEF Plain, Infos, Properties
  <2> HIDE DEF info
  <2>3. CacheInv'
    BY <1>2, <2>1, <2>2, UpsertOneKeeps DEF IInv
  <2>4. QueueInv'
    BY <1>2, <2>1, <2>2, FoundAfterType, Emissions, EmitKeeps DEF IInv
  <2>5. SessionType'
    BY <1>5, <2>1, PartsStay
  <2> QED BY <1>2, <1>4, <2>3, <2>4, <2>5 DEF IInv
<1>7. CASE HandlePropertiesChanged
  <2> DEFINE info == Updated(s)
             connection == IF "connected" \in DOMAIN s.changed /\ info.address \in Addresses
                           THEN <<Connection(info.address, info.connected)>> ELSE <<>>
  <2>1. /\ CacheUpsert({info})
        /\ nameless' = (nameless \/ info.address \notin Addresses)
        /\ Emit(<<FoundAfter(info)>> \o connection) \/ Emit(<<>>)
    BY <1>7 DEF HandlePropertiesChanged
  <2>2. info \in Plain(readdressed) /\ Fitting({info}) /\ info.connected \in BOOLEAN
    BY <1>2, UpdatedFits DEF IInv
  <2> HIDE DEF info
  <2>3. CacheInv'
    BY <1>2, <2>1, <2>2, UpsertOneKeeps DEF IInv
  <2>4. connection \in Seq(PlainEvents(readdressed))
    BY <2>2, DeviceEvents, Emissions
  <2> HIDE DEF connection
  <2>5. <<FoundAfter(info)>> \o connection \in Seq(PlainEvents(readdressed))
    BY <2>2, <2>4, FoundAfterType, Emissions DEF IInv
  <2>6. QueueInv'
    BY <1>2, <2>1, <2>5, Emissions, EmitKeeps DEF IInv
  <2>7. SessionType'
    BY <1>5, <2>1 DEF IInv, SessionType, sessionVars
  <2> QED BY <1>2, <1>4, <2>3, <2>6, <2>7 DEF IInv
<1>8. CASE HandleInterfacesRemoved
  <2>1. \/ UNCHANGED <<cacheVars, event_queue>>
        \/ /\ FindById(s.path) # Absent
           /\ CacheRemove(FindById(s.path), discovered[FindById(s.path)].address)
           /\ Emit(<<Removed(discovered[FindById(s.path)].address)>>)
    BY <1>8 DEF HandleInterfacesRemoved
  <2>2. SessionType'
    BY <1>5, <1>8, PartsStay DEF HandleInterfacesRemoved
  <2>3. CASE UNCHANGED <<cacheVars, event_queue>>
    BY <1>2, <1>4, <2>2, <2>3, CacheStays, PartsStay DEF IInv
  <2>4. CASE /\ FindById(s.path) # Absent
             /\ CacheRemove(FindById(s.path), discovered[FindById(s.path)].address)
             /\ Emit(<<Removed(discovered[FindById(s.path)].address)>>)
    <3>1. CacheInv' /\ discovered[FindById(s.path)].address \in Keys
      BY <1>2, <1>3, <2>4, RemoveFoundKeeps DEF IInv
    <3>2. QueueInv'
      BY <1>2, <2>4, <3>1, DeviceEvents, Emissions, EmitKeeps DEF IInv
    <3> QED BY <1>2, <1>4, <2>2, <3>1, <3>2 DEF IInv
  <2> QED BY <2>1, <2>3, <2>4
<1> QED BY <1>6, <1>7, <1>8 DEF Poll

\* Device1.Pair keeps what is bluetoothd's, the queue and the job.
LEMMA PairKeeps ==
  ASSUME IInv, NEW p \in Paths, NEW told \in Keys, NEW known, Pair(p, told, known)
  PROVE  BluezType' /\ QueueInv' /\ JobInv' /\ UNCHANGED readdressed
<1>1. CASE /\ Go("refresh", p, told)
           /\ Emit(<<PairingSucceeded(told)>>)
           /\ UNCHANGED <<bluezVars, signals>>
  <2>1. JobInv'
    BY <1>1, GoKeeps DEF Steps
  <2>2. UNCHANGED readdressed
    BY <1>1 DEF bluezVars
  <2>3. <<PairingSucceeded(told)>> \in Seq(PlainEvents(readdressed))
    BY DeviceEvents, Emissions
  <2> QED BY <1>1, <2>1, <2>2, <2>3, EmitKeeps, PartsStay DEF IInv
<1>2. CASE /\ objects[p] # Absent
           /\ BluezSets(p, "paired", TRUE)
           /\ Go("pair", p, told)
           /\ UNCHANGED event_queue
  <2>1. JobInv'
    BY <1>2, GoKeeps DEF Steps
  <2>2. UNCHANGED readdressed
    BY <1>2 DEF BluezSets
  <2> QED BY <1>2, <2>1, <2>2, BluezSetsKeeps, PartsStay DEF IInv
<1> QED BY <1>1, <1>2 DEF Pair

\* A command that takes an address keeps everything at its beginning.
LEMMA BeginningKeeps ==
  ASSUME IInv, NEW a \in Addresses,
         \/ RequestFails(a) \/ PairDevice(a) \/ ConnectDevice(a)
         \/ DisconnectDevice(a) \/ UnpairDevice(a)
  PROVE  IInv'
<1>1. Begin(a) /\ UNCHANGED readdressed
  BY DEF RequestFails, PairDevice, ConnectDevice, DisconnectDevice, UnpairDevice, Pair, BluezSets,
         bluezVars
<1>2. /\ CacheInv' /\ Resolved(a) \in Paths /\ a \in Keys
      /\ UNCHANGED <<nodeVars, sessionVars, nameless>>
  BY <1>1, BeginKeeps DEF IInv
<1>3. NodeInv' /\ SessionType'
  BY <1>1, <1>2, NodeStays, PartsStay DEF IInv
<1>4. CASE RequestFails(a)
  <2>1. BluezType' /\ QueueInv' /\ JobInv'
    BY <1>1, <1>4, PartsStay DEF RequestFails
  <2> QED BY <1>2, <1>3, <2>1 DEF IInv
<1>5. CASE PairDevice(a)
  <2>1. BluezType' /\ QueueInv' /\ JobInv'
    BY <1>2, <1>5, PairKeeps DEF PairDevice
  <2> QED BY <1>2, <1>3, <2>1 DEF IInv
<1>6. CASE ConnectDevice(a)
  <2>1. BluezType' /\ QueueInv'
    BY <1>1, <1>2, <1>6, BluezSetsKeeps, PartsStay DEF ConnectDevice, IInv
  <2>2. JobInv'
    BY <1>2, <1>6, GoKeeps DEF ConnectDevice, Steps
  <2> QED BY <1>2, <1>3, <2>1, <2>2 DEF IInv
<1>7. CASE DisconnectDevice(a)
  <2>1. BluezType' /\ QueueInv'
    BY <1>1, <1>2, <1>7, BluezSetsKeeps, PartsStay DEF DisconnectDevice, IInv
  <2>2. JobInv'
    BY <1>2, <1>7, GoKeeps DEF DisconnectDevice, Steps
  <2> QED BY <1>2, <1>3, <2>1, <2>2 DEF IInv
<1>8. CASE UnpairDevice(a)
  <2>1. CASE /\ objects[Resolved(a)] # Absent
             /\ BluezSets(Resolved(a), "connected", FALSE)
             /\ Go("unpair_read", Resolved(a), a)
             /\ UNCHANGED event_queue
    <3>1. BluezType' /\ QueueInv'
      BY <1>1, <1>2, <2>1, BluezSetsKeeps, PartsStay DEF IInv
    <3>2. JobInv'
      BY <1>2, <2>1, GoKeeps DEF Steps
    <3> QED BY <1>2, <1>3, <3>1, <3>2 DEF IInv
  <2>2. CASE /\ Go("unpair_remove", Resolved(a), a)
             /\ Emit(<<Connection(a, TRUE)>>) \/ UNCHANGED event_queue
             /\ UNCHANGED <<bluezVars, signals>>
    <3>1. JobInv'
      BY <1>2, <2>2, GoKeeps DEF Steps
    <3>2. QueueInv'
      <4>1. <<Connection(a, TRUE)>> \in Seq(PlainEvents(readdressed))
        BY DeviceEvents, Emissions
      <4> QED BY <1>1, <2>2, <4>1, EmitKeeps, PartsStay DEF IInv
    <3> QED BY <1>2, <1>3, <2>2, <3>1, <3>2, PartsStay DEF IInv
  <2> QED BY <1>8, <2>1, <2>2 DEF UnpairDevice
<1> QED BY <1>4, <1>5, <1>6, <1>7, <1>8

\* So does pairing by a path.
LEMMA PairByIdKeeps ==
  ASSUME IInv, NEW p \in Paths, PairDeviceById(p)
  PROVE  IInv'
<1>0. UNCHANGED readdressed
  BY DEF PairDeviceById, Pair, BluezSets, bluezVars
<1>1. CacheInv' /\ NodeInv' /\ SessionType'
  BY <1>0, CacheStays, NodeStays, PartsStay DEF PairDeviceById, IInv
<1>2. CASE Pair(p, p, FALSE)
  <2>1. p \in Keys
    BY DEF Keys
  <2> QED BY <1>1, <1>2, <2>1, PairKeeps DEF IInv
<1>3. CASE /\ FindById(p) # Absent
           /\ Pair(p, discovered[FindById(p)].address, discovered[FindById(p)].paired)
  <2>1. discovered[FindById(p)].address \in Keys
    BY <1>3, FindByIdFinds, KeyType DEF IInv
  <2> QED BY <1>1, <1>3, <2>1, PairKeeps DEF IInv
<1> QED BY <1>2, <1>3 DEF PairDeviceById

\* So do the steps in which a command reads the device's properties back.
LEMMA ReadingKeeps ==
  ASSUME IInv, PairRead \/ ConnectRead \/ DisconnectRead \/ UnpairRead
  PROVE  IInv'
<1>1. /\ job.at \in {"pair", "connect", "disconnect", "unpair_read"}
      /\ UNCHANGED <<nodeVars, session, sessions, nameless>>
      /\ UNCHANGED <<bluezVars, signals, refreshed>>
      /\ UNCHANGED readdressed
  BY DEF PairRead, ConnectRead, DisconnectRead, UnpairRead, At, bluezVars
<1>2. /\ job.path \in Paths /\ job.told \in Keys
      /\ job.at # "pair" => job.told \in Addresses
  BY <1>1, JobFacts DEF IInv, JobInv
<1>3. BluezType' /\ NodeInv' /\ SessionType'
  <2>1. UNCHANGED <<sessionVars, nameless>>
    BY <1>1 DEF sessionVars
  <2> QED BY <1>1, <2>1, NodeStays, PartsStay DEF IInv
<1>4. ASSUME NEW events \in Seq(PlainEvents(readdressed)), ReadBack(events)
      PROVE  CacheInv' /\ QueueInv'
  BY <1>1, <1>2, <1>4, ReadBackKeeps DEF IInv
<1>5. CASE PairRead
  <2>1. <<PairingSucceeded(job.told)>> \in Seq(PlainEvents(readdressed))
    BY <1>2, DeviceEvents, Emissions
  <2>2. CacheInv' /\ QueueInv'
    BY <1>4, <1>5, <2>1 DEF PairRead
  <2>3. JobInv'
    BY <1>2, <1>5, GoKeeps DEF PairRead, Steps
  <2> QED BY <1>3, <2>2, <2>3 DEF IInv
<1>6. CASE ConnectRead
  <2>1. job.told \in Addresses
    BY <1>2, <1>6 DEF ConnectRead, At
  <2>2. <<Connection(job.told, TRUE)>> \in Seq(PlainEvents(readdressed))
    BY <2>1, DeviceEvents, Emissions
  <2>3. CacheInv' /\ QueueInv'
    BY <1>4, <1>6, <2>2 DEF ConnectRead
  <2> QED BY <1>3, <1>6, <2>3, IdleKeeps DEF IInv, ConnectRead
<1>7. CASE DisconnectRead
  <2>1. job.told \in Addresses
    BY <1>2, <1>7 DEF DisconnectRead, At
  <2>2. <<Connection(job.told, FALSE)>> \in Seq(PlainEvents(readdressed)) /\ <<>> \in Seq(PlainEvents(readdressed))
    BY <2>1, DeviceEvents, Emissions
  <2>3. \/ ReadBack(<<Connection(job.told, FALSE)>>)
        \/ ReadBack(<<>>)
        \/ UNCHANGED cacheVars /\ Emit(<<Connection(job.told, FALSE)>>)
    BY <1>7 DEF DisconnectRead
  <2>4. CacheInv' /\ QueueInv'
    BY <1>1, <1>4, <2>2, <2>3, CacheStays, EmitKeeps DEF IInv
  <2> QED BY <1>3, <1>7, <2>4, IdleKeeps DEF IInv, DisconnectRead
<1>8. CASE UnpairRead
  <2>1. job.told \in Addresses
    BY <1>2, <1>8 DEF UnpairRead, At
  <2>2. <<Connection(job.told, FALSE)>> \in Seq(PlainEvents(readdressed))
    BY <2>1, DeviceEvents, Emissions
  <2>3. CacheInv' /\ QueueInv'
    BY <1>4, <1>8, <2>2 DEF UnpairRead
  <2>4. JobInv'
    BY <1>2, <1>8, <2>1, GoKeeps DEF UnpairRead, Steps
  <2> QED BY <1>3, <2>3, <2>4 DEF IInv
<1> QED BY <1>5, <1>6, <1>7, <1>8

\* Unpairing removes one record: bluetoothd's object, and the cache's.
LEMMA UnpairRemoveKeeps ==
  ASSUME IInv, UnpairRemove
  PROVE  IInv'
<1>1. /\ job.at = "unpair_remove" /\ job' = Idle
      /\ UNCHANGED nodeVars /\ UNCHANGED <<sessionVars, nameless>>
  BY DEF UnpairRemove, At, sessionVars
<1>2. job.path \in Paths /\ job.told \in Addresses /\ job.told \in Keys
  BY <1>1, JobFacts DEF IInv, JobInv
<1>0. UNCHANGED readdressed
  BY DEF UnpairRemove, Vanishes, bluezVars
<1>3. JobInv' /\ NodeInv' /\ SessionType'
  BY <1>0, <1>1, IdleKeeps, NodeStays, PartsStay DEF IInv
<1>4. CASE UNCHANGED <<bluezVars, signals, cacheVars, event_queue>>
  BY <1>0, <1>3, <1>4, CacheStays, PartsStay DEF IInv
<1>5. CASE /\ objects[job.path] # Absent
           /\ Vanishes(job.path)
           /\ \E s \in RemovalSignals(job.path) : Sent(s)
           /\ LET k == FindById(job.path) IN
                IF k # Absent THEN CacheRemove(k, discovered[k].address)
                ELSE CacheRemove(job.told, job.told)
           /\ Emit(<<Removed(job.told)>>)
  <2>1. CacheInv'
    <3>1. CASE FindById(job.path) # Absent
      BY <1>0, <1>2, <1>5, <3>1, RemoveFoundKeeps DEF IInv
    <3>2. CASE FindById(job.path) = Absent
      BY <1>0, <1>2, <1>5, <3>2, CacheRemoveKeeps DEF IInv
    <3> QED BY <3>1, <3>2
  <2>2. QueueInv'
    BY <1>0, <1>2, <1>5, DeviceEvents, Emissions, EmitKeeps DEF IInv
  <2>3. objects' \in [Paths -> Properties \cup {Absent}] /\ MacType'
    BY <1>2, <1>5, VanishesKeeps DEF IInv
  <2>4. signals' \in Seq(PlainSignals(readdressed'))
    <3> DEFINE lost == Signal("changed", job.path, Absent, [paired |-> FALSE, connected |-> FALSE])
               gone == Signal("removed", job.path, Absent, Nothing)
    <3>2. lost \in PlainSignals(readdressed) /\ gone \in PlainSignals(readdressed)
      BY <1>2, ChangeTypes, SignalType
    <3>3. RemovalSignals(job.path) = {<<gone>>, <<lost, gone>>}
      BY DEF RemovalSignals
    <3> HIDE DEF lost, gone
    <3>4. /\ <<gone>> \in Seq(PlainSignals(readdressed))
          /\ <<lost, gone>> \in Seq(PlainSignals(readdressed))
      BY <3>2
    <3> QED BY <1>0, <1>5, <3>3, <3>4, SentKeeps DEF IInv
  <2>5. BluezType'
    BY <2>3, <2>4 DEF BluezType
  <2> QED BY <1>3, <2>1, <2>2, <2>5 DEF IInv
<1> QED BY <1>4, <1>5 DEF UnpairRemove

\* A snapshot of a mirror of a tidy table names no device twice.
LEMMA RefreshKeeps ==
  ASSUME IInv, Refresh
  PROVE  IInv'
<1> DEFINE infos == {FromBluez(p) : p \in {q \in Paths : objects[q] # Absent}}
           snapshot == {paired'[k] : k \in Keys} \ {Absent}
<1>1. /\ \/ CacheUpsert(infos) /\ refreshed' = TRUE
         \/ UNCHANGED <<cacheVars, refreshed>>
      /\ Emit(<<PairedUpdated(snapshot)>>)
      /\ job' = Idle
      /\ UNCHANGED <<bluezVars, signals, nodeVars, session, sessions, nameless>>
      /\ UNCHANGED readdressed
  BY DEF Refresh, bluezVars
<1>2. infos \in SUBSET Plain(readdressed) /\ Distinct(infos) /\ Fitting(infos)
  <2>1. \A p \in Paths : objects[p] # Absent =>
          /\ FromBluez(p) \in Plain(readdressed) /\ FromBluez(p).device_id = p
          /\ FromBluez(p).address \in Addresses
    BY FromBluezType DEF IInv
  <2> QED BY <2>1 DEF Distinct, Fitting
<1> HIDE DEF infos
<1>3. CacheInv'
  BY <1>1, <1>2, CacheUpsertKeeps, CacheStays DEF IInv
<1>4. snapshot \in SUBSET Plain(readdressed) /\ Distinct(snapshot)
  <2>2. \A k \in Keys : paired'[k] # Absent => discovered'[k] = paired'[k]
    BY <1>3 DEF CacheInv, Mirrors
  <2>1. \A k \in Keys : paired'[k] \in Plain(readdressed) \cup {Absent}
    BY <1>1, <1>3, <2>2 DEF CacheInv, PlainTables
  <2>3. \A k, l \in Keys : discovered'[k] # Absent /\ discovered'[l] # Absent
                           /\ discovered'[k].device_id = discovered'[l].device_id => k = l
    BY <1>3 DEF CacheInv, Tidy
  <2>4. ASSUME NEW x \in snapshot, NEW y \in snapshot, x.device_id = y.device_id
        PROVE  x = y
    <3>1. PICK k \in Keys : x = paired'[k] /\ x # Absent
      OBVIOUS
    <3>2. PICK l \in Keys : y = paired'[l] /\ y # Absent
      OBVIOUS
    <3> QED BY <2>2, <2>3, <2>4, <3>1, <3>2
  <2> QED BY <2>1, <2>4 DEF Distinct
<1> HIDE DEF snapshot
<1>5. QueueInv'
  <2>1. PairedUpdated(snapshot) \in PlainEvents(readdressed)
    BY <1>4 DEF PairedUpdated, PlainEvents, GoodEvents, Events, Plain
  <2> QED BY <1>1, <2>1, Emissions, EmitKeeps DEF IInv
<1>6. SessionType'
  BY <1>1 DEF IInv, SessionType
<1>7. BluezType' /\ JobInv' /\ NodeInv'
  BY <1>1, IdleKeeps, NodeStays, PartsStay DEF IInv
<1> QED BY <1>3, <1>5, <1>6, <1>7 DEF IInv

\* A session begins with an empty queue and ends between two commands.
LEMMA SessionKeeps ==
  ASSUME IInv, StartSession \/ EndSession
  PROVE  IInv'
<1>0. UNCHANGED readdressed
  BY DEF StartSession, EndSession, bluezVars
<1>1. BluezType' /\ CacheInv' /\ JobInv' /\ NodeInv'
  BY <1>0, CacheStays, NodeStays, PartsStay DEF StartSession, EndSession, IInv
<1>2. QueueInv'
  BY <1>0, Emissions, PartsStay DEF StartSession, EndSession, QueueInv, IInv
<1>3. SessionType'
  <2>1. sessions' \in 0..MaxSessions
    BY ListBounds DEF StartSession, EndSession, SessionType, IInv, ListBounds
  <2>2. session' \in {"up", "down"}
    BY DEF StartSession, EndSession
  <2>3. refreshed' \in BOOLEAN /\ nameless' \in BOOLEAN
    BY Zenon DEF StartSession, EndSession, SessionType, IInv
  <2> QED BY <2>1, <2>2, <2>3 DEF SessionType
<1> QED BY <1>1, <1>2, <1>3 DEF IInv

-----------------------------------------------------------------------------
(* Results                                                                 *)

\* The invariant holds at the start, when all lists are empty.
LEMMA InitInv == Init => IInv
<1> SUFFICES ASSUME Init PROVE IInv
  OBVIOUS
<1>0. MacType
  BY MacFacts, DevicesAssumption DEF Init, MacType, DevicesAssumption
<1>1. BluezType /\ JobInv /\ QueueInv
  BY <1>0 DEF Init, ListsInit, BluezType, JobInv, QueueInv, Idle
<1>2. CacheInv
  BY DEF Init, ListsInit, CacheInv, CacheType, Tables, PlainTables, Tidy, Mirrors, IndexesAgree,
         Empty, Keys
<1>3. NodeInv
  BY DEF Init, ListsInit, NodeInv, Tables, PlainTables, Tidy, Mirrors, Empty
<1>4. SessionType
  <2>1. sessions \in 0..MaxSessions
    BY ListBounds DEF Init, ListBounds
  <2> QED BY <2>1 DEF Init, SessionType
<1> QED BY <1>1, <1>2, <1>3, <1>4 DEF IInv

\* Every step keeps it.
LEMMA NextInv == IInv /\ [Next]_vars => IInv'
<1> SUFFICES ASSUME IInv, [Next]_vars PROVE IInv'
  OBVIOUS
<1>1. CASE UNCHANGED vars
  <2>1. UNCHANGED readdressed
    BY <1>1 DEF vars, bluezVars
  <2> QED BY <1>1, <2>1, CacheStays, NodeStays, PartsStay DEF vars, IInv
<1>2. CASE Bluez
  BY <1>2, BluezKeeps
<1>3. CASE Poll
  BY <1>3, PollKeeps
<1>4. CASE Command
  BY <1>4, BeginningKeeps, PairByIdKeeps, ReadingKeeps, UnpairRemoveKeeps, RefreshKeeps DEF Command
<1>5. CASE HandleEvent
  <2>1. QueueInv' /\ NodeInv'
    BY <1>5, HandleEventKeeps DEF IInv
  <2>2. UNCHANGED <<bluezVars, signals, cacheVars, job, sessionVars, nameless>>
        /\ UNCHANGED readdressed
    BY <1>5 DEF HandleEvent, bluezVars
  <2> QED BY <2>1, <2>2, CacheStays, PartsStay DEF IInv
<1>6. CASE StartSession \/ EndSession
  BY <1>6, SessionKeeps
<1> QED BY <1>1, <1>2, <1>3, <1>4, <1>5, <1>6 DEF Next

\* The invariant is one.
LEMMA Inductive == Spec => []IInv
BY InitInv, NextInv, PTL DEF Spec

\* Records, tables, indexes, signals and events are what they should be: whatever is
\* merged, and however little a signal names, a record has an address and a device.
THEOREM DevicesTypeCorrect == Spec => []TypeOK
<1>1. IInv => TypeOK
  <2> SUFFICES ASSUME IInv PROVE TypeOK
    OBVIOUS
  <2>1. event_queue \in Seq(Events)
    <3>1. PlainEvents(readdressed) \subseteq Events
      BY DEF PlainEvents, GoodEvents
    <3> QED BY <3>1 DEF IInv, QueueInv
  <2>2. signals \in Seq(Signals)
    <3>1. PlainSignals(readdressed) \subseteq Signals
      BY DEF PlainSignals
    <3> QED BY <3>1 DEF IInv, BluezType
  <2> QED BY <2>1, <2>2 DEF IInv, TypeOK, BluezType, MacType, CacheInv, CacheType, JobInv, NodeInv, SessionType
<1> QED BY <1>1, Inductive, PTL

\* Neither the cache nor the node nor a snapshot ever has a device twice, for any number
\* of devices, signals and events in flight.
THEOREM OneRecordEach == Spec => []OneRecord
<1>1. IInv => OneRecord
  BY DEF IInv, OneRecord, CacheInv, NodeInv, QueueInv, PlainEvents, GoodEvents, Distinct
<1> QED BY <1>1, Inductive, PTL

\* The lists of paired devices are the paired part of the lists, in the cache and in the node.
THEOREM PairedListsMirror == Spec => []PairedMirrors
<1>1. IInv => PairedMirrors
  BY DEF IInv, PairedMirrors, CacheInv, NodeInv
<1> QED BY <1>1, Inductive, PTL

\* The cache's indexes lead to the device that was asked for, and to every record, for any
\* devices that change their MAC while they are listed: an entry outlives its record only
\* for an old MAC of such a device, and leads to the path of that device still.
THEOREM IndexesLead == Spec => []IndexesAgree
<1>1. IInv => IndexesAgree
  BY DEF IInv, CacheInv
<1> QED BY <1>1, Inductive, PTL

=============================================================================
