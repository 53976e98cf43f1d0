------------------------------- MODULE ListsProofs -------------------------------
(***************************************************************************)
(* Proofs about Devices, for any set of devices and any bounds: in the     *)
(* first session the lists are current and complete once everything that   *)
(* bluetoothd has said is dealt with (ListsCurrent, ListsComplete).        *)
(*                                                                         *)
(* This is about the devices whose MAC has not changed (Steady).  Of such a*)
(* device the cache and the node have a pair of records, one under the MAC *)
(* and one under the path.  Bus relates the cache's pair to bluetoothd: the*)
(* signals in the connection lead from a state of the device that the      *)
(* cache may have heard of to the one it is in, and where the cache is     *)
(* behind or, by a reply that overtook a signal, ahead, a signal that will *)
(* put it right is among them.  Told relates the node's pair to the        *)
(* cache's: the queued events lead the node to a pair that agrees with the *)
(* cache's as far as no such signal is left.                               *)
(*                                                                         *)
(* The last part proves, of every device, that both lists implement        *)
(* DeviceRoster: what is merged into a record under one key is what the    *)
(* device's records say under any, and only one of them is left.           *)
(***************************************************************************)
EXTENDS DevicesProofs, Histories

States == Properties \cup {Absent}

\* The records of one device: the one under its MAC and the one under its path.
Pairs == (Infos \cup {Absent}) \X (Infos \cup {Absent})

Two(table, p) == <<table[AddressOf[p]], table[p]>>

NoRecord == <<Absent, Absent>>

\* What a record becomes that is merged into a pair, and the pair it leaves.
Joined(i, x) ==
    [address |-> i.address, device_id |-> i.device_id,
     paired |-> \/ i.paired
                \/ x[1] # Absent /\ x[1].paired
                \/ x[2] # Absent /\ x[2].paired,
     connected |-> \/ i.connected
                   \/ i.address \in Addresses /\ x[2] # Absent /\ x[2].connected
                   \/ i.address \notin Addresses /\ x[1] # Absent /\ x[1].connected]

After(i, x) == IF i.address \in Addresses THEN <<Joined(i, x), Absent>> ELSE <<Absent, Joined(i, x)>>

-----------------------------------------------------------------------------
(* Signals                                                                 *)

\* What a signal says of the device p: from which state to which it went.
Tells(p) == {t \in Signals \X States \X States :
    \/ t[1].path # p /\ t[3] = t[2]
    \/ t[1].path = p /\ t[1].type = "added" /\ t[2] = Absent /\ t[3] = t[1].changed
    \/ t[1].path = p /\ t[1].type = "changed" /\ t[2] # Absent /\ t[3] = With(t[1].changed, t[2])
    \/ t[1].path = p /\ t[1].type = "removed" /\ t[2] # Absent /\ t[3] = Absent}

\* The signals that bring a device, take it away, decide whether it is connected, and
\* make it a paired one.
Adding(p) == {s \in Signals : s.path = p /\ s.type = "added"}
Removing(p) == {s \in Signals : s.path = p /\ s.type = "removed"}
Deciding(p) == {s \in Signals : s.path = p /\ (s.type # "changed" \/ "connected" \in DOMAIN s.changed)}
Pairing(p) == {s \in Signals : /\ s.path = p /\ s.type # "removed"
                               /\ "paired" \in DOMAIN s.changed /\ s.changed.paired}

InFlight(q, K) == \E i \in 1..Len(q) : q[i] \in K

\* The device p is o, q is in the connection, and the cache has the pair c of it; r if
\* the session has enumerated the devices.
Bus(p, o, q, c, r) ==
    /\ \E v \in States :
         /\ Leads(Tells(p), States, q, v, o)
         /\ c[2] # Absent => v # Absent /\ (c[2].connected => v.connected)
    /\ c # NoRecord /\ o = Absent => InFlight(q, Removing(p))
    /\ c[1] # Absent => \/ InFlight(q, Deciding(p))
                        \/ o # Absent /\ c[1].connected = o.connected
    /\ c[1] # Absent /\ o # Absent => (o.paired => c[1].paired \/ InFlight(q, Pairing(p)))
    /\ r /\ o # Absent => c[1] # Absent \/ InFlight(q, Adding(p))

-----------------------------------------------------------------------------
(* Events                                                                  *)

\* The records an event brings.
Brought(e) == IF e.type = "DEVICE_FOUND" THEN {e.device} ELSE e.devices

Flagged(i, hit, x, b) == IF i # Absent /\ hit THEN [i EXCEPT ![x] = b] ELSE i

\* What becomes of the node's pair of the device p when an event is handled.
Hears(p) == {t \in GoodEvents \X Pairs \X Pairs :
    LET e == t[1] x == t[2] y == t[3] IN
      \/ /\ e.type \in {"DEVICE_FOUND", "PAIRED_DEVICES_UPDATED"}
         /\ \/ \E i \in Brought(e) : i.device_id = p /\ y = After(i, x)
            \/ (\A i \in Brought(e) : i.device_id # p) /\ y = x
      \/ /\ e.type = "DEVICE_REMOVED"
         /\ y = <<IF e.address = AddressOf[p] THEN Absent ELSE x[1],
                  IF e.address = p THEN Absent ELSE x[2]>>
      \/ /\ e.type = "CONNECTION_CHANGED"
         /\ y = <<Flagged(x[1], e.address \in {AddressOf[p], p}, "connected", e.connected),
                  Flagged(x[2], e.address = p, "connected", e.connected)>>
      \/ /\ e.type = "PAIRING_SUCCEEDED"
         /\ y = <<Flagged(x[1], e.address \in {AddressOf[p], p}, "paired", TRUE),
                  Flagged(x[2], e.address = p, "paired", TRUE)>>}

\* The node, once it has heard every event, has the pair z of the device of which the
\* cache has c; n if it was told of a device by its path.
Settled(p, q, c, z, r, n) ==
    /\ z[1] # Absent => /\ c[1] # Absent
                        /\ c[1].paired => z[1].paired
                        /\ \/ InFlight(q, Deciding(p))
                           \/ /\ c[1].connected => z[1].connected
                              /\ z[1].connected => c[1].connected \/ n
    /\ r /\ c[1] # Absent => (c[1].paired => z[1] # Absent \/ InFlight(q, Adding(p)))
    /\ ~n => z[2] = Absent /\ c[2] = Absent

\* The node has the pair x, and the events eq are queued.
Told(p, q, c, eq, x, r, n) ==
    \E z \in Pairs : Leads(Hears(p), Pairs, eq, x, z) /\ Settled(p, q, c, z, r, n)

-----------------------------------------------------------------------------
(* The invariant                                                           *)

\* The devices of which every record, signal and event gives one MAC.
Steady == Paths \ readdressed

\* bluetoothd's devices, the connection, the cache, the queue and the node's list.
Agree(objs, q, cache, eq, list, r, n) == \A p \in Steady :
    /\ Bus(p, objs[p], q, Two(cache, p), r)
    /\ Told(p, q, Two(cache, p), eq, Two(list, p), r, n)

\* Whether the device p is connected is certain, up to signals that will tell.
Certain(p, o, q, b) == InFlight(q, Deciding(p)) \/ (o # Absent /\ o.connected = b)

\* A command that tells of a connection tells of its device, and what it tells is so.
JobTrue ==
    /\ job.at \in {"connect", "disconnect", "unpair_read", "unpair_remove"}
         => /\ job.told \in MacsOf(job.path)
            /\ job.path \in Steady => job.told = AddressOf[job.path]
    /\ job.at = "connect" => Certain(job.path, objects[job.path], signals, TRUE)
    /\ job.at \in {"disconnect", "unpair_read"}
         => Certain(job.path, objects[job.path], signals, FALSE)

First == session = "up" /\ sessions = 1

Untouched == sessions = 0 =>
    /\ session = "down" /\ signals = <<>> /\ event_queue = <<>> /\ job = Idle
    /\ discovered = Empty /\ devices = Empty
    /\ ~refreshed /\ ~nameless

Agreement == Agree(objects, signals, discovered, event_queue, devices, refreshed, nameless)

ListsInv == IInv /\ Untouched /\ (First => Agreement /\ JobTrue)

-----------------------------------------------------------------------------
(* A device in a table                                                     *)

\* The two keys of a device are keys, and no two devices share one.
LEMMA TwoKeys ==
  ASSUME NEW p \in Paths
  PROVE  /\ AddressOf[p] \in Addresses /\ AddressOf[p] \in Keys /\ p \in Keys
         /\ p \notin Addresses /\ AddressOf[p] \notin Paths /\ AddressOf[p] # p
         /\ \A q \in Paths : AddressOf[p] = AddressOf[q] => p = q
         /\ \A t \in Tables : Two(t, p) \in Pairs
<1>1. AddressOf[p] \in Addresses /\ AddressOf[p] \in Keys /\ p \in Keys
  BY MacFacts
<1>2. \A t \in Tables : Two(t, p) \in Pairs
  BY <1>1 DEF Tables, Two, Pairs
<1>3. AddressOf[p] \in MacsOf(p) /\ AddressOf[p] \notin Paths /\ p \notin Addresses
  BY MacFacts
<1>4. ASSUME NEW q \in Paths, AddressOf[p] = AddressOf[q]
      PROVE  p = q
  <2>1. AddressOf[q] \in MacsOf(q)
    BY MacFacts
  <2> QED BY <1>3, <1>4, <2>1, MacFacts
<1> QED BY <1>1, <1>2, <1>3, <1>4

\* In a tidy table a record under one of the two keys is of the device, and under its own.
LEMMA TidyTwo ==
  ASSUME NEW t \in Tables, Tidy(t), NEW p \in Paths
  PROVE  /\ t[AddressOf[p]] # Absent => /\ t[AddressOf[p]] \in Infos
                                        /\ t[AddressOf[p]].device_id = p
                                        /\ t[AddressOf[p]].address = AddressOf[p]
         /\ t[p] # Absent => /\ t[p] \in Infos /\ t[p].device_id = p /\ t[p].address = p
         /\ t[AddressOf[p]] = Absent \/ t[p] = Absent
<1>1. \A k \in Keys : t[k] # Absent => t[k] \in Infos /\ k = Key(t[k])
  BY DEF Tables, Tidy
<1>2. t[AddressOf[p]] # Absent => /\ t[AddressOf[p]] \in Infos
                                  /\ t[AddressOf[p]].device_id = p
                                  /\ t[AddressOf[p]].address = AddressOf[p]
  <2>1. AddressOf[p] \in MacsOf(p) /\ AddressOf[p] \in Keys
    BY MacFacts
  <2> QED BY <1>1, <2>1, TwoKeys, KeyType, MacFacts
<1>3. t[p] # Absent => t[p] \in Infos /\ t[p].device_id = p /\ t[p].address = p
  BY <1>1, TwoKeys, KeyType
<1>4. t[AddressOf[p]] = Absent \/ t[p] = Absent
  BY <1>2, <1>3, TwoKeys DEF Tidy
<1> QED BY <1>2, <1>3, <1>4

\* Of a device whose MAC has not changed there is no other record.
LEMMA SteadyKeys ==
  ASSUME NEW R, NEW t \in Tables, t \in PlainTables(R), Tidy(t), NEW p \in Paths \ R,
         NEW k \in Keys, t[k] # Absent, t[k].device_id = p
  PROVE  k \in {AddressOf[p], p}
<1>1. t[k] \in Infos /\ k = Key(t[k]) /\ t[k].address \in {p, AddressOf[p]}
  BY DEF Tables, PlainTables, Plain, Tidy
<1> QED BY <1>1, KeyType

\* A record merged into a pair is a record of the same device, and at least as paired.
LEMMA JoinedType ==
  ASSUME NEW i \in Infos, NEW x \in Pairs
  PROVE  /\ Joined(i, x) \in Infos /\ After(i, x) \in Pairs
         /\ Joined(i, x).device_id = i.device_id /\ Joined(i, x).address = i.address
         /\ i.paired => Joined(i, x).paired
         /\ i.connected => Joined(i, x).connected
<1>1. Joined(i, x) \in Infos
  BY DEF Joined, Infos
<1> QED BY <1>1 DEF Joined, After, Pairs

\* Merging into a table is merging into the device's pair.
LEMMA MergedPair ==
  ASSUME NEW R, NEW t \in Tables, t \in PlainTables(R), Tidy(t),
         NEW i \in Plain(R), i.device_id \notin R
  PROVE  Merged(t, i) = Joined(i, Two(t, i.device_id))
<1> DEFINE p == i.device_id
           a == AddressOf[i.device_id]
           stale == Stale(t, i)
<1>1. /\ p \in Paths /\ p \notin R /\ a \in Keys /\ p \in Keys /\ p # a
      /\ i \in Infos /\ i.address \in {p, a}
  BY KeyType, TwoKeys DEF Plain
<1>2. \A k \in Keys : t[k] # Absent => t[k] \in Infos /\ k = Key(t[k])
  BY DEF Tables, Tidy
<1>3. stale = {k \in {a, p} \ {Key(i)} : t[k] # Absent}
  <2>1. ASSUME NEW k \in stale
        PROVE  k \in {a, p} \ {Key(i)} /\ t[k] # Absent
    <3>1. k \in Keys /\ k # Key(i) /\ t[k] # Absent
      BY DEF Stale
    <3>2. CASE t[k].device_id = p
      BY <1>1, <3>1, <3>2, SteadyKeys
    <3>3. CASE i.address \in Addresses /\ t[k].address = i.address
      BY <1>1, <1>2, <3>1, <3>3, KeyType
    <3> QED BY <3>1, <3>2, <3>3 DEF Stale
  <2>2. ASSUME NEW k \in {a, p} \ {Key(i)}, t[k] # Absent
        PROVE  k \in stale
    <3>1. k \in Keys /\ t[k].device_id = p
      BY <1>1, <2>2, TidyTwo
    <3> QED BY <2>2, <3>1 DEF Stale
  <2> QED BY <2>1, <2>2
<1> DEFINE pd == i.paired \/ \E k \in stale \cup {Key(i)} : t[k] # Absent /\ t[k].paired
           cd == i.connected \/ \E k \in stale : t[k].connected
           jp == \/ i.paired
                 \/ t[a] # Absent /\ t[a].paired
                 \/ t[p] # Absent /\ t[p].paired
           jc == \/ i.connected
                 \/ i.address \in Addresses /\ t[p] # Absent /\ t[p].connected
                 \/ i.address \notin Addresses /\ t[a] # Absent /\ t[a].connected
<1>4. Merged(t, i) = [[i EXCEPT !.paired = pd] EXCEPT !.connected = cd]
  BY <1>1 DEF Merged, Infos
<1>5. Key(i) \in {a, p} /\ (Key(i) = a <=> i.address \in Addresses)
  BY <1>1, KeyType, TwoKeys
<1>6. pd = jp
  BY <1>1, <1>3, <1>5
<1>7. cd = jc
  BY <1>1, <1>3, <1>5
<1>8. Joined(i, Two(t, p)) = [address |-> i.address, device_id |-> i.device_id,
                              paired |-> jp, connected |-> jc]
  BY DEF Joined, Two
<1> HIDE DEF pd, cd, jp, jc
<1>9. Merged(t, i) = [address |-> i.address, device_id |-> i.device_id,
                      paired |-> jp, connected |-> jc]
  BY <1>1, <1>4, <1>6, <1>7 DEF Infos
<1> QED BY <1>8, <1>9

\* An upsert joins a record with the device's pair, and leaves the pairs of others alone.
LEMMA UpsertedTwo ==
  ASSUME NEW R, NEW t \in Tables, t \in PlainTables(R), Tidy(t),
         NEW infos \in SUBSET Plain(R), Distinct(infos), NEW p \in Paths \ R
  PROVE  /\ \A i \in infos : i.device_id = p => Two(Upserted(t, infos), p) = After(i, Two(t, p))
         /\ (\A i \in infos : i.device_id # p) => Two(Upserted(t, infos), p) = Two(t, p)
<1> DEFINE a == AddressOf[p]
           new == Upserted(t, infos)
<1>1. a \in Keys /\ p \in Keys /\ p # a /\ a \in Addresses /\ p \notin Addresses
  BY TwoKeys
<1>2. \A i \in infos : i \in Infos /\ (Key(i) \in {a, p} => i.device_id = p)
  <2>1. a \in MacsOf(p) /\ infos \subseteq Infos
    BY MacFacts DEF Plain
  <2> QED BY <1>1, <2>1, KeyType, MacFacts
<1>3. \A k \in Keys : new[k] = IF \E i \in infos : Key(i) = k
                               THEN Merged(t, CHOOSE i \in infos : Key(i) = k)
                               ELSE IF \E i \in infos : k \in Stale(t, i) THEN Absent
                               ELSE t[k]
  BY DEF Upserted
<1> HIDE DEF new
<1>4. ASSUME NEW i \in infos, i.device_id = p
      PROVE  Two(new, p) = After(i, Two(t, p))
  <2>1. Key(i) \in {a, p} /\ Key(i) \in Keys /\ (Key(i) = a <=> i.address \in Addresses)
    BY <1>1, <1>2, <1>4, KeyType DEF Plain
  <2>2. \A j \in infos : Key(j) \in {a, p} => j = i
    BY <1>2, <1>4 DEF Distinct
  <2>3. (CHOOSE j \in infos : Key(j) = Key(i)) = i
    BY <2>1, <2>2
  <2>4. new[Key(i)] = Joined(i, Two(t, p))
    BY <1>3, <1>4, <2>1, <2>3, MergedPair
  <2>5. ASSUME NEW k \in {a, p} \ {Key(i)}
        PROVE  new[k] = Absent
    <3>1. k \in Keys /\ ~\E j \in infos : Key(j) = k
      BY <1>1, <2>2
    <3>2. t[k] # Absent => k \in Stale(t, i)
      BY <1>4, <3>1, TidyTwo DEF Stale
    <3> QED BY <1>3, <3>1, <3>2
  <2> QED BY <1>1, <2>1, <2>4, <2>5 DEF Two, After
<1>5. ASSUME \A i \in infos : i.device_id # p
      PROVE  Two(new, p) = Two(t, p)
  <2>1. ASSUME NEW k \in {a, p}
        PROVE  new[k] = t[k]
    <3>1. k \in Keys /\ ~\E i \in infos : Key(i) = k
      BY <1>1, <1>2, <1>5
    <3>2. ASSUME NEW i \in infos, k \in Stale(t, i)
          PROVE  FALSE
      <4>1. t[k] # Absent /\ t[k].device_id = p /\ t[k].address = k
        BY <3>2, TidyTwo DEF Stale
      <4>2. i.address \in Addresses /\ i.address = k
        BY <1>5, <3>2, <4>1 DEF Stale
      <4> QED BY <1>2, <1>5, <4>2, KeyType
    <3> QED BY <1>3, <3>1, <3>2
  <2> QED BY <2>1 DEF Two
<1> QED BY <1>4, <1>5 DEF new

-----------------------------------------------------------------------------
(* Signals                                                                 *)

\* What is in the connection after a signal is sent, and before one is dispatched.
LEMMA InFlightFacts ==
  ASSUME NEW q \in Seq(Signals), NEW K
  PROVE  /\ ~InFlight(<<>>, K)
         /\ \A s \in Signals : InFlight(Append(q, s), K) <=> InFlight(q, K) \/ s \in K
         /\ q # <<>> => (InFlight(q, K) <=> Head(q) \in K \/ InFlight(Tail(q), K))
<1>1. ~InFlight(<<>>, K)
  BY DEF InFlight
<1>2. ASSUME NEW s \in Signals
      PROVE  InFlight(Append(q, s), K) <=> InFlight(q, K) \/ s \in K
  <2> DEFINE n == Len(q)
             p == Append(q, s)
  <2>1. n \in Nat /\ Len(p) = n + 1 /\ p[n + 1] = s /\ \A i \in 1..n : p[i] = q[i]
    OBVIOUS
  <2> HIDE DEF p, n
  <2>2. InFlight(p, K) <=> (\E i \in 1..n : q[i] \in K) \/ s \in K
    <3>1. ASSUME NEW i \in 1..(n + 1), p[i] \in K
          PROVE  (\E j \in 1..n : q[j] \in K) \/ s \in K
      <4>1. i = n + 1 \/ i \in 1..n
        BY <2>1
      <4> QED BY <2>1, <3>1, <4>1
    <3>2. ASSUME NEW i \in 1..n, q[i] \in K
          PROVE  \E j \in 1..(n + 1) : p[j] \in K
      <4>1. i \in 1..(n + 1)
        BY <2>1
      <4> QED BY <2>1, <3>2, <4>1
    <3>3. s \in K => \E j \in 1..(n + 1) : p[j] \in K
      <4>1. n + 1 \in 1..(n + 1)
        BY <2>1
      <4> QED BY <2>1, <4>1
    <3> QED BY <2>1, <3>1, <3>2, <3>3 DEF InFlight
  <2> QED BY <2>2 DEF InFlight, p, n
<1>3. ASSUME q # <<>>
      PROVE  InFlight(q, K) <=> Head(q) \in K \/ InFlight(Tail(q), K)
  <2> DEFINE n == Len(q)
             p == Tail(q)
  <2>1. n \in Nat \ {0} /\ Len(p) = n - 1 /\ Head(q) = q[1] /\ \A i \in 1..(n - 1) : p[i] = q[i + 1]
    BY <1>3
  <2> HIDE DEF p, n
  <2>2. ASSUME NEW i \in 1..n, q[i] \in K
        PROVE  q[1] \in K \/ \E j \in 1..(n - 1) : p[j] \in K
    <3>1. i = 1 \/ (i - 1 \in 1..(n - 1) /\ (i - 1) + 1 = i)
      BY <2>1
    <3> QED BY <2>1, <2>2, <3>1
  <2>3. ASSUME NEW i \in 1..(n - 1), p[i] \in K
        PROVE  \E j \in 1..n : q[j] \in K
    <3>1. i + 1 \in 1..n
      BY <2>1
    <3> QED BY <2>1, <2>3, <3>1
  <2>4. 1 \in 1..n
    BY <2>1
  <2> QED BY <2>1, <2>2, <2>3, <2>4 DEF InFlight, p, n
<1> QED BY <1>1, <1>2, <1>3

\* What a signal is made of.
LEMMA SignalFacts ==
  ASSUME NEW s \in Signals
  PROVE  /\ s.path \in Paths /\ s.type \in {"added", "changed", "removed"}
         /\ s.changed \in Changes
         /\ s.type = "added" => /\ s.changed \in Properties
                                /\ "paired" \in DOMAIN s.changed
<1>1. Properties \subseteq Changes
  <2>1. Properties \subseteq [{"paired", "connected"} -> BOOLEAN]
    BY DEF Properties
  <2>2. {"paired", "connected"} \in SUBSET {"paired", "connected"}
    OBVIOUS
  <2> QED BY <2>1, <2>2, Zenon DEF Changes
<1>2. s.path \in Paths /\ s.type \in {"added", "changed", "removed"} /\ s.changed \in Changes
  BY <1>1 DEF Signals
<1>3. s.type = "added" => s.changed \in Properties /\ "paired" \in DOMAIN s.changed
  BY DEF Signals, Properties
<1> QED BY <1>2, <1>3

\* What a change makes of a device, and of a record.
LEMMA WithFields ==
  ASSUME NEW c \in Changes, NEW x \in Properties \cup Infos
  PROVE  /\ With(c, x).connected = IF "connected" \in DOMAIN c THEN c.connected ELSE x.connected
         /\ With(c, x).paired = IF "paired" \in DOMAIN c THEN c.paired ELSE x.paired
         /\ With(c, x).connected \in BOOLEAN /\ With(c, x).paired \in BOOLEAN
         /\ x \in Properties => With(c, x) \in Properties
<1>1. PICK S \in SUBSET {"paired", "connected"} : c \in [S -> BOOLEAN]
  BY Zenon DEF Changes
<1>2. {"paired", "connected"} \subseteq DOMAIN x /\ x.paired \in BOOLEAN /\ x.connected \in BOOLEAN
  BY DEF Infos, Properties
<1>3. /\ With(c, x).connected = IF "connected" \in DOMAIN c THEN c.connected ELSE x.connected
      /\ With(c, x).paired = IF "paired" \in DOMAIN c THEN c.paired ELSE x.paired
  BY <1>2 DEF With
<1>4. With(c, x).connected \in BOOLEAN /\ With(c, x).paired \in BOOLEAN
  BY <1>1, <1>2, <1>3
<1>5. ASSUME x \in Properties PROVE With(c, x) \in Properties
  <2>1. With(c, x) = [paired |-> With(c, x).paired, connected |-> With(c, x).connected]
    BY <1>5 DEF With, Properties
  <2> QED BY <1>4, <2>1 DEF Properties
<1> QED BY <1>3, <1>4, <1>5

\* A device that goes, comes, is connected otherwise or becomes a paired one while the
\* signals are dispatched does so by one of them.
LEMMA SignalsTell ==
  ASSUME NEW p \in Paths, NEW q \in Seq(Signals), NEW v \in States, NEW o \in States,
         Leads(Tells(p), States, q, v, o)
  PROVE  /\ v # Absent /\ o = Absent => InFlight(q, Removing(p))
         /\ v = Absent /\ o # Absent => InFlight(q, Adding(p))
         /\ v # Absent => InFlight(q, Deciding(p)) \/ (o # Absent /\ o.connected = v.connected)
         /\ o # Absent /\ o.paired => InFlight(q, Pairing(p)) \/ (v # Absent /\ v.paired)
<1>0. Len(q) \in Nat
  OBVIOUS
<1>1. ASSUME NEW s, NEW y, NEW x, <<s, y, x>> \in Tells(p)
      PROVE  /\ s \in Signals /\ y \in States /\ x \in States
             /\ y # Absent /\ x = Absent => s \in Removing(p)
             /\ y = Absent /\ x # Absent => s \in Adding(p)
             /\ y # Absent => s \in Deciding(p) \/ (x # Absent /\ x.connected = y.connected)
             /\ x # Absent /\ x.paired => s \in Pairing(p) \/ (y # Absent /\ y.paired)
  <2>1. s \in Signals /\ y \in States /\ x \in States
    BY <1>1 DEF Tells
  <2>2. CASE s.path # p /\ x = y
    BY <2>1, <2>2 DEF States, Properties
  <2>3. CASE s.path = p /\ s.type = "added" /\ y = Absent /\ x = s.changed
    BY <2>1, <2>3, SignalFacts, AbsentAssumption
       DEF AbsentAssumption, Adding, Pairing
  <2>4. CASE s.path = p /\ s.type = "changed" /\ y # Absent /\ x = With(s.changed, y)
    <3>1. y \in Properties /\ s.changed \in Changes
      BY <2>1, <2>4, SignalFacts DEF States
    <3>2. /\ x.connected = IF "connected" \in DOMAIN s.changed THEN s.changed.connected ELSE y.connected
          /\ x.paired = IF "paired" \in DOMAIN s.changed THEN s.changed.paired ELSE y.paired
          /\ x \in Properties
      BY <2>4, <3>1, WithFields
    <3> QED BY <2>1, <2>4, <3>1, <3>2, AbsentAssumption DEF AbsentAssumption, Deciding, Pairing
  <2>5. CASE s.path = p /\ s.type = "removed" /\ y # Absent /\ x = Absent
    BY <2>1, <2>5 DEF Removing, Deciding
  <2>6. \/ s.path # p /\ x = y
        \/ s.path = p /\ s.type = "added" /\ y = Absent /\ x = s.changed
        \/ s.path = p /\ s.type = "changed" /\ y # Absent /\ x = With(s.changed, y)
        \/ s.path = p /\ s.type = "removed" /\ y # Absent /\ x = Absent
    BY <1>1 DEF Tells
  <2> QED BY <2>1, <2>2, <2>3, <2>4, <2>5, <2>6
<1>2. ASSUME v # Absent, o = Absent
      PROVE  InFlight(q, Removing(p))
  <2> DEFINE T == Properties
  <2>1. \A s, y, x : <<s, y, x>> \in Tells(p) /\ y \in T /\ x \notin T => s \in Removing(p)
    BY <1>1, AbsentAssumption DEF AbsentAssumption, States
  <2>2. v \in T /\ o \notin T
    BY <1>2, AbsentAssumption DEF AbsentAssumption, States
  <2> HIDE DEF T
  <2> QED BY <1>0, <2>1, <2>2, LeadsChange DEF InFlight
<1>3. ASSUME v = Absent, o # Absent
      PROVE  InFlight(q, Adding(p))
  <2> DEFINE T == {Absent}
  <2>1. \A s, y, x : <<s, y, x>> \in Tells(p) /\ y \in T /\ x \notin T => s \in Adding(p)
    BY <1>1
  <2>2. v \in T /\ o \notin T
    BY <1>3
  <2> HIDE DEF T
  <2> QED BY <1>0, <2>1, <2>2, LeadsChange DEF InFlight
<1>4. ASSUME v # Absent, ~(o # Absent /\ o.connected = v.connected)
      PROVE  InFlight(q, Deciding(p))
  <2> DEFINE T == {x \in States : x # Absent /\ x.connected = v.connected}
  <2>1. \A s, y, x : <<s, y, x>> \in Tells(p) /\ y \in T /\ x \notin T => s \in Deciding(p)
    BY <1>1
  <2>2. v \in T /\ o \notin T
    BY <1>4
  <2> HIDE DEF T
  <2> QED BY <1>0, <2>1, <2>2, LeadsChange DEF InFlight
<1>5. ASSUME o # Absent, o.paired, ~(v # Absent /\ v.paired)
      PROVE  InFlight(q, Pairing(p))
  <2> DEFINE T == {x \in States : ~(x # Absent /\ x.paired)}
  <2>1. \A s, y, x : <<s, y, x>> \in Tells(p) /\ y \in T /\ x \notin T => s \in Pairing(p)
    BY <1>1
  <2>2. v \in T /\ o \notin T
    BY <1>5
  <2> HIDE DEF T
  <2> QED BY <1>0, <2>1, <2>2, LeadsChange DEF InFlight
<1> QED BY <1>2, <1>3, <1>4, <1>5

-----------------------------------------------------------------------------
(* bluetoothd and the cache                                                *)

\* What bluetoothd does to a device reaches the cache by the signal it sends.
LEMMA BusSend ==
  ASSUME NEW p \in Paths, NEW q \in Seq(Signals), NEW s \in Signals, NEW c \in Pairs,
         NEW o \in States, NEW new \in States, NEW r \in BOOLEAN,
         Bus(p, o, q, c, r), <<s, o, new>> \in Tells(p)
  PROVE  Bus(p, new, Append(q, s), c, r)
<1> DEFINE p2 == Append(q, s)
<1>1. \A K : InFlight(p2, K) <=> InFlight(q, K) \/ s \in K
  BY InFlightFacts
<1>2. PICK v \in States : /\ Leads(Tells(p), States, q, v, o)
                          /\ c[2] # Absent => v # Absent /\ (c[2].connected => v.connected)
  BY DEF Bus
<1>3. Leads(Tells(p), States, p2, v, new)
  BY <1>2, LeadsOn
<1> HIDE DEF p2
<1>4. CASE s.path # p /\ new = o
  BY <1>1, <1>2, <1>3, <1>4 DEF Bus, p2
<1>5. CASE s.path = p /\ s.type = "added" /\ o = Absent /\ new = s.changed
  <2>1. s \in Adding(p) /\ s \in Deciding(p)
    BY <1>5 DEF Adding, Deciding
  <2>2. new # Absent /\ (new.paired => s \in Pairing(p))
    BY <1>5, SignalFacts, AbsentAssumption DEF AbsentAssumption, Pairing
  <2> QED BY <1>1, <1>2, <1>3, <2>1, <2>2 DEF Bus, p2
<1>6. CASE s.path = p /\ s.type = "changed" /\ o # Absent /\ new = With(s.changed, o)
  <2>1. o \in Properties /\ s.changed \in Changes
    BY <1>6, SignalFacts DEF States
  <2>2. /\ new.connected = IF "connected" \in DOMAIN s.changed THEN s.changed.connected ELSE o.connected
        /\ new.paired = IF "paired" \in DOMAIN s.changed THEN s.changed.paired ELSE o.paired
        /\ new # Absent
    BY <1>6, <2>1, WithFields, AbsentAssumption DEF AbsentAssumption
  <2>3. s \in Deciding(p) \/ new.connected = o.connected
    BY <1>6, <2>2 DEF Deciding
  <2>4. new.paired => s \in Pairing(p) \/ o.paired
    BY <1>6, <2>2 DEF Pairing
  <2> QED BY <1>1, <1>2, <1>3, <1>6, <2>2, <2>3, <2>4 DEF Bus, p2
<1>7. CASE s.path = p /\ s.type = "removed" /\ o # Absent /\ new = Absent
  <2>1. s \in Removing(p) /\ s \in Deciding(p)
    BY <1>7 DEF Removing, Deciding
  <2> QED BY <1>1, <1>2, <1>3, <1>7, <2>1 DEF Bus, p2
<1> QED BY <1>4, <1>5, <1>6, <1>7 DEF Tells

\* A reply, whether a command asked for it or an enumeration, is what bluetoothd knows.
LEMMA BusReply ==
  ASSUME NEW p \in Paths, NEW q \in Seq(Signals), NEW c \in Pairs, NEW o \in Properties,
         NEW r \in BOOLEAN, NEW r2 \in BOOLEAN, Bus(p, o, q, c, r),
         NEW i \in Infos, i.address \in Addresses,
         i.paired = o.paired, i.connected = o.connected
  PROVE  Bus(p, o, q, After(i, c), r2)
<1> DEFINE m == Joined(i, c)
<1>1. After(i, c) = <<m, Absent>> /\ m \in Infos /\ m # Absent /\ o # Absent
  BY JoinedType, KeyType, AbsentAssumption DEF After, AbsentAssumption
<1>2. PICK v \in States : /\ Leads(Tells(p), States, q, v, o)
                          /\ c[2] # Absent => v # Absent /\ (c[2].connected => v.connected)
  BY DEF Bus
<1>3. o.paired => m.paired
  BY JoinedType
<1>4. m.connected <=> o.connected \/ (c[2] # Absent /\ c[2].connected)
  BY DEF Joined
<1>5. m.connected \in BOOLEAN /\ o.connected \in BOOLEAN
  BY <1>1 DEF Infos, Properties
<1> HIDE DEF m
<1>6. InFlight(q, Deciding(p)) \/ m.connected = o.connected
  <2>1. v # Absent => InFlight(q, Deciding(p)) \/ o.connected = v.connected
    BY <1>1, <1>2, SignalsTell DEF States
  <2> QED BY <1>2, <1>4, <1>5, <2>1
<1> QED BY <1>1, <1>2, <1>3, <1>6 DEF Bus

\* A device that is gone may be forgotten.
LEMMA BusForget ==
  ASSUME NEW p, NEW q, NEW c, NEW r, Bus(p, Absent, q, c, r)
  PROVE  Bus(p, Absent, q, NoRecord, r)
BY DEF Bus, NoRecord

\* What handle_properties_changed makes of a signal and the record it finds.
Applied(s, c, i) ==
    /\ i.device_id = s.path /\ (i.address \in Addresses <=> c[1] # Absent)
    /\ "paired" \in DOMAIN s.changed => i.paired = s.changed.paired
    /\ i.connected = IF "connected" \in DOMAIN s.changed THEN s.changed.connected
                     ELSE IF c[1] # Absent THEN c[1].connected
                     ELSE c[2] # Absent /\ c[2].connected
    /\ DOMAIN s.changed = {} /\ c[1] # Absent => i = c[1]

\* The first signal takes the device from a state the cache may have heard of to another.
LEMMA BusHead ==
  ASSUME NEW p \in Paths, NEW q \in Seq(Signals), q # <<>>, NEW c \in Pairs, NEW o \in States,
         NEW r \in BOOLEAN, Bus(p, o, q, c, r)
  PROVE  /\ Tail(q) \in Seq(Signals) /\ Head(q) \in Signals
         /\ \E v, b \in States : /\ <<Head(q), v, b>> \in Tells(p)
                                 /\ Leads(Tells(p), States, Tail(q), b, o)
                                 /\ c[2] # Absent => v # Absent /\ (c[2].connected => v.connected)
<1>1. PICK u \in States : /\ Leads(Tells(p), States, q, u, o)
                          /\ c[2] # Absent => u # Absent /\ (c[2].connected => u.connected)
  BY DEF Bus
<1>2. PICK b \in States : <<Head(q), u, b>> \in Tells(p) /\ Leads(Tells(p), States, Tail(q), b, o)
  BY <1>1, LeadsAway
<1>3. Tail(q) \in Seq(Signals) /\ Head(q) \in Signals
  OBVIOUS
<1> QED BY <1>1, <1>2, <1>3, Zenon

\* A signal about another device tells the cache nothing of this one.
LEMMA BusOther ==
  ASSUME NEW p \in Paths, NEW q \in Seq(Signals), q # <<>>, NEW c \in Pairs, NEW o \in States,
         NEW r \in BOOLEAN, Bus(p, o, q, c, r), Head(q).path # p
  PROVE  Bus(p, o, Tail(q), c, r)
<1> DEFINE s == Head(q)
<1>1. PICK v \in States, b \in States :
        /\ <<s, v, b>> \in Tells(p)
        /\ Leads(Tells(p), States, Tail(q), b, o)
        /\ c[2] # Absent => v # Absent /\ (c[2].connected => v.connected)
  BY BusHead
<1> HIDE DEF s
<1>2. v = b
  <2>1. s.path # p
    BY DEF s
  <2> QED BY <1>1, <2>1 DEF Tells
<1>3. /\ InFlight(q, Adding(p)) => InFlight(Tail(q), Adding(p))
      /\ InFlight(q, Removing(p)) => InFlight(Tail(q), Removing(p))
      /\ InFlight(q, Deciding(p)) => InFlight(Tail(q), Deciding(p))
      /\ InFlight(q, Pairing(p)) => InFlight(Tail(q), Pairing(p))
  BY InFlightFacts DEF Adding, Removing, Deciding, Pairing
<1> QED BY <1>1, <1>2, <1>3 DEF Bus

\* The cache hears that the device is there, from the signal that says so.
LEMMA BusAdded ==
  ASSUME NEW p \in Paths, NEW q \in Seq(Signals), q # <<>>, NEW c \in Pairs, NEW o \in States,
         NEW r \in BOOLEAN, Bus(p, o, q, c, r), Head(q).path = p, Head(q).type = "added",
         NEW i \in Infos, i.address \in Addresses,
         i.paired = Head(q).changed.paired, i.connected = Head(q).changed.connected
  PROVE  Bus(p, o, Tail(q), After(i, c), r)
<1> DEFINE s == Head(q)
           w == Tail(q)
           m == Joined(i, c)
<1>1. After(i, c) = <<m, Absent>> /\ m \in Infos /\ m # Absent
  BY JoinedType, KeyType DEF After
<1>2. PICK v \in States, b \in States :
        /\ <<s, v, b>> \in Tells(p)
        /\ Leads(Tells(p), States, w, b, o)
        /\ c[2] # Absent => v # Absent /\ (c[2].connected => v.connected)
  BY BusHead
<1>3. s \in Signals /\ w \in Seq(Signals)
  BY BusHead
<1>4. s.type = "added" /\ s.path = p /\ i.paired = s.changed.paired /\ i.connected = s.changed.connected
  OBVIOUS
<1> HIDE DEF s, w
<1>5. v = Absent /\ b = s.changed /\ b \in Properties /\ b # Absent
  BY <1>2, <1>3, <1>4, SignalFacts, AbsentAssumption DEF Tells, AbsentAssumption
<1>6. c[2] = Absent
  BY <1>2, <1>5
<1>7. m.connected = b.connected /\ (b.paired => m.paired)
  <2>1. m.connected <=> i.connected
    BY <1>6 DEF Joined
  <2>2. m.connected \in BOOLEAN /\ i.connected \in BOOLEAN
    BY <1>1 DEF Infos
  <2> QED BY <1>4, <1>5, <2>1, <2>2, JoinedType
<1> HIDE DEF m
<1>8. Bus(p, o, w, <<m, Absent>>, r)
  BY <1>1, <1>2, <1>3, <1>5, <1>7, SignalsTell DEF Bus
<1> QED BY <1>1, <1>8 DEF w

\* The cache hears of a change.
LEMMA BusChanged ==
  ASSUME NEW p \in Paths, NEW q \in Seq(Signals), q # <<>>, NEW c \in Pairs, NEW o \in States,
         NEW r \in BOOLEAN, Bus(p, o, q, c, r), Head(q).path = p, Head(q).type = "changed",
         c[1] = Absent \/ c[2] = Absent,
         NEW i \in Infos, Applied(Head(q), c, i)
  PROVE  Bus(p, o, Tail(q), After(i, c), r)
<1> DEFINE s == Head(q)
           w == Tail(q)
           m == Joined(i, c)
<1>1. m \in Infos /\ m # Absent
  BY JoinedType, KeyType
<1>2. PICK v \in States, b \in States :
        /\ <<s, v, b>> \in Tells(p)
        /\ Leads(Tells(p), States, w, b, o)
        /\ c[2] # Absent => v # Absent /\ (c[2].connected => v.connected)
  BY BusHead
<1>3. s \in Signals /\ w \in Seq(Signals)
  BY BusHead
<1>4. s.type = "changed" /\ s.path = p /\ Applied(s, c, i)
  OBVIOUS
<1>5. \A K : InFlight(q, K) <=> s \in K \/ InFlight(w, K)
  BY InFlightFacts
<1> HIDE DEF s, w
<1>6. v # Absent /\ b = With(s.changed, v) /\ v \in Properties
  BY <1>2, <1>3, <1>4 DEF Tells, States
<1>7. /\ b.connected = IF "connected" \in DOMAIN s.changed THEN s.changed.connected ELSE v.connected
      /\ b \in Properties /\ b # Absent
  BY <1>3, <1>6, SignalFacts, WithFields, AbsentAssumption DEF AbsentAssumption
<1>8. s \notin Adding(p) /\ s \notin Removing(p)
  BY <1>4 DEF Adding, Removing
<1>9. m.connected <=> i.connected
  BY <1>4 DEF Joined, Applied
<1>10. m.connected \in BOOLEAN /\ i.connected \in BOOLEAN
  BY <1>1 DEF Infos
<1>11. CASE c[1] # Absent
  <2>1. After(i, c) = <<m, Absent>>
    BY <1>4, <1>11 DEF After, Applied
  <2>2. InFlight(w, Deciding(p)) \/ (o # Absent /\ m.connected = o.connected)
    <3>1. CASE "connected" \in DOMAIN s.changed
      <4>1. m.connected = b.connected
        BY <1>4, <1>7, <1>9, <1>10, <3>1 DEF Applied
      <4> QED BY <1>2, <1>3, <1>7, <4>1, SignalsTell
    <3>2. CASE "connected" \notin DOMAIN s.changed
      <4>1. m.connected = c[1].connected
        BY <1>4, <1>9, <1>10, <1>11, <3>2 DEF Applied
      <4>2. s \notin Deciding(p)
        BY <1>4, <3>2 DEF Deciding
      <4> QED BY <1>5, <1>11, <4>1, <4>2 DEF Bus
    <3> QED BY <3>1, <3>2
  <2>3. o # Absent /\ o.paired => m.paired \/ InFlight(w, Pairing(p))
    <3>1. s \in Pairing(p) => m.paired
      BY <1>4, JoinedType DEF Pairing, Applied
    <3>2. c[1].paired => m.paired
      BY <1>11 DEF Joined
    <3> QED BY <1>5, <1>11, <3>1, <3>2 DEF Bus
  <2> HIDE DEF m
  <2>4. Bus(p, o, w, <<m, Absent>>, r)
    BY <1>1, <1>2, <1>3, <1>7, <2>2, <2>3, SignalsTell DEF Bus
  <2> QED BY <2>1, <2>4 DEF w
<1>12. CASE c[1] = Absent
  <2>1. After(i, c) = <<Absent, m>>
    BY <1>4, <1>12 DEF After, Applied
  <2>2. m.connected => b.connected
    <3>1. CASE "connected" \in DOMAIN s.changed
      BY <1>4, <1>7, <1>9, <3>1 DEF Applied
    <3>2. CASE "connected" \notin DOMAIN s.changed
      <4>1. m.connected => c[2] # Absent /\ c[2].connected
        BY <1>4, <1>9, <1>12, <3>2 DEF Applied
      <4> QED BY <1>2, <1>7, <3>2, <4>1
    <3> QED BY <3>1, <3>2
  <2>3. r /\ o # Absent => InFlight(w, Adding(p))
    BY <1>5, <1>8, <1>12 DEF Bus
  <2> HIDE DEF m
  <2>4. Bus(p, o, w, <<Absent, m>>, r)
    BY <1>1, <1>2, <1>3, <1>7, <2>2, <2>3, SignalsTell DEF Bus
  <2> QED BY <2>1, <2>4 DEF w
<1> QED BY <1>11, <1>12

\* The cache hears that the device is gone.
LEMMA BusRemoved ==
  ASSUME NEW p \in Paths, NEW q \in Seq(Signals), q # <<>>, NEW c \in Pairs, NEW o \in States,
         NEW r \in BOOLEAN, Bus(p, o, q, c, r), Head(q).path = p, Head(q).type = "removed"
  PROVE  Bus(p, o, Tail(q), NoRecord, r)
<1> DEFINE s == Head(q)
<1>1. PICK v \in States, b \in States :
        /\ <<s, v, b>> \in Tells(p)
        /\ Leads(Tells(p), States, Tail(q), b, o)
  BY BusHead
<1>2. s.path = p /\ s.type = "removed"
  OBVIOUS
<1> HIDE DEF s
<1>3. b = Absent
  BY <1>1, <1>2 DEF Tells
<1>4. Leads(Tells(p), States, Tail(q), Absent, o) /\ Absent \in States /\ Tail(q) \in Seq(Signals)
  BY <1>1, <1>3, BusHead DEF States
<1>5. o # Absent => InFlight(Tail(q), Adding(p))
  BY <1>4, SignalsTell
<1> QED BY <1>4, <1>5 DEF Bus, NoRecord

-----------------------------------------------------------------------------
(* The node and the cache                                                  *)

\* What the worker emits about devices are such events, and so are the queued ones.
LEMMA GoodDeviceEvents ==
  /\ \A k \in Keys : Removed(k) \in GoodEvents /\ PairingSucceeded(k) \in GoodEvents
  /\ \A k \in Addresses, b \in BOOLEAN : Connection(k, b) \in GoodEvents
  /\ \A R : PlainEvents(R) \subseteq GoodEvents /\ Seq(PlainEvents(R)) \subseteq Seq(GoodEvents)
  /\ <<>> \in Seq(GoodEvents) /\ \A e \in GoodEvents : <<e>> \in Seq(GoodEvents)
<1>1. \A R : PlainEvents(R) \subseteq GoodEvents
  BY DEF PlainEvents
<1> QED BY <1>1 DEF Removed, PairingSucceeded, Connection, GoodEvents, Events

\* An event is queued, after which the node would have another pair.
LEMMA ToldMore ==
  ASSUME NEW p \in Paths, NEW eq \in Seq(GoodEvents), NEW e \in GoodEvents, NEW x \in Pairs,
         NEW y \in Pairs, NEW z \in Pairs, Leads(Hears(p), Pairs, eq, x, y), <<e, y, z>> \in Hears(p),
         NEW q, NEW c, NEW r, NEW n, Settled(p, q, c, z, r, n)
  PROVE  Told(p, q, c, Append(eq, e), x, r, n)
<1>1. Leads(Hears(p), Pairs, Append(eq, e), x, z)
  BY LeadsOn
<1> QED BY <1>1 DEF Told

\* An event about another device is queued.
LEMMA ToldNothing ==
  ASSUME NEW p \in Paths, NEW eq \in Seq(GoodEvents), NEW e \in GoodEvents, NEW x \in Pairs,
         NEW q, NEW c, NEW r, NEW n, Told(p, q, c, eq, x, r, n),
         \A y \in Pairs : <<e, y, y>> \in Hears(p)
  PROVE  Told(p, q, c, Append(eq, e), x, r, n)
<1>1. PICK z \in Pairs : Leads(Hears(p), Pairs, eq, x, z) /\ Settled(p, q, c, z, r, n)
  BY DEF Told
<1> QED BY <1>1, ToldMore

\* The record an event brings is merged into the pair of its device, and into no other.
LEMMA HearsFound ==
  ASSUME NEW p \in Paths, NEW i \in Infos, NEW x \in Pairs
  PROVE  /\ Found(i) \in GoodEvents
         /\ i.device_id = p => <<Found(i), x, After(i, x)>> \in Hears(p)
         /\ i.device_id # p => <<Found(i), x, x>> \in Hears(p)
<1>1. /\ Found(i) \in GoodEvents /\ Found(i).type = "DEVICE_FOUND"
      /\ Brought(Found(i)) = {i}
  BY DEF Found, GoodEvents, Events, Brought
<1>2. After(i, x) \in Pairs
  BY JoinedType
<1> HIDE DEF Found
<1> QED BY <1>1, <1>2 DEF Hears

\* A flag that is set leaves the other one, and the record, as they are.
LEMMA FlaggedType ==
  ASSUME NEW i \in Infos \cup {Absent}, NEW hit \in BOOLEAN, NEW b \in BOOLEAN
  PROVE  /\ Flagged(i, hit, "connected", b) \in Infos \cup {Absent}
         /\ Flagged(i, hit, "paired", b) \in Infos \cup {Absent}
         /\ Flagged(i, FALSE, "connected", b) = i /\ Flagged(i, FALSE, "paired", b) = i
         /\ Flagged(i, hit, "connected", b) = Absent <=> i = Absent
         /\ Flagged(i, hit, "paired", b) = Absent <=> i = Absent
         /\ i # Absent => /\ Flagged(i, TRUE, "connected", b).connected = b
                          /\ Flagged(i, hit, "connected", b).paired = i.paired
                          /\ Flagged(i, TRUE, "paired", b).paired = b
                          /\ Flagged(i, hit, "paired", b).connected = i.connected
<1>1. CASE i = Absent
  BY <1>1 DEF Flagged
<1>2. CASE i # Absent
  <2>1. i \in Infos
    BY <1>2
  <2>2. /\ [i EXCEPT !["connected"] = b] \in Infos /\ [i EXCEPT !["paired"] = b] \in Infos
    BY <2>1, FlagType
  <2>3. /\ [i EXCEPT !["connected"] = b].connected = b
        /\ [i EXCEPT !["connected"] = b].paired = i.paired
        /\ [i EXCEPT !["paired"] = b].paired = b
        /\ [i EXCEPT !["paired"] = b].connected = i.connected
    BY <2>1 DEF Infos
  <2>4. Absent \notin Infos
    BY AbsentAssumption DEF AbsentAssumption
  <2> QED BY <2>1, <2>2, <2>3, <2>4 DEF Flagged
<1> QED BY <1>1, <1>2

\* Only the device that an event about a flag names hears it.
LEMMA HearsFlags ==
  ASSUME NEW p \in Paths, NEW x \in Pairs, NEW b \in BOOLEAN
  PROVE  /\ <<Connection(AddressOf[p], b), x, <<Flagged(x[1], TRUE, "connected", b), x[2]>> >> \in Hears(p)
         /\ \A k \in Addresses \ {AddressOf[p]} : <<Connection(k, b), x, x>> \in Hears(p)
         /\ \A k \in {AddressOf[p], p} :
              <<PairingSucceeded(k), x, <<Flagged(x[1], TRUE, "paired", TRUE),
                                          Flagged(x[2], k = p, "paired", TRUE)>> >> \in Hears(p)
         /\ \A k \in Keys \ {AddressOf[p], p} : <<PairingSucceeded(k), x, x>> \in Hears(p)
<1>1. /\ AddressOf[p] \in Addresses /\ AddressOf[p] \in Keys /\ p \in Keys /\ p # AddressOf[p]
      /\ \A k \in Addresses : k # p
      /\ x[1] \in Infos \cup {Absent} /\ x[2] \in Infos \cup {Absent} /\ x = <<x[1], x[2]>>
  BY TwoKeys DEF Pairs
<1>2. ASSUME NEW k \in Addresses
      PROVE  /\ Connection(k, b) \in GoodEvents /\ Connection(k, b).type = "CONNECTION_CHANGED"
             /\ Connection(k, b).address = k /\ Connection(k, b).connected = b
  BY GoodDeviceEvents DEF Connection
<1>3. ASSUME NEW k \in Keys
      PROVE  /\ PairingSucceeded(k) \in GoodEvents /\ PairingSucceeded(k).type = "PAIRING_SUCCEEDED"
             /\ PairingSucceeded(k).address = k
  BY GoodDeviceEvents DEF PairingSucceeded
<1>4. /\ Flagged(x[2], FALSE, "connected", b) = x[2] /\ Flagged(x[1], FALSE, "connected", b) = x[1]
      /\ Flagged(x[2], FALSE, "paired", TRUE) = x[2] /\ Flagged(x[1], FALSE, "paired", TRUE) = x[1]
      /\ Flagged(x[1], TRUE, "connected", b) \in Infos \cup {Absent}
      /\ Flagged(x[1], TRUE, "paired", TRUE) \in Infos \cup {Absent}
      /\ \A hit \in BOOLEAN : Flagged(x[2], hit, "paired", TRUE) \in Infos \cup {Absent}
  <2>1. \A i \in Infos \cup {Absent} :
          /\ Flagged(i, FALSE, "connected", b) = i /\ Flagged(i, FALSE, "paired", TRUE) = i
          /\ Flagged(i, TRUE, "connected", b) \in Infos \cup {Absent}
          /\ \A hit \in BOOLEAN : Flagged(i, hit, "paired", TRUE) \in Infos \cup {Absent}
    <3> TAKE i \in Infos \cup {Absent}
    <3>1. Flagged(i, FALSE, "connected", b) = i /\ Flagged(i, FALSE, "paired", TRUE) = i
      BY DEF Flagged
    <3>2. Flagged(i, TRUE, "connected", b) \in Infos \cup {Absent}
      BY FlaggedType
    <3>3. ASSUME NEW hit \in BOOLEAN
          PROVE  Flagged(i, hit, "paired", TRUE) \in Infos \cup {Absent}
      BY FlaggedType
    <3> QED BY <3>1, <3>2, <3>3
  <2> QED BY <1>1, <2>1
<1>5. <<Connection(AddressOf[p], b), x, <<Flagged(x[1], TRUE, "connected", b), x[2]>> >> \in Hears(p)
  <2> DEFINE e == Connection(AddressOf[p], b)
             y == <<Flagged(x[1], TRUE, "connected", b), x[2]>>
  <2>1. e \in GoodEvents /\ e.type = "CONNECTION_CHANGED" /\ e.address = AddressOf[p] /\ e.connected = b
    BY <1>1, <1>2
  <2> HIDE DEF e
  <2>2. y = <<Flagged(x[1], e.address \in {AddressOf[p], p}, "connected", e.connected),
              Flagged(x[2], e.address = p, "connected", e.connected)>>
    <3>1. (e.address \in {AddressOf[p], p}) = TRUE /\ (e.address = p) = FALSE
      BY <1>1, <2>1
    <3> QED BY <1>4, <2>1, <3>1
  <2>3. y \in Pairs
    BY <1>1, <1>4 DEF Pairs
  <2> HIDE DEF y
  <2>4. <<e, x, y>> \in Hears(p)
    BY <2>1, <2>2, <2>3 DEF Hears
  <2> QED BY <2>4 DEF e, y
<1>6. ASSUME NEW k \in Addresses \ {AddressOf[p]}
      PROVE  <<Connection(k, b), x, x>> \in Hears(p)
  <2> DEFINE e == Connection(k, b)
  <2>1. e \in GoodEvents /\ e.type = "CONNECTION_CHANGED" /\ e.address = k /\ e.connected = b
    BY <1>2
  <2> HIDE DEF e
  <2>2. x = <<Flagged(x[1], e.address \in {AddressOf[p], p}, "connected", e.connected),
              Flagged(x[2], e.address = p, "connected", e.connected)>>
    <3>1. (e.address \in {AddressOf[p], p}) = FALSE /\ (e.address = p) = FALSE
      BY <1>1, <2>1
    <3> QED BY <1>1, <1>4, <2>1, <3>1
  <2>3. <<e, x, x>> \in Hears(p)
    BY <2>1, <2>2 DEF Hears
  <2> QED BY <2>3 DEF e
<1>7. ASSUME NEW k \in {AddressOf[p], p}
      PROVE  <<PairingSucceeded(k), x, <<Flagged(x[1], TRUE, "paired", TRUE),
                                         Flagged(x[2], k = p, "paired", TRUE)>> >> \in Hears(p)
  <2> DEFINE e == PairingSucceeded(k)
             y == <<Flagged(x[1], TRUE, "paired", TRUE), Flagged(x[2], k = p, "paired", TRUE)>>
  <2>1. e \in GoodEvents /\ e.type = "PAIRING_SUCCEEDED" /\ e.address = k
    BY <1>1, <1>3
  <2> HIDE DEF e
  <2>2. y = <<Flagged(x[1], e.address \in {AddressOf[p], p}, "paired", TRUE),
              Flagged(x[2], e.address = p, "paired", TRUE)>>
    <3>1. (e.address \in {AddressOf[p], p}) = TRUE
      BY <1>1, <2>1
    <3> QED BY <2>1, <3>1
  <2>3. y \in Pairs
    BY <1>1, <1>4 DEF Pairs
  <2> HIDE DEF y
  <2>4. <<e, x, y>> \in Hears(p)
    BY <2>1, <2>2, <2>3 DEF Hears
  <2> QED BY <2>4 DEF e, y
<1>8. ASSUME NEW k \in Keys \ {AddressOf[p], p}
      PROVE  <<PairingSucceeded(k), x, x>> \in Hears(p)
  <2> DEFINE e == PairingSucceeded(k)
  <2>1. e \in GoodEvents /\ e.type = "PAIRING_SUCCEEDED" /\ e.address = k
    BY <1>3
  <2> HIDE DEF e
  <2>2. x = <<Flagged(x[1], e.address \in {AddressOf[p], p}, "paired", TRUE),
              Flagged(x[2], e.address = p, "paired", TRUE)>>
    <3>1. (e.address \in {AddressOf[p], p}) = FALSE /\ (e.address = p) = FALSE
      BY <1>1, <2>1
    <3> QED BY <1>1, <1>4, <2>1, <3>1
  <2>3. <<e, x, x>> \in Hears(p)
    BY <2>1, <2>2 DEF Hears
  <2> QED BY <2>3 DEF e
<1> QED BY <1>5, <1>6, <1>7, <1>8

\* A removal concerns the record under the key it names.
LEMMA HearsRemoved ==
  ASSUME NEW p \in Paths, NEW x \in Pairs
  PROVE  /\ <<Removed(AddressOf[p]), x, <<Absent, x[2]>> >> \in Hears(p)
         /\ <<Removed(p), x, <<x[1], Absent>> >> \in Hears(p)
         /\ \A k \in Keys \ {AddressOf[p], p} : <<Removed(k), x, x>> \in Hears(p)
<1>1. /\ AddressOf[p] \in Keys /\ p \in Keys /\ p # AddressOf[p]
      /\ x[1] \in Infos \cup {Absent} /\ x[2] \in Infos \cup {Absent} /\ x = <<x[1], x[2]>>
  BY TwoKeys DEF Pairs
<1>2. ASSUME NEW k \in Keys
      PROVE  <<Removed(k), x, <<IF k = AddressOf[p] THEN Absent ELSE x[1],
                                IF k = p THEN Absent ELSE x[2]>> >> \in Hears(p)
  <2> DEFINE e == Removed(k)
             y == <<IF k = AddressOf[p] THEN Absent ELSE x[1], IF k = p THEN Absent ELSE x[2]>>
  <2>1. e \in GoodEvents /\ e.type = "DEVICE_REMOVED" /\ e.address = k
    BY GoodDeviceEvents DEF Removed
  <2> HIDE DEF e
  <2>2. y = <<IF e.address = AddressOf[p] THEN Absent ELSE x[1], IF e.address = p THEN Absent ELSE x[2]>>
    BY <2>1
  <2>3. y \in Pairs
    BY <1>1 DEF Pairs
  <2> HIDE DEF y
  <2>4. <<e, x, y>> \in Hears(p)
    BY <2>1, <2>2, <2>3 DEF Hears
  <2> QED BY <2>4 DEF e, y
<1>3. <<Removed(AddressOf[p]), x, <<Absent, x[2]>> >> \in Hears(p)
  BY <1>1, <1>2
<1>4. <<Removed(p), x, <<x[1], Absent>> >> \in Hears(p)
  BY <1>1, <1>2
<1>5. \A k \in Keys \ {AddressOf[p], p} : <<Removed(k), x, x>> \in Hears(p)
  BY <1>1, <1>2
<1> QED BY <1>3, <1>4, <1>5

\* The connection changes in a way that makes no promise void.
LEMMA ToldStill ==
  ASSUME NEW p, NEW q, NEW q2, NEW c, NEW eq, NEW x, NEW r, NEW n, Told(p, q, c, eq, x, r, n),
         InFlight(q, Deciding(p)) => InFlight(q2, Deciding(p)),
         InFlight(q, Adding(p)) => InFlight(q2, Adding(p))
  PROVE  Told(p, q2, c, eq, x, r, n)
<1>1. PICK z \in Pairs : Leads(Hears(p), Pairs, eq, x, z) /\ Settled(p, q, c, z, r, n)
  BY DEF Told
<1>2. Settled(p, q2, c, z, r, n)
  BY <1>1 DEF Settled
<1> QED BY <1>1, <1>2 DEF Told

\* The node is told of a record with its MAC as the cache has it.
LEMMA ToldRecord ==
  ASSUME NEW p \in Paths, NEW eq \in Seq(GoodEvents), NEW x \in Pairs, NEW q, NEW c, NEW r, NEW n,
         Told(p, q, c, eq, x, r, n), NEW m \in Infos, m.device_id = p, m.address \in Addresses,
         NEW e \in GoodEvents, \A y \in Pairs : <<e, y, After(m, y)>> \in Hears(p),
         NEW q2, NEW r2
  PROVE  Told(p, q2, <<m, Absent>>, Append(eq, e), x, r2, n)
<1>1. PICK z \in Pairs : Leads(Hears(p), Pairs, eq, x, z) /\ Settled(p, q, c, z, r, n)
  BY DEF Told
<1>2. /\ <<e, z, After(m, z)>> \in Hears(p)
      /\ After(m, z) \in Pairs /\ After(m, z) = <<Joined(m, z), Absent>>
      /\ Joined(m, z) \in Infos /\ m # Absent /\ Joined(m, z) # Absent
  BY JoinedType, KeyType DEF After
<1>3. /\ m.paired => Joined(m, z).paired
      /\ m.connected => Joined(m, z).connected
  BY JoinedType
<1>4. Joined(m, z).connected => m.connected \/ n
  <2>1. Joined(m, z).connected => m.connected \/ z[2] # Absent
    BY DEF Joined
  <2> QED BY <1>1, <2>1 DEF Settled
<1>5. Settled(p, q2, <<m, Absent>>, <<Joined(m, z), Absent>>, r2, n)
  BY <1>2, <1>3, <1>4 DEF Settled
<1> QED BY <1>1, <1>2, <1>5, ToldMore

\* So it is by an upsert's event.
LEMMA ToldFound ==
  ASSUME NEW p \in Paths, NEW eq \in Seq(GoodEvents), NEW x \in Pairs, NEW q, NEW c, NEW r, NEW n,
         Told(p, q, c, eq, x, r, n), NEW m \in Infos, m.device_id = p, m.address \in Addresses,
         NEW q2, NEW r2
  PROVE  Told(p, q2, <<m, Absent>>, Append(eq, Found(m)), x, r2, n)
BY HearsFound, ToldRecord

\* The node is told whether the device is connected, as the cache has it.
LEMMA ToldConnection ==
  ASSUME NEW p \in Paths, NEW eq \in Seq(GoodEvents), NEW x \in Pairs, NEW q, NEW c, NEW r, NEW n,
         Told(p, q, c, eq, x, r, n), NEW b \in BOOLEAN,
         c[1] # Absent => InFlight(q, Deciding(p)) \/ c[1].connected = b
  PROVE  Told(p, q, c, Append(eq, Connection(AddressOf[p], b)), x, r, n)
<1>1. PICK z \in Pairs : Leads(Hears(p), Pairs, eq, x, z) /\ Settled(p, q, c, z, r, n)
  BY DEF Told
<1> DEFINE f == Flagged(z[1], TRUE, "connected", b)
           y == <<f, z[2]>>
<1>2. z[1] \in Infos \cup {Absent} /\ z[2] \in Infos \cup {Absent}
  BY DEF Pairs
<1>3. /\ f \in Infos \cup {Absent} /\ (f = Absent <=> z[1] = Absent)
      /\ z[1] # Absent => f.connected = b /\ f.paired = z[1].paired
  <2> DEFINE i == z[1]
  <2>1. i \in Infos \cup {Absent}
    BY <1>2
  <2> HIDE DEF i
  <2> DEFINE j == [i EXCEPT !["connected"] = b]
  <2>2. i \in Infos => j \in Infos /\ j.connected = b /\ j.paired = i.paired
    BY DEF Infos
  <2>3. f = IF i # Absent THEN j ELSE Absent
    BY DEF Flagged, i
  <2> HIDE DEF j, f
  <2>4. f \in Infos \cup {Absent} /\ (f = Absent <=> i = Absent)
    BY <2>1, <2>2, <2>3, AbsentAssumption DEF AbsentAssumption
  <2>5. i # Absent => f.connected = b /\ f.paired = i.paired
    BY <2>1, <2>2, <2>3
  <2> QED BY <2>4, <2>5 DEF i
<1>4. <<Connection(AddressOf[p], b), z, y>> \in Hears(p)
  BY HearsFlags
<1>5. Connection(AddressOf[p], b) \in GoodEvents
  BY TwoKeys, GoodDeviceEvents
<1> HIDE DEF f
<1>6. y \in Pairs /\ Settled(p, q, c, y, r, n)
  BY <1>1, <1>2, <1>3 DEF Settled, Pairs
<1> HIDE DEF y
<1> QED BY <1>1, <1>4, <1>5, <1>6, ToldMore

\* The node is told that a device is paired, by whatever name.
LEMMA ToldPaired ==
  ASSUME NEW p \in Paths, NEW eq \in Seq(GoodEvents), NEW x \in Pairs, NEW q, NEW c, NEW r, NEW n,
         Told(p, q, c, eq, x, r, n), NEW k \in Keys
  PROVE  Told(p, q, c, Append(eq, PairingSucceeded(k)), x, r, n)
<1>0. PairingSucceeded(k) \in GoodEvents
  BY GoodDeviceEvents
<1>1. CASE k \in {AddressOf[p], p}
  <2>1. PICK z \in Pairs : Leads(Hears(p), Pairs, eq, x, z) /\ Settled(p, q, c, z, r, n)
    BY DEF Told
  <2> DEFINE f == Flagged(z[1], TRUE, "paired", TRUE)
             g == Flagged(z[2], k = p, "paired", TRUE)
             y == <<f, g>>
  <2>2. z[1] \in Infos \cup {Absent} /\ z[2] \in Infos \cup {Absent}
    BY DEF Pairs
  <2>3. /\ f \in Infos \cup {Absent} /\ (f = Absent <=> z[1] = Absent)
        /\ z[1] # Absent => f.paired = TRUE /\ f.connected = z[1].connected
    BY <2>2, FlaggedType
  <2>4. g \in Infos \cup {Absent} /\ (g = Absent <=> z[2] = Absent)
    BY <2>2, FlaggedType
  <2>5. <<PairingSucceeded(k), z, y>> \in Hears(p)
    BY <1>1, HearsFlags
  <2> HIDE DEF f, g
  <2>6. y \in Pairs /\ Settled(p, q, c, y, r, n)
    BY <2>1, <2>2, <2>3, <2>4 DEF Settled, Pairs
  <2> HIDE DEF y
  <2> QED BY <1>0, <2>1, <2>5, <2>6, ToldMore
<1>2. CASE k \notin {AddressOf[p], p}
  BY <1>0, <1>2, HearsFlags, ToldNothing
<1> QED BY <1>1, <1>2

\* The node is told that the record the cache has removed is gone.
LEMMA ToldRemoved ==
  ASSUME NEW p \in Paths, NEW eq \in Seq(GoodEvents), NEW x \in Pairs, NEW q, NEW c, NEW r, NEW n,
         Told(p, q, c, eq, x, r, n), NEW k \in {AddressOf[p], p}, k = p => c[1] = Absent,
         NEW q2
  PROVE  Told(p, q2, NoRecord, Append(eq, Removed(k)), x, r, n)
<1>1. PICK z \in Pairs : Leads(Hears(p), Pairs, eq, x, z) /\ Settled(p, q, c, z, r, n)
  BY DEF Told
<1> DEFINE y == IF k = p THEN <<z[1], Absent>> ELSE <<Absent, z[2]>>
<1>2. <<Removed(k), z, y>> \in Hears(p)
  BY HearsRemoved, TwoKeys
<1>3. Removed(k) \in GoodEvents
  BY TwoKeys, GoodDeviceEvents
<1>4. y \in Pairs /\ Settled(p, q2, NoRecord, y, r, n)
  BY <1>1 DEF Settled, Pairs, NoRecord
<1> HIDE DEF y
<1> QED BY <1>1, <1>2, <1>3, <1>4, ToldMore

\* The cache has nothing of the device, so the node has none with its MAC to lose.
LEMMA ToldForgotten ==
  ASSUME NEW p, NEW eq, NEW x, NEW q, NEW c, NEW r, NEW n, Told(p, q, c, eq, x, r, n),
         c = NoRecord, NEW q2
  PROVE  Told(p, q2, c, eq, x, r, n)
<1>1. PICK z \in Pairs : Leads(Hears(p), Pairs, eq, x, z) /\ Settled(p, q, c, z, r, n)
  BY DEF Told
<1>2. Settled(p, q2, c, z, r, n)
  BY <1>1 DEF Settled, NoRecord
<1> QED BY <1>1, <1>2 DEF Told

\* A device that the cache learns of without an event: the signal that brings it is to come.
LEMMA ToldLearned ==
  ASSUME NEW p, NEW eq, NEW x, NEW q, NEW c, NEW r, NEW n, Told(p, q, c, eq, x, r, n),
         c[1] = Absent, NEW m \in Infos, r => InFlight(q, Adding(p))
  PROVE  Told(p, q, <<m, Absent>>, eq, x, r, n)
<1>1. PICK z \in Pairs : Leads(Hears(p), Pairs, eq, x, z) /\ Settled(p, q, c, z, r, n)
  BY DEF Told
<1>2. Settled(p, q, <<m, Absent>>, z, r, n)
  BY <1>1 DEF Settled
<1> QED BY <1>1, <1>2 DEF Told

\* A device that is known by its path only makes the lists inexact.
LEMMA ToldNameless ==
  ASSUME NEW p \in Paths, NEW eq \in Seq(GoodEvents), NEW x \in Pairs, NEW q, NEW c, NEW r, NEW n,
         Told(p, q, c, eq, x, r, n), c[1] = Absent, NEW m \in Infos, m.device_id = p,
         m.address \notin Addresses, NEW m2, NEW q2
  PROVE  /\ Told(p, q2, <<Absent, m2>>, Append(eq, Found(m)), x, r, TRUE)
         /\ Told(p, q2, <<Absent, m2>>, eq, x, r, TRUE)
<1>1. PICK z \in Pairs : Leads(Hears(p), Pairs, eq, x, z) /\ Settled(p, q, c, z, r, n)
  BY DEF Told
<1>2. /\ Found(m) \in GoodEvents /\ <<Found(m), z, After(m, z)>> \in Hears(p)
      /\ After(m, z) \in Pairs /\ After(m, z) = <<Absent, Joined(m, z)>>
  BY HearsFound, JoinedType DEF After
<1>3. /\ Settled(p, q2, <<Absent, m2>>, <<Absent, Joined(m, z)>>, r, TRUE)
      /\ Settled(p, q2, <<Absent, m2>>, z, r, TRUE)
  BY <1>1 DEF Settled
<1>4. Told(p, q2, <<Absent, m2>>, Append(eq, Found(m)), x, r, TRUE)
  BY <1>1, <1>2, <1>3, ToldMore
<1> QED BY <1>1, <1>3, <1>4 DEF Told

\* A node that was told of a device by its path was so of any.
LEMMA ToldOfNameless ==
  ASSUME NEW p, NEW eq, NEW x, NEW q, NEW c, NEW r, NEW n, Told(p, q, c, eq, x, r, n)
  PROVE  Told(p, q, c, eq, x, r, TRUE)
<1>1. PICK z \in Pairs : Leads(Hears(p), Pairs, eq, x, z) /\ Settled(p, q, c, z, r, n)
  BY DEF Told
<1>2. Settled(p, q, c, z, r, TRUE)
  BY <1>1 DEF Settled
<1> QED BY <1>1, <1>2 DEF Told

-----------------------------------------------------------------------------
(* The cache's pair of a device                                            *)

\* Of a device the cache has one record at most, and finds it by the path.
LEMMA CachedTwo ==
  ASSUME CacheInv, NEW p \in Paths, p \notin readdressed
  PROVE  /\ Two(discovered, p) \in Pairs
         /\ Two(discovered, p)[1] = discovered[AddressOf[p]] /\ Two(discovered, p)[2] = discovered[p]
         /\ discovered[AddressOf[p]] = Absent \/ discovered[p] = Absent
         /\ discovered[AddressOf[p]] # Absent => /\ discovered[AddressOf[p]] \in Infos
                                                 /\ discovered[AddressOf[p]].device_id = p
                                                 /\ discovered[AddressOf[p]].address = AddressOf[p]
         /\ discovered[p] # Absent => /\ discovered[p] \in Infos /\ discovered[p].device_id = p
                                      /\ discovered[p].address = p
         /\ FindById(p) = IF discovered[AddressOf[p]] # Absent THEN AddressOf[p]
                          ELSE IF discovered[p] # Absent THEN p ELSE Absent
<1>1. discovered \in Tables /\ discovered \in PlainTables(readdressed) /\ Tidy(discovered)
  BY DEF CacheInv, CacheType
<1>2. /\ Two(discovered, p) \in Pairs
      /\ Two(discovered, p)[1] = discovered[AddressOf[p]] /\ Two(discovered, p)[2] = discovered[p]
  BY <1>1, TwoKeys DEF Two
<1>3. /\ discovered[AddressOf[p]] = Absent \/ discovered[p] = Absent
      /\ discovered[AddressOf[p]] # Absent => /\ discovered[AddressOf[p]] \in Infos
                                              /\ discovered[AddressOf[p]].device_id = p
                                              /\ discovered[AddressOf[p]].address = AddressOf[p]
      /\ discovered[p] # Absent => /\ discovered[p] \in Infos /\ discovered[p].device_id = p
                                   /\ discovered[p].address = p
  BY <1>1, TidyTwo
<1>4. \A k \in Keys : discovered[k] # Absent /\ discovered[k].device_id = p => k \in {AddressOf[p], p}
  BY <1>1, SteadyKeys
<1>5. FindById(p) = IF discovered[AddressOf[p]] # Absent THEN AddressOf[p]
                    ELSE IF discovered[p] # Absent THEN p ELSE Absent
  <2>1. AddressOf[p] \in Keys /\ p \in Keys
    BY TwoKeys
  <2>2. CASE FindById(p) = Absent
    <3>1. \A k \in Keys : discovered[k] # Absent => discovered[k].device_id # p
      BY <2>2, FindByIdFinds
    <3> QED BY <1>3, <2>1, <2>2, <3>1
  <2>3. CASE FindById(p) # Absent
    <3>1. FindById(p) \in Keys /\ discovered[FindById(p)] \in Infos /\ discovered[FindById(p)].device_id = p
      BY <2>3, FindByIdFinds
    <3>2. discovered[FindById(p)] # Absent
      BY <3>1, KeyType
    <3> QED BY <1>3, <1>4, <3>1, <3>2
  <2> QED BY <2>2, <2>3
<1> QED BY <1>2, <1>3, <1>5

\* A record is upserted: its device's pair is joined with it, and the event tells of that.
LEMMA CacheUpsertTwo ==
  ASSUME CacheInv, NEW i \in Plain(readdressed), CacheUpsert({i})
  PROVE  /\ \A p \in Steady \ {i.device_id} : Two(discovered', p) = Two(discovered, p)
         /\ \E m \in Infos : FoundAfter(i) = Found(m) /\ m.device_id = i.device_id
         /\ i.device_id \notin readdressed
              => /\ Two(discovered', i.device_id) = After(i, Two(discovered, i.device_id))
                 /\ FoundAfter(i) = Found(Joined(i, Two(discovered, i.device_id)))
<1>1. /\ discovered \in Tables /\ discovered \in PlainTables(readdressed) /\ Tidy(discovered)
      /\ {i} \in SUBSET Plain(readdressed) /\ Distinct({i}) /\ i \in Infos
  BY OneIsDistinct DEF CacheInv, CacheType, Plain
<1>2. discovered' = Upserted(discovered, {i})
  BY DEF CacheUpsert
<1>3. i.device_id \in Paths /\ Key(i) \in Keys
  BY <1>1, KeyType
<1>4. i.device_id \notin readdressed
        => Two(discovered', i.device_id) = After(i, Two(discovered, i.device_id))
  BY <1>1, <1>2, <1>3, UpsertedTwo
<1>5. \A p \in Steady \ {i.device_id} : Two(discovered', p) = Two(discovered, p)
  BY <1>1, <1>2, UpsertedTwo DEF Steady
<1>6. Upserted(discovered, {i})[Key(i)] = Merged(discovered, i)
  <2>1. (CHOOSE j \in {i} : Key(j) = Key(i)) = i
    OBVIOUS
  <2> QED BY <1>3, <2>1 DEF Upserted
<1>7. FoundAfter(i) = Found(Merged(discovered, i))
  BY <1>6 DEF FoundAfter
<1>8. Merged(discovered, i) \in Infos /\ Merged(discovered, i).device_id = i.device_id
  BY <1>1, MergedType
<1> QED BY <1>1, <1>4, <1>5, <1>7, <1>8, MergedPair

\* A key is removed: the device that has it loses the record there, and no other does.
LEMMA CacheRemoveTwo ==
  ASSUME CacheInv, NEW p \in Paths, NEW k \in {AddressOf[p], p}, NEW a, CacheRemove(k, a),
         k = AddressOf[p] => discovered[p] = Absent,
         k = p => discovered[AddressOf[p]] = Absent
  PROVE  /\ Two(discovered', p) = NoRecord
         /\ \A o \in Paths \ {p} : Two(discovered', o) = Two(discovered, o)
<1>1. /\ k \in Keys /\ AddressOf[p] \in Keys /\ p \in Keys /\ p # AddressOf[p]
  BY TwoKeys
<1>2. discovered \in [Keys -> Infos \cup {Absent}] /\ discovered' = [discovered EXCEPT ![k] = Absent]
  BY DEF CacheInv, CacheType, Tables, CacheRemove
<1>3. Two(discovered', p) = NoRecord
  BY <1>1, <1>2 DEF Two, NoRecord
<1>4. ASSUME NEW o \in Paths \ {p}
      PROVE  Two(discovered', o) = Two(discovered, o)
  <2>1. AddressOf[o] \in Keys /\ o \in Keys /\ AddressOf[o] # k /\ o # k
    BY TwoKeys
  <2> QED BY <1>2, <2>1 DEF Two
<1> QED BY <1>3, <1>4

\* The keys that a device may go by are none of another's.
LEMMA StrangersKeys ==
  ASSUME NEW p \in Paths, NEW o \in Paths, o # p, NEW k \in {p} \cup MacsOf(p)
  PROVE  k \in Keys \ {AddressOf[o], o}
<1>1. AddressOf[o] \in MacsOf(o)
  BY MacFacts
<1> QED BY <1>1, MacFacts

\* The record found by a path is one of the device's own.
LEMMA ItsKeys ==
  ASSUME CacheInv, NEW p \in Paths, FindById(p) # Absent
  PROVE  /\ FindById(p) \in {p} \cup MacsOf(p)
         /\ discovered[FindById(p)].address \in {p} \cup MacsOf(p)
<1> DEFINE k == FindById(p)
<1>1. k \in Keys /\ discovered[k] \in Infos /\ discovered[k].device_id = p
  BY FindByIdFinds
<1> HIDE DEF k
<1>2. discovered[k] # Absent /\ k = Key(discovered[k])
  BY <1>1, KeyType DEF CacheInv, Tidy
<1> QED BY <1>1, <1>2, KeyType DEF k

\* Removing a key of one device leaves the pairs of others alone.
LEMMA CacheRemoveOther ==
  ASSUME CacheInv, NEW p \in Paths, NEW k \in {p} \cup MacsOf(p), NEW a, CacheRemove(k, a),
         NEW o \in Paths, o # p
  PROVE  Two(discovered', o) = Two(discovered, o)
<1>1. /\ discovered \in [Keys -> Infos \cup {Absent}] /\ discovered' = [discovered EXCEPT ![k] = Absent]
      /\ AddressOf[o] \in Keys /\ o \in Keys
  BY TwoKeys DEF CacheInv, CacheType, Tables, CacheRemove
<1> QED BY <1>1, StrangersKeys DEF Two

\* The record that a change makes is the one it is applied to, as far as it says nothing else.
LEMMA UpdatedApplied ==
  ASSUME CacheInv, NEW s \in PlainSignals(readdressed), s.type = "changed", s.path \notin readdressed
  PROVE  Applied(s, Two(discovered, s.path), Updated(s))
<1> DEFINE p == s.path
           k == FindById(s.path)
           old == IF k # Absent THEN discovered[k]
                  ELSE [address |-> s.path, device_id |-> s.path,
                        paired |-> FALSE, connected |-> FALSE]
           c == Two(discovered, s.path)
           i == Updated(s)
<1>1. p \in Paths /\ s.changed \in Changes /\ s.address = Absent
  BY SignalFacts DEF PlainSignals
<1>2. /\ c[1] = discovered[AddressOf[p]] /\ c[2] = discovered[p]
      /\ k = IF c[1] # Absent THEN AddressOf[p] ELSE IF c[2] # Absent THEN p ELSE Absent
      /\ c[1] # Absent => c[1] \in Infos /\ c[1].device_id = p /\ c[1].address = AddressOf[p]
      /\ c[2] # Absent => c[2] \in Infos /\ c[2].device_id = p /\ c[2].address = p
  BY <1>1, CachedTwo
<1>3. AddressOf[p] # Absent /\ p # Absent /\ AddressOf[p] \in Addresses /\ p \notin Addresses /\ p \in Keys
  BY <1>1, TwoKeys, DevicesAssumption DEF DevicesAssumption
<1>4. old = IF c[1] # Absent THEN c[1] ELSE IF c[2] # Absent THEN c[2]
            ELSE [address |-> p, device_id |-> p, paired |-> FALSE, connected |-> FALSE]
  BY <1>2, <1>3
<1>5. old \in Infos /\ old.device_id = p /\ (old.address \in Addresses <=> c[1] # Absent)
  BY <1>1, <1>2, <1>3, <1>4 DEF Infos
<1>6. i = With(s.changed, old)
  <2>1. [old EXCEPT !.device_id = s.path,
                    !.address = IF s.address # Absent THEN s.address ELSE @] = old
    BY <1>1, <1>5 DEF Infos
  <2> QED BY <2>1 DEF Updated
<1> HIDE DEF old, c, i
<1>7. old.connected = IF c[1] # Absent THEN c[1].connected ELSE c[2] # Absent /\ c[2].connected
  <2>1. CASE c[1] # Absent
    BY <1>4, <2>1
  <2>2. CASE c[1] = Absent /\ c[2] # Absent
    <3>1. old = c[2] /\ c[2].connected \in BOOLEAN
      BY <1>2, <1>4, <2>2 DEF Infos
    <3>2. c[2].connected = (c[2] # Absent /\ c[2].connected)
      BY <2>2, <3>1
    <3> QED BY <2>2, <3>1, <3>2
  <2>3. CASE c[1] = Absent /\ c[2] = Absent
    <3>1. old.connected = FALSE
      BY <1>4, <2>3
    <3> QED BY <2>3, <3>1
  <2> QED BY <2>1, <2>2, <2>3
<1>8. /\ i.device_id = p /\ i.address = old.address
      /\ i.connected = IF "connected" \in DOMAIN s.changed THEN s.changed.connected ELSE old.connected
      /\ i.paired = IF "paired" \in DOMAIN s.changed THEN s.changed.paired ELSE old.paired
  BY <1>1, <1>5, <1>6, WithType, WithFields
<1>9. DOMAIN s.changed = {} => i = old
  BY <1>5, <1>6 DEF With, Infos
<1>10. Applied(s, c, i)
  BY <1>4, <1>5, <1>7, <1>8, <1>9 DEF Applied
<1> QED BY <1>10 DEF c, i

-----------------------------------------------------------------------------
(* Queues                                                                  *)

\* An emission appends to the queue.
LEMMA OneMore ==
  ASSUME NEW E, NEW eq \in Seq(E), NEW e \in E
  PROVE  eq \o <<e>> = Append(eq, e) /\ Append(eq, e) \in Seq(E)
OBVIOUS

\* One of two events appends twice.
LEMMA TwoMore ==
  ASSUME NEW E, NEW eq \in Seq(E), NEW e \in E, NEW f \in E
  PROVE  /\ eq \o (<<e>> \o <<f>>) = Append(Append(eq, e), f)
         /\ Append(eq, e) \in Seq(E)
OBVIOUS

\* So does the first of several.
LEMMA ManyMore ==
  ASSUME NEW E, NEW eq \in Seq(E), NEW e \in E, NEW es \in Seq(E)
  PROVE  eq \o (<<e>> \o es) = Append(eq, e) \o es
<1> DEFINE s == eq \o (<<e>> \o es)
           t == Append(eq, e) \o es
           n == Len(eq)
<1>1. s \in Seq(E) /\ t \in Seq(E) /\ Len(s) = n + 1 + Len(es) /\ Len(t) = Len(s) /\ n \in Nat
  OBVIOUS
<1>2. ASSUME NEW i \in 1..Len(s) PROVE s[i] = t[i]
  <2>1. CASE i <= n
    BY <1>1, <2>1
  <2>2. CASE i = n + 1
    BY <1>1, <2>2
  <2>3. CASE i > n + 1
    BY <1>1, <2>3
  <2> QED BY <1>1, <2>1, <2>2, <2>3
<1> HIDE DEF s, t
<1>3. s = t
  BY <1>1, <1>2
<1> QED BY <1>3 DEF s, t

\* What is in the connection and what is queued.
LEMMA QueueTypes ==
  ASSUME IInv
  PROVE  /\ signals \in Seq(PlainSignals(readdressed)) /\ signals \in Seq(Signals)
         /\ event_queue \in Seq(GoodEvents)
<1>1. PlainSignals(readdressed) \subseteq Signals
  BY DEF PlainSignals
<1>2. Seq(PlainSignals(readdressed)) \subseteq Seq(Signals)
  BY <1>1
<1> QED BY <1>2, GoodDeviceEvents DEF IInv, BluezType, QueueInv

\* What there is of one device has its types.
LEMMA DeviceTypes ==
  ASSUME IInv, NEW p \in Paths
  PROVE  /\ objects[p] \in States /\ signals \in Seq(Signals) /\ event_queue \in Seq(GoodEvents)
         /\ Two(discovered, p) \in Pairs /\ Two(devices, p) \in Pairs
         /\ refreshed \in BOOLEAN /\ nameless \in BOOLEAN
<1>1. objects[p] \in States
  BY DEF IInv, BluezType, States
<1>4. signals \in Seq(Signals) /\ event_queue \in Seq(GoodEvents)
  BY QueueTypes
<1>2. Two(discovered, p) \in Pairs /\ Two(devices, p) \in Pairs
  BY TwoKeys DEF IInv, CacheInv, CacheType, NodeInv
<1>3. refreshed \in BOOLEAN /\ nameless \in BOOLEAN
  BY DEF IInv, SessionType
<1> QED BY <1>1, <1>2, <1>3, <1>4

\* A signal about another device leaves what this one is told as it was.
LEMMA OtherSignal ==
  ASSUME NEW p \in Paths, NEW q \in Seq(Signals), q # <<>>, Head(q).path # p
  PROVE  /\ InFlight(q, Deciding(p)) => InFlight(Tail(q), Deciding(p))
         /\ InFlight(q, Adding(p)) => InFlight(Tail(q), Adding(p))
BY InFlightFacts DEF Adding, Deciding

-----------------------------------------------------------------------------
(* Devices whose MAC has changed                                           *)

\* An event that changes the node's pair of no other device.
Unheard(e) == e \in GoodEvents /\ \A o \in Steady : \A y \in Pairs : <<e, y, y>> \in Hears(o)

\* So are those about a device whose MAC has changed, whichever of its names they give.
LEMMA StrangersEvents ==
  ASSUME NEW p \in Paths, p \in readdressed
  PROVE  /\ \A m \in Infos : m.device_id = p => Unheard(Found(m))
         /\ \A k \in {p} \cup MacsOf(p) : Unheard(Removed(k))
         /\ \A k \in MacsOf(p), b \in BOOLEAN : Unheard(Connection(k, b))
<1>1. \A o \in Steady : o \in Paths /\ o # p
  BY DEF Steady
<1>2. ASSUME NEW m \in Infos, m.device_id = p
      PROVE  Unheard(Found(m))
  <2>1. Found(m) \in GoodEvents
    BY DEF Found, GoodEvents, Events
  <2> QED BY <1>1, <1>2, <2>1, HearsFound DEF Unheard
<1>3. ASSUME NEW k \in {p} \cup MacsOf(p)
      PROVE  Unheard(Removed(k))
  <2>1. \A o \in Steady : k \in Keys \ {AddressOf[o], o}
    BY <1>1, StrangersKeys
  <2>2. k \in Keys
    BY MacFacts
  <2> QED BY <1>1, <2>1, <2>2, HearsRemoved, GoodDeviceEvents DEF Unheard
<1>4. ASSUME NEW k \in MacsOf(p), NEW b \in BOOLEAN
      PROVE  Unheard(Connection(k, b))
  <2>1. \A o \in Steady : k \in Addresses \ {AddressOf[o]}
    BY <1>1, StrangersKeys, MacFacts
  <2>2. k \in Addresses
    BY MacFacts
  <2> QED BY <1>1, <2>1, <2>2, HearsFlags, GoodDeviceEvents DEF Unheard
<1> QED BY <1>2, <1>3, <1>4

\* Such an event is queued.
LEMMA AgreeUnheard ==
  ASSUME NEW objs, NEW q, NEW cache, NEW eq \in Seq(GoodEvents), NEW list \in Tables, NEW r, NEW n,
         Agree(objs, q, cache, eq, list, r, n), NEW e, Unheard(e)
  PROVE  /\ Agree(objs, q, cache, Append(eq, e), list, r, n)
         /\ Append(eq, e) \in Seq(GoodEvents)
<1>1. e \in GoodEvents /\ Append(eq, e) \in Seq(GoodEvents)
  BY DEF Unheard
<1>2. ASSUME NEW o \in Steady
      PROVE  Told(o, q, Two(cache, o), Append(eq, e), Two(list, o), r, n)
  <2>1. o \in Paths /\ Told(o, q, Two(cache, o), eq, Two(list, o), r, n) /\ Two(list, o) \in Pairs
    BY TwoKeys DEF Agree, Steady
  <2>2. \A y \in Pairs : <<e, y, y>> \in Hears(o)
    BY DEF Unheard
  <2> QED BY <1>1, <2>1, <2>2, ToldNothing
<1> QED BY <1>1, <1>2 DEF Agree

\* The pairs of the other devices stay as they are.
LEMMA AgreeElsewhere ==
  ASSUME NEW objs, NEW q, NEW cache, NEW cache2, NEW eq, NEW list, NEW r, NEW n,
         Agree(objs, q, cache, eq, list, r, n),
         \A p \in Steady : Two(cache2, p) = Two(cache, p)
  PROVE  Agree(objs, q, cache2, eq, list, r, n)
BY DEF Agree

\* A signal about such a device is dispatched.
LEMMA StrangerPolled ==
  ASSUME IInv, Agreement, signals # <<>>, Head(signals).path \in readdressed,
         signals' = Tail(signals), nameless' \in {nameless, TRUE},
         \A p \in Steady : Two(discovered', p) = Two(discovered, p)
  PROVE  Agree(objects, signals', discovered', event_queue, devices, refreshed, nameless')
<1>1. ASSUME NEW p \in Steady
      PROVE  /\ Bus(p, objects[p], signals', Two(discovered', p), refreshed)
             /\ Told(p, signals', Two(discovered', p), event_queue, Two(devices, p), refreshed, nameless')
  <2>1. /\ Bus(p, objects[p], signals, Two(discovered, p), refreshed)
        /\ Told(p, signals, Two(discovered, p), event_queue, Two(devices, p), refreshed, nameless)
    BY DEF Agreement, Agree
  <2>2. p \in Paths /\ Head(signals).path # p
    BY DEF Steady
  <2>3. Bus(p, objects[p], signals', Two(discovered', p), refreshed)
    BY <2>1, <2>2, DeviceTypes, BusOther
  <2>4. Told(p, signals', Two(discovered, p), event_queue, Two(devices, p), refreshed, nameless)
    BY <2>1, <2>2, DeviceTypes, OtherSignal, ToldStill
  <2>5. Told(p, signals', Two(discovered, p), event_queue, Two(devices, p), refreshed, nameless')
    BY <2>4, ToldOfNameless
  <2> QED BY <2>3, <2>5
<1> QED BY <1>1 DEF Agree

-----------------------------------------------------------------------------
(* poll                                                                    *)

\* A device that is added is told of as the cache then has it.
LEMMA SteadyAdded ==
  ASSUME IInv, Agreement, HandleInterfacesAdded, Head(signals).path \notin readdressed
  PROVE  Agreement'
<1> DEFINE s == Head(signals)
           info == [address |-> s.address, device_id |-> s.path,
                    paired |-> s.changed.paired, connected |-> s.changed.connected]
           m == Joined(info, Two(discovered, s.path))
<1>1. /\ s.type = "added" /\ signals # <<>> /\ signals' = Tail(signals)
      /\ CacheUpsert({info}) /\ Emit(<<FoundAfter(info)>>)
      /\ UNCHANGED <<objects, readdressed, devices, refreshed, nameless>>
  BY DEF HandleInterfacesAdded, Dispatch, bluezVars, nodeVars, sessionVars
<1>2. /\ s \in Signals /\ s.path \in Paths /\ s.changed \in Properties
      /\ s.address = AddressOf[s.path]
  <2>1. s \in Signals /\ s \in PlainSignals(readdressed)
    BY <1>1, QueueTypes
  <2> QED BY <1>1, <2>1, SignalFacts DEF PlainSignals
<1>3. /\ info \in Infos /\ info \in Plain(readdressed) /\ info.device_id \notin readdressed
      /\ info.address \in Addresses /\ info.device_id = s.path
      /\ info.paired = s.changed.paired /\ info.connected = s.changed.connected
  BY <1>2, TwoKeys, MacFacts DEF Infos, Properties, Plain
<1> HIDE DEF info
<1>4. /\ Two(discovered', s.path) = After(info, Two(discovered, s.path))
      /\ \A p \in Steady \ {s.path} : Two(discovered', p) = Two(discovered, p)
      /\ FoundAfter(info) = Found(m)
  BY <1>1, <1>3, CacheUpsertTwo DEF IInv
<1>5. /\ After(info, Two(discovered, s.path)) = <<m, Absent>>
      /\ m \in Infos /\ m.device_id = s.path /\ m.address \in Addresses
  BY <1>2, <1>3, DeviceTypes, JoinedType DEF After
<1> HIDE DEF m
<1>6. Found(m) \in GoodEvents /\ event_queue' = Append(event_queue, Found(m))
  <2>1. Found(m) \in GoodEvents
    BY <1>5 DEF Found, GoodEvents, Events
  <2> QED BY <1>1, <1>4, <2>1, QueueTypes, OneMore DEF Emit
<1>7. ASSUME NEW p \in Paths, p \in Steady
      PROVE  /\ Bus(p, objects[p], signals', Two(discovered', p), refreshed)
             /\ Told(p, signals', Two(discovered', p), event_queue', Two(devices, p), refreshed, nameless)
  <2>1. /\ Bus(p, objects[p], signals, Two(discovered, p), refreshed)
        /\ Told(p, signals, Two(discovered, p), event_queue, Two(devices, p), refreshed, nameless)
    BY <1>7 DEF Agreement, Agree
  <2>2. CASE p = s.path
    <3>1. Bus(p, objects[p], signals', Two(discovered', p), refreshed)
      BY <1>1, <1>3, <1>4, <2>1, <2>2, DeviceTypes, BusAdded
    <3>2. Told(p, signals', <<m, Absent>>, Append(event_queue, Found(m)),
               Two(devices, p), refreshed, nameless)
      BY <1>5, <2>1, <2>2, DeviceTypes, ToldFound
    <3> QED BY <1>4, <1>5, <1>6, <2>2, <3>1, <3>2
  <2>3. CASE p # s.path
    <3>1. Bus(p, objects[p], signals', Two(discovered', p), refreshed)
      BY <1>7, <1>1, <1>4, <2>1, <2>3, DeviceTypes, BusOther
    <3>2. Told(p, signals', Two(discovered, p), event_queue, Two(devices, p), refreshed, nameless)
      BY <1>1, <2>1, <2>3, DeviceTypes, OtherSignal, ToldStill
    <3>3. \A y \in Pairs : <<Found(m), y, y>> \in Hears(p)
      BY <1>5, <2>3, HearsFound
    <3> QED BY <1>7, <1>4, <1>6, <2>3, <3>1, <3>2, <3>3, DeviceTypes, ToldNothing
  <2> QED BY <2>2, <2>3
<1> QED BY <1>1, <1>7 DEF Agreement, Agree, Two, Steady

\* So is one whose MAC has changed since, which is no matter to others.
LEMMA AddedAgrees ==
  ASSUME IInv, Agreement, HandleInterfacesAdded
  PROVE  Agreement'
<1> DEFINE s == Head(signals)
           info == [address |-> s.address, device_id |-> s.path,
                    paired |-> s.changed.paired, connected |-> s.changed.connected]
<1>1. SUFFICES ASSUME s.path \in readdressed PROVE Agreement'
  BY SteadyAdded
<1>2. /\ s.type = "added" /\ signals # <<>> /\ signals' = Tail(signals)
      /\ CacheUpsert({info}) /\ Emit(<<FoundAfter(info)>>)
      /\ UNCHANGED <<objects, readdressed, devices, refreshed, nameless>>
  BY DEF HandleInterfacesAdded, Dispatch, bluezVars, nodeVars, sessionVars
<1>3. s \in PlainSignals(readdressed) /\ s \in Signals /\ s.path \in Paths /\ s.changed \in Properties
  <2>1. s \in Signals /\ s \in PlainSignals(readdressed)
    BY <1>2, QueueTypes
  <2> QED BY <1>2, <2>1, SignalFacts
<1>4. info \in Plain(readdressed) /\ info.device_id = s.path
  <2>1. s.address = AddressOf[s.path]
    BY <1>2, <1>3 DEF PlainSignals
  <2> QED BY <1>3, <2>1, TwoKeys, MacFacts DEF Infos, Properties, Plain
<1> HIDE DEF info
<1>5. PICK m \in Infos : FoundAfter(info) = Found(m) /\ m.device_id = s.path
  BY <1>2, <1>4, CacheUpsertTwo DEF IInv
<1>6. Unheard(Found(m))
  BY <1>1, <1>3, <1>5, StrangersEvents
<1>7. Agree(objects, signals', discovered', event_queue, devices, refreshed, nameless)
  <2>1. \A p \in Steady : Two(discovered', p) = Two(discovered, p)
    BY <1>1, <1>2, <1>4, CacheUpsertTwo DEF IInv, Steady
  <2> QED BY <1>1, <1>2, <2>1, StrangerPolled
<1>8. event_queue' = Append(event_queue, Found(m))
  BY <1>2, <1>5, <1>6, QueueTypes, OneMore DEF Emit, Unheard
<1>9. Agree(objects, signals', discovered', event_queue', devices, refreshed, nameless)
  BY <1>6, <1>7, <1>8, QueueTypes, AgreeUnheard DEF IInv, NodeInv
<1> QED BY <1>2, <1>9 DEF Agreement, Agree, Two, Steady

\* A device that is removed is forgotten by both.
LEMMA SteadyRemoved ==
  ASSUME IInv, Agreement, HandleInterfacesRemoved, Head(signals).path \notin readdressed
  PROVE  Agreement'
<1> DEFINE s == Head(signals)
           k == FindById(s.path)
           c == Two(discovered, s.path)
<1>1. /\ s.type = "removed" /\ signals # <<>> /\ signals' = Tail(signals)
      /\ UNCHANGED <<objects, readdressed, devices, refreshed, nameless>>
      /\ \/ k = Absent /\ UNCHANGED <<cacheVars, event_queue>>
         \/ /\ k # Absent
            /\ CacheRemove(k, discovered[k].address)
            /\ Emit(<<Removed(discovered[k].address)>>)
  BY DEF HandleInterfacesRemoved, Dispatch, bluezVars, nodeVars, sessionVars
<1>2. s \in Signals /\ s.path \in Paths
  <2>1. s \in Signals
    BY <1>1, QueueTypes
  <2> QED BY <2>1, SignalFacts
<1>3. /\ c \in Pairs /\ c = <<discovered[AddressOf[s.path]], discovered[s.path]>>
      /\ c[1] = discovered[AddressOf[s.path]] /\ c[2] = discovered[s.path]
      /\ c[1] = Absent \/ c[2] = Absent
      /\ c[1] # Absent => c[1].address = AddressOf[s.path]
      /\ c[2] # Absent => c[2].address = s.path
      /\ k = IF c[1] # Absent THEN AddressOf[s.path] ELSE IF c[2] # Absent THEN s.path ELSE Absent
      /\ AddressOf[s.path] # Absent /\ s.path # Absent
      /\ AddressOf[s.path] \in Keys /\ s.path \in Keys /\ s.path # AddressOf[s.path]
  BY <1>2, CachedTwo, TwoKeys, DevicesAssumption DEF IInv, Two, DevicesAssumption
<1>4. CASE k = Absent
  <2>1. c = NoRecord /\ discovered' = discovered /\ event_queue' = event_queue
    BY <1>1, <1>3, <1>4 DEF NoRecord, cacheVars
  <2>2. ASSUME NEW p \in Paths, p \in Steady
        PROVE  /\ Bus(p, objects[p], signals', Two(discovered, p), refreshed)
               /\ Told(p, signals', Two(discovered, p), event_queue, Two(devices, p), refreshed, nameless)
    <3>1. /\ Bus(p, objects[p], signals, Two(discovered, p), refreshed)
          /\ Told(p, signals, Two(discovered, p), event_queue, Two(devices, p), refreshed, nameless)
      BY <2>2 DEF Agreement, Agree
    <3>2. CASE p = s.path
      <4>1. Bus(p, objects[p], signals', Two(discovered, p), refreshed)
        BY <1>1, <2>1, <3>1, <3>2, DeviceTypes, BusRemoved
      <4>2. Two(discovered, p) = NoRecord
        BY <2>1, <3>2
      <4> QED BY <3>1, <4>1, <4>2, ToldForgotten
    <3>3. CASE p # s.path
      BY <1>1, <3>1, <3>3, DeviceTypes, BusOther, OtherSignal, ToldStill
    <3> QED BY <3>2, <3>3
  <2> QED BY <1>1, <2>1, <2>2 DEF Agreement, Agree, Two, Steady
<1>5. CASE k # Absent
  <2>1. /\ k \in {AddressOf[s.path], s.path} /\ discovered[k].address = k
        /\ k = AddressOf[s.path] => discovered[s.path] = Absent
        /\ k = s.path => discovered[AddressOf[s.path]] = Absent
    BY <1>3, <1>5
  <2>2. /\ Two(discovered', s.path) = NoRecord
        /\ \A p \in Paths \ {s.path} : Two(discovered', p) = Two(discovered, p)
    BY <1>1, <1>2, <1>5, <2>1, CacheRemoveTwo DEF IInv
  <2>3. k \in Keys /\ Removed(k) \in GoodEvents
    BY <1>3, <2>1, GoodDeviceEvents
  <2>4. event_queue' = Append(event_queue, Removed(k))
    <3>1. event_queue' = event_queue \o <<Removed(k)>>
      BY <1>1, <1>5, <2>1 DEF Emit
    <3> QED BY <2>3, <3>1, QueueTypes, OneMore
  <2>5. ASSUME NEW p \in Paths, p \in Steady
        PROVE  /\ Bus(p, objects[p], signals', Two(discovered', p), refreshed)
               /\ Told(p, signals', Two(discovered', p), event_queue', Two(devices, p), refreshed, nameless)
    <3>1. /\ Bus(p, objects[p], signals, Two(discovered, p), refreshed)
          /\ Told(p, signals, Two(discovered, p), event_queue, Two(devices, p), refreshed, nameless)
      BY <2>5 DEF Agreement, Agree
    <3>2. CASE p = s.path
      <4>1. Bus(p, objects[p], signals', Two(discovered', p), refreshed)
        BY <1>1, <2>2, <3>1, <3>2, DeviceTypes, BusRemoved
      <4>2. k \in {AddressOf[p], p} /\ (k = p => Two(discovered, p)[1] = Absent)
        BY <1>3, <2>1, <3>2
      <4>3. Told(p, signals', NoRecord, Append(event_queue, Removed(k)), Two(devices, p), refreshed, nameless)
        BY <3>1, <4>2, DeviceTypes, ToldRemoved
      <4> QED BY <2>2, <2>4, <3>2, <4>1, <4>3
    <3>3. CASE p # s.path
      <4>1. Bus(p, objects[p], signals', Two(discovered', p), refreshed)
        BY <1>1, <2>2, <3>1, <3>3, DeviceTypes, BusOther
      <4>2. Told(p, signals', Two(discovered, p), event_queue, Two(devices, p), refreshed, nameless)
        BY <1>1, <3>1, <3>3, DeviceTypes, OtherSignal, ToldStill
      <4>3. k \in Keys \ {AddressOf[p], p}
        BY <1>2, <2>1, <2>3, <3>3, TwoKeys
      <4>4. \A y \in Pairs : <<Removed(k), y, y>> \in Hears(p)
        BY <4>3, HearsRemoved
      <4> QED BY <2>2, <2>3, <2>4, <3>3, <4>1, <4>2, <4>4, DeviceTypes, ToldNothing
    <3> QED BY <3>2, <3>3
  <2> QED BY <1>1, <2>5 DEF Agreement, Agree, Two, Steady
<1> QED BY <1>4, <1>5

\* So is one whose MAC has changed.
LEMMA RemovedAgrees ==
  ASSUME IInv, Agreement, HandleInterfacesRemoved
  PROVE  Agreement'
<1> DEFINE s == Head(signals)
           k == FindById(s.path)
<1>1. SUFFICES ASSUME s.path \in readdressed PROVE Agreement'
  BY SteadyRemoved
<1>2. /\ signals # <<>> /\ signals' = Tail(signals)
      /\ UNCHANGED <<objects, readdressed, devices, refreshed, nameless>>
      /\ \/ k = Absent /\ UNCHANGED <<cacheVars, event_queue>>
         \/ /\ k # Absent
            /\ CacheRemove(k, discovered[k].address)
            /\ Emit(<<Removed(discovered[k].address)>>)
  BY DEF HandleInterfacesRemoved, Dispatch, bluezVars, nodeVars, sessionVars
<1>3. s.path \in Paths
  BY <1>2, QueueTypes, SignalFacts
<1>4. CASE k = Absent
  <2>1. UNCHANGED <<discovered, event_queue>>
    BY <1>2, <1>4 DEF cacheVars
  <2>2. Agree(objects, signals', discovered', event_queue, devices, refreshed, nameless)
    BY <1>1, <1>2, <2>1, StrangerPolled
  <2> QED BY <1>2, <2>1, <2>2 DEF Agreement, Agree, Two, Steady
<1>5. CASE k # Absent
  <2> DEFINE a == discovered[k].address
  <2>1. k \in {s.path} \cup MacsOf(s.path) /\ a \in {s.path} \cup MacsOf(s.path)
    BY <1>3, <1>5, ItsKeys DEF IInv
  <2>2. CacheRemove(k, a) /\ Emit(<<Removed(a)>>)
    BY <1>2, <1>5
  <2> HIDE DEF k, a
  <2>3. \A p \in Steady : Two(discovered', p) = Two(discovered, p)
    BY <1>1, <1>3, <2>1, <2>2, CacheRemoveOther DEF IInv, Steady
  <2>4. Agree(objects, signals', discovered', event_queue, devices, refreshed, nameless)
    BY <1>1, <1>2, <2>3, StrangerPolled
  <2>5. Unheard(Removed(a))
    BY <1>1, <1>3, <2>1, StrangersEvents
  <2>6. event_queue' = Append(event_queue, Removed(a))
    BY <2>2, <2>5, QueueTypes, OneMore DEF Emit, Unheard
  <2>7. Agree(objects, signals', discovered', event_queue', devices, refreshed, nameless)
    BY <2>4, <2>5, <2>6, QueueTypes, AgreeUnheard DEF IInv, NodeInv
  <2> QED BY <1>2, <2>7 DEF Agreement, Agree, Two, Steady
<1> QED BY <1>4, <1>5

\* A record with its MAC, joined with itself, is that record.
LEMMA JoinedSelf ==
  ASSUME NEW c \in Pairs, c[1] \in Infos, c[1].address \in Addresses, c[2] = Absent
  PROVE  After(c[1], c) = c
<1> DEFINE i == c[1]
           m == Joined(c[1], c)
<1>1. m \in Infos /\ m.device_id = i.device_id /\ m.address = i.address
  BY JoinedType
<1>2. (m.paired <=> i.paired) /\ (m.connected <=> i.connected)
  BY DEF Joined
<1>3. i \in Infos /\ c = <<i, Absent>> /\ After(i, c) = <<m, Absent>>
  BY DEF After, Pairs
<1> HIDE DEF m, i
<1>4. m.paired = i.paired /\ m.connected = i.connected
  BY <1>1, <1>2, <1>3 DEF Infos
<1>5. m = i
  BY <1>1, <1>3, <1>4 DEF Infos
<1> QED BY <1>3, <1>5 DEF i

\* A change is told of as the cache then has the device, unless it says nothing.
LEMMA SteadyChanged ==
  ASSUME IInv, Agreement, HandlePropertiesChanged, Head(signals).path \notin readdressed
  PROVE  Agreement'
<1> DEFINE s == Head(signals)
           info == Updated(s)
           c == Two(discovered, s.path)
           m == Joined(info, c)
           new == discovered[Key(info)] = Absent
           connection == IF "connected" \in DOMAIN s.changed /\ info.address \in Addresses
                         THEN <<Connection(info.address, info.connected)>> ELSE <<>>
<1>1. /\ s.type = "changed" /\ signals # <<>> /\ signals' = Tail(signals)
      /\ CacheUpsert({info}) /\ nameless' = (nameless \/ info.address \notin Addresses)
      /\ \/ Emit(<<FoundAfter(info)>> \o connection)
         \/ DOMAIN s.changed = {} /\ ~new /\ Emit(<<>>)
      /\ UNCHANGED <<objects, readdressed, devices, refreshed>>
  BY DEF HandlePropertiesChanged, Dispatch, bluezVars, nodeVars, sessionVars
<1>2. s \in Signals /\ s.path \in Paths
  <2>1. s \in Signals
    BY <1>1, QueueTypes
  <2> QED BY <2>1, SignalFacts
<1>3. /\ info \in Plain(readdressed) /\ info \in Infos /\ info.connected \in BOOLEAN
      /\ Applied(s, c, info)
  <2>1. s \in PlainSignals(readdressed) /\ s.type = "changed" /\ s.path \notin readdressed
    BY <1>1, QueueTypes
  <2> QED BY <2>1, UpdatedFits, UpdatedApplied DEF IInv, Plain
<1> HIDE DEF info
<1>4. /\ c \in Pairs /\ (c[1] = Absent \/ c[2] = Absent)
      /\ c[1] # Absent => c[1] \in Infos /\ c[1].address \in Addresses
  BY <1>2, CachedTwo, TwoKeys DEF IInv
<1>5. info.device_id = s.path /\ (info.address \in Addresses <=> c[1] # Absent)
      /\ (info.address \in Addresses => info.address = AddressOf[s.path])
  <2>1. info.device_id = s.path /\ (info.address \in Addresses <=> c[1] # Absent)
    BY <1>3 DEF Applied
  <2> QED BY <1>2, <1>3, <2>1, TwoKeys DEF Plain
<1>6. /\ Two(discovered', s.path) = After(info, c)
      /\ \A p \in Steady \ {s.path} : Two(discovered', p) = Two(discovered, p)
      /\ FoundAfter(info) = Found(m)
  BY <1>1, <1>3, <1>5, CacheUpsertTwo DEF IInv
<1>7. m \in Infos /\ m.device_id = s.path /\ m.address = info.address
  BY <1>3, <1>4, <1>5, JoinedType
<1> DEFINE cn == Connection(AddressOf[s.path], info.connected)
           eq1 == Append(event_queue, Found(m))
           b == info.connected
<1>8. /\ Found(m) \in GoodEvents /\ cn \in GoodEvents
      /\ event_queue \in Seq(GoodEvents) /\ eq1 \in Seq(GoodEvents)
  <2>1. Found(m) \in GoodEvents
    BY <1>7 DEF Found, GoodEvents, Events
  <2>2. cn \in GoodEvents
    BY <1>2, <1>3, TwoKeys, GoodDeviceEvents
  <2> QED BY <2>1, <2>2, QueueTypes, OneMore
<1>9. \/ event_queue' = eq1
      \/ info.address \in Addresses /\ event_queue' = Append(eq1, cn)
      \/ DOMAIN s.changed = {} /\ event_queue' = event_queue
  <2>1. CASE Emit(<<FoundAfter(info)>> \o connection)
    <3>1. event_queue' = event_queue \o (<<Found(m)>> \o connection)
      BY <1>6, <2>1 DEF Emit
    <3>2. \/ connection = <<>>
          \/ info.address \in Addresses /\ connection = <<cn>>
      BY <1>5
    <3> HIDE DEF connection, cn, m
    <3>3. CASE connection = <<>>
      <4>1. <<Found(m)>> \o <<>> = <<Found(m)>>
        OBVIOUS
      <4> QED BY <1>8, <3>1, <3>3, <4>1, OneMore
    <3>4. CASE info.address \in Addresses /\ connection = <<cn>>
      BY <1>8, <3>1, <3>4, TwoMore
    <3> QED BY <3>2, <3>3, <3>4
  <2>2. CASE DOMAIN s.changed = {} /\ Emit(<<>>)
    BY <1>8, <2>2 DEF Emit
  <2> QED BY <1>1, <2>1, <2>2
<1> HIDE DEF s, c, m, cn, eq1, connection
<1>10. ASSUME NEW p \in Paths, p \in Steady
       PROVE  /\ Bus(p, objects[p], signals', Two(discovered', p), refreshed)
              /\ Told(p, signals', Two(discovered', p), event_queue', Two(devices, p), refreshed, nameless')
  <2>1. /\ Bus(p, objects[p], signals, Two(discovered, p), refreshed)
        /\ Told(p, signals, Two(discovered, p), event_queue, Two(devices, p), refreshed, nameless)
    BY <1>10 DEF Agreement, Agree
  <2>2. CASE p = s.path
    <3>1. Bus(p, objects[p], signals', Two(discovered', p), refreshed)
      BY <1>1, <1>3, <1>4, <1>6, <2>1, <2>2, DeviceTypes, BusChanged DEF s, c
    <3>2. CASE info.address \in Addresses
      <4>1. After(info, c) = <<m, Absent>> /\ nameless' = nameless /\ c[1] # Absent /\ c[2] = Absent
        <5>1. nameless' = nameless
          BY <1>1, <3>2, DeviceTypes
        <5> QED BY <1>4, <1>5, <3>2, <5>1 DEF After, m
      <4>2. Told(p, signals', <<m, Absent>>, eq1, Two(devices, p), refreshed, nameless)
        BY <1>7, <1>8, <2>1, <2>2, <3>2, DeviceTypes, ToldFound DEF eq1
      <4>3. m.connected = b
        <5>1. m.connected <=> info.connected
          BY <4>1, <3>2 DEF m, Joined
        <5>2. m.connected \in BOOLEAN
          BY <1>7 DEF Infos
        <5> QED BY <1>3, <5>1, <5>2
      <4>4. Told(p, signals', <<m, Absent>>, Append(eq1, cn), Two(devices, p), refreshed, nameless)
        BY <1>3, <1>8, <2>2, <4>2, <4>3, DeviceTypes, ToldConnection DEF cn
      <4>5. DOMAIN s.changed = {} =>
              Told(p, signals', <<m, Absent>>, event_queue, Two(devices, p), refreshed, nameless)
        <5>1. SUFFICES ASSUME DOMAIN s.changed = {}
                       PROVE  Told(p, signals', <<m, Absent>>, event_queue,
                                   Two(devices, p), refreshed, nameless)
          OBVIOUS
        <5>2. <<m, Absent>> = c
          BY <1>3, <1>4, <4>1, <5>1, JoinedSelf DEF Applied
        <5>3. s \notin Deciding(p) /\ s \notin Adding(p)
          BY <1>1, <5>1 DEF Deciding, Adding
        <5>4. /\ InFlight(signals, Deciding(p)) => InFlight(signals', Deciding(p))
              /\ InFlight(signals, Adding(p)) => InFlight(signals', Adding(p))
          BY <1>1, <5>3, DeviceTypes, InFlightFacts DEF s
        <5> QED BY <2>1, <2>2, <5>2, <5>4, ToldStill DEF c
      <4> QED BY <1>6, <1>9, <2>2, <3>1, <4>1, <4>2, <4>4, <4>5
    <3>3. CASE info.address \notin Addresses
      <4>1. After(info, c) = <<Absent, m>> /\ nameless' = TRUE /\ c[1] = Absent
        <5>1. nameless' = TRUE
          BY <1>1, <3>3
        <5> QED BY <1>5, <3>3, <5>1 DEF After, m
      <4>2. /\ Told(p, signals', <<Absent, m>>, eq1, Two(devices, p), refreshed, TRUE)
            /\ Told(p, signals', <<Absent, m>>, event_queue, Two(devices, p), refreshed, TRUE)
        BY <1>7, <1>8, <2>1, <2>2, <3>3, <4>1, DeviceTypes, ToldNameless DEF c, eq1
      <4> QED BY <1>6, <1>9, <2>2, <3>1, <3>3, <4>1, <4>2
    <3> QED BY <3>2, <3>3
  <2>3. CASE p # s.path
    <3>1. Bus(p, objects[p], signals', Two(discovered', p), refreshed)
      BY <1>10, <1>1, <1>6, <2>1, <2>3, DeviceTypes, BusOther DEF s
    <3>2. Told(p, signals', Two(discovered, p), event_queue, Two(devices, p), refreshed, nameless)
      BY <1>1, <2>1, <2>3, DeviceTypes, OtherSignal, ToldStill DEF s
    <3>3. \A y \in Pairs : <<Found(m), y, y>> \in Hears(p)
      BY <1>7, <2>3, HearsFound
    <3>4. Told(p, signals', Two(discovered, p), eq1, Two(devices, p), refreshed, nameless)
      BY <1>8, <3>2, <3>3, DeviceTypes, ToldNothing DEF eq1
    <3>5. \A y \in Pairs : <<cn, y, y>> \in Hears(p)
      <4>1. AddressOf[s.path] \in Addresses \ {AddressOf[p]}
        BY <1>2, <2>3, TwoKeys
      <4> QED BY <1>3, <4>1, HearsFlags DEF cn
    <3>6. Told(p, signals', Two(discovered, p), Append(eq1, cn), Two(devices, p), refreshed, nameless)
      BY <1>8, <3>4, <3>5, DeviceTypes, ToldNothing
    <3>7. Told(p, signals', Two(discovered, p), event_queue', Two(devices, p), refreshed, nameless)
      BY <1>9, <3>2, <3>4, <3>6
    <3>8. nameless' = nameless \/ nameless' = TRUE
      BY <1>1, DeviceTypes
    <3>9. Told(p, signals', Two(discovered, p), event_queue', Two(devices, p), refreshed, nameless')
      BY <3>7, <3>8, ToldOfNameless
    <3> QED BY <1>10, <1>6, <2>3, <3>1, <3>9
  <2> QED BY <2>2, <2>3
<1> QED BY <1>1, <1>10 DEF Agreement, Agree, Two, Steady

\* One of a device whose MAC has changed, or which says that it has, is no matter to others.
LEMMA ChangedAgrees ==
  ASSUME IInv, Agreement, HandlePropertiesChanged
  PROVE  Agreement'
<1> DEFINE s == Head(signals)
           info == Updated(s)
           connection == IF "connected" \in DOMAIN s.changed /\ info.address \in Addresses
                         THEN <<Connection(info.address, info.connected)>> ELSE <<>>
<1>1. SUFFICES ASSUME s.path \in readdressed PROVE Agreement'
  BY SteadyChanged
<1>2. /\ signals # <<>> /\ signals' = Tail(signals)
      /\ CacheUpsert({info}) /\ nameless' = (nameless \/ info.address \notin Addresses)
      /\ Emit(<<FoundAfter(info)>> \o connection) \/ Emit(<<>>)
      /\ UNCHANGED <<objects, readdressed, devices, refreshed>>
  BY DEF HandlePropertiesChanged, Dispatch, bluezVars, nodeVars, sessionVars
<1>3. s.path \in Paths /\ s \in PlainSignals(readdressed)
  BY <1>2, QueueTypes, SignalFacts
<1>4. /\ info \in Plain(readdressed) /\ info \in Infos /\ info.connected \in BOOLEAN
      /\ info.device_id = s.path
  BY <1>3, UpdatedFits DEF IInv, Plain
<1> HIDE DEF info
<1>5. PICK m \in Infos : FoundAfter(info) = Found(m) /\ m.device_id = s.path
  BY <1>2, <1>4, CacheUpsertTwo DEF IInv
<1> DEFINE cn == Connection(info.address, info.connected)
           eq == Append(event_queue, Found(m))
<1>6. Unheard(Found(m)) /\ (info.address \in Addresses => Unheard(cn))
  <2>1. info.address \in Addresses => info.address \in MacsOf(s.path)
    BY <1>4, KeyType
  <2> QED BY <1>1, <1>3, <1>4, <1>5, <2>1, StrangersEvents
<1>7. Agree(objects, signals', discovered', event_queue, devices, refreshed, nameless')
  <2>1. \A p \in Steady : Two(discovered', p) = Two(discovered, p)
    BY <1>1, <1>2, <1>4, CacheUpsertTwo DEF IInv, Steady
  <2>2. nameless' \in {nameless, TRUE}
    BY <1>2 DEF IInv, SessionType
  <2> QED BY <1>1, <1>2, <2>1, <2>2, StrangerPolled
<1>8. /\ event_queue \in Seq(GoodEvents) /\ devices \in Tables
      /\ Found(m) \in GoodEvents /\ (info.address \in Addresses => cn \in GoodEvents)
  BY <1>6, QueueTypes DEF Unheard, IInv, NodeInv
<1>9. \/ event_queue' = event_queue
      \/ event_queue' = eq
      \/ info.address \in Addresses /\ event_queue' = Append(eq, cn)
  <2>1. CASE Emit(<<>>)
    BY <1>8, <2>1 DEF Emit
  <2>2. CASE Emit(<<FoundAfter(info)>> \o connection)
    <3>1. event_queue' = event_queue \o (<<Found(m)>> \o connection)
      BY <1>5, <2>2 DEF Emit
    <3>2. connection = <<>> \/ (info.address \in Addresses /\ connection = <<cn>>)
      OBVIOUS
    <3> HIDE DEF connection, cn
    <3>3. CASE connection = <<>>
      <4>1. <<Found(m)>> \o <<>> = <<Found(m)>>
        OBVIOUS
      <4> QED BY <1>8, <3>1, <3>3, <4>1, OneMore
    <3>4. CASE info.address \in Addresses /\ connection = <<cn>>
      BY <1>8, <3>1, <3>4, TwoMore
    <3> QED BY <3>2, <3>3, <3>4
  <2> QED BY <1>2, <2>1, <2>2
<1> HIDE DEF cn
<1>10. /\ Agree(objects, signals', discovered', eq, devices, refreshed, nameless')
       /\ eq \in Seq(GoodEvents)
  BY <1>6, <1>7, <1>8, AgreeUnheard
<1> HIDE DEF eq
<1>11. info.address \in Addresses
         => Agree(objects, signals', discovered', Append(eq, cn), devices, refreshed, nameless')
  BY <1>6, <1>8, <1>10, AgreeUnheard
<1>12. Agree(objects, signals', discovered', event_queue', devices, refreshed, nameless')
  BY <1>7, <1>9, <1>10, <1>11
<1> QED BY <1>2, <1>12 DEF Agreement, Agree, Two, Steady

-----------------------------------------------------------------------------
(* What bluetoothd says                                                    *)

\* bluetoothd sends a signal, which tells of all it does.
Said(s) == /\ signals' = Append(signals, s)
           /\ \A p \in Paths : objects'[p] \in States /\ <<s, objects[p], objects'[p]>> \in Tells(p)

\* A signal that tells of all that is new is sent: the cache and the node will hear of it.
LEMMA AgreeSent ==
  ASSUME NEW objs, NEW more, NEW q \in Seq(Signals), NEW s \in Signals,
         \A p \in Paths : objs[p] \in States /\ more[p] \in States /\ <<s, objs[p], more[p]>> \in Tells(p),
         NEW cache \in Tables, NEW eq, NEW list, NEW r \in BOOLEAN, NEW n,
         Agree(objs, q, cache, eq, list, r, n)
  PROVE  Agree(more, Append(q, s), cache, eq, list, r, n)
<1>1. ASSUME NEW p \in Paths, p \in Steady
      PROVE  /\ Bus(p, more[p], Append(q, s), Two(cache, p), r)
             /\ Told(p, Append(q, s), Two(cache, p), eq, Two(list, p), r, n)
  <2>1. /\ Bus(p, objs[p], q, Two(cache, p), r)
        /\ Told(p, q, Two(cache, p), eq, Two(list, p), r, n)
    BY <1>1 DEF Agree
  <2>2. Bus(p, more[p], Append(q, s), Two(cache, p), r)
    <3> DEFINE c == Two(cache, p)
               o == objs[p]
               new == more[p]
    <3>1. c \in Pairs /\ o \in States /\ new \in States
      BY TwoKeys
    <3>2. Bus(p, o, q, c, r) /\ <<s, o, new>> \in Tells(p)
      BY <2>1
    <3> HIDE DEF c, o, new
    <3>3. Bus(p, new, Append(q, s), c, r)
      BY <3>1, <3>2, BusSend
    <3> QED BY <3>3 DEF c, new
  <2>3. /\ InFlight(q, Deciding(p)) => InFlight(Append(q, s), Deciding(p))
        /\ InFlight(q, Adding(p)) => InFlight(Append(q, s), Adding(p))
    BY InFlightFacts
  <2> QED BY <2>1, <2>2, <2>3, ToldStill
<1> QED BY <1>1 DEF Agree, Steady

\* Whatever bluetoothd says, it does so.
LEMMA SaidAgrees ==
  ASSUME IInv, NEW s \in Signals, Said(s), NEW cache \in Tables, NEW eq, NEW list, NEW r \in BOOLEAN,
         NEW n, Agree(objects, signals, cache, eq, list, r, n)
  PROVE  Agree(objects', signals', cache, eq, list, r, n)
<1>1. /\ signals' = Append(signals, s) /\ signals \in Seq(Signals)
      /\ \A p \in Paths : /\ objects[p] \in States /\ objects'[p] \in States
                          /\ <<s, objects[p], objects'[p]>> \in Tells(p)
  BY QueueTypes DEF Said, IInv, BluezType, States
<1> QED BY <1>1, AgreeSent

\* What was certain of a connection stays certain.
LEMMA SaidCertain ==
  ASSUME IInv, NEW s \in Signals, Said(s), NEW p \in Paths, NEW b \in BOOLEAN,
         Certain(p, objects[p], signals, b)
  PROVE  Certain(p, objects'[p], signals', b)
<1>1. InFlight(signals', Deciding(p)) <=> InFlight(signals, Deciding(p)) \/ s \in Deciding(p)
  BY DeviceTypes, InFlightFacts DEF Said
<1>2. Tells(p) \subseteq Signals \X States \X States /\ <<s, objects[p], objects'[p]>> \in Tells(p)
  BY DEF Tells, Said
<1>3. objects[p] # Absent => s \in Deciding(p) \/ /\ objects'[p] # Absent
                                                  /\ objects'[p].connected = objects[p].connected
  <2> DEFINE o == objects[p]
             x == objects'[p]
  <2>1. o \in States /\ x \in States /\ <<s, o, x>> \in Tells(p)
    BY <1>2 DEF Tells
  <2> HIDE DEF o, x
  <2>2. <<s>> \in Seq(Signals)
    OBVIOUS
  <2>3. Leads(Tells(p), States, <<s>>, o, x)
    BY <2>1, LeadsOnce
  <2>4. o # Absent => InFlight(<<s>>, Deciding(p)) \/ (x # Absent /\ x.connected = o.connected)
    BY <2>1, <2>2, <2>3, SignalsTell
  <2>5. InFlight(<<s>>, Deciding(p)) => s \in Deciding(p)
    BY DEF InFlight
  <2> QED BY <2>4, <2>5 DEF o, x
<1> QED BY <1>1, <1>3 DEF Certain

\* A device that bluetoothd changes is the only one its signal tells of.
LEMMA SaysOfOne ==
  ASSUME IInv, NEW p \in Paths, NEW s \in Signals, s.path = p, NEW new \in States,
         <<s, objects[p], new>> \in Tells(p), objects' = [objects EXCEPT ![p] = new],
         signals' = Append(signals, s)
  PROVE  Said(s)
<1>1. ASSUME NEW o \in Paths
      PROVE  objects'[o] \in States /\ <<s, objects[o], objects'[o]>> \in Tells(o)
  <2>1. objects'[o] = IF o = p THEN new ELSE objects[o]
    BY DEF IInv, BluezType
  <2>2. CASE o = p
    BY <2>1, <2>2
  <2>3. CASE o # p
    BY <2>1, <2>3, DeviceTypes DEF Tells
  <2> QED BY <2>2, <2>3
<1> QED BY <1>1 DEF Said

\* What bluetoothd does by itself it says.
LEMMA BluezSays ==
  ASSUME IInv, session = "up", Bluez
  PROVE  \E s \in Signals : Said(s)
<1>1. PICK p \in Paths : \/ \E props \in Properties : BluezAdds(p, props)
                         \/ \E changed \in Changes : BluezChanges(p, changed)
                         \/ \E changed \in Changes : BluezResolves(p, changed)
                         \/ BluezRemoves(p)
  BY DEF Bluez
<1>2. objects[p] \in States /\ signals \in Seq(Signals)
  BY DeviceTypes
<1>3. ASSUME NEW props \in Properties, BluezAdds(p, props)
      PROVE  \E s \in Signals : Said(s)
  <2> DEFINE s == Signal("added", p, AddressOf[p], props)
  <2>1. s \in Signals /\ s.path = p /\ s.type = "added" /\ s.changed = props
    BY TwoKeys DEF Signal, Signals
  <2>2. /\ objects[p] = Absent /\ objects' = [objects EXCEPT ![p] = props]
        /\ signals' = signals \o <<s>>
    BY <1>3 DEF BluezAdds, Sent
  <2> HIDE DEF s
  <2>3. signals' = Append(signals, s) /\ props \in States
    BY <1>2, <2>1, <2>2, OneMore DEF States
  <2>4. <<s, objects[p], props>> \in Tells(p)
    BY <1>2, <2>1, <2>2, <2>3 DEF Tells
  <2> QED BY <2>1, <2>2, <2>3, <2>4, SaysOfOne
<1>4. ASSUME NEW changed \in Changes, NEW a \in Addresses \cup {Absent}, objects[p] # Absent,
             objects' = [objects EXCEPT ![p] = With(changed, @)],
             Sent(<<Signal("changed", p, a, changed)>>)
      PROVE  \E s \in Signals : Said(s)
  <2> DEFINE s == Signal("changed", p, a, changed)
             new == With(changed, objects[p])
  <2>1. s \in Signals /\ s.path = p /\ s.type = "changed" /\ s.changed = changed
    BY DEF Signal, Signals
  <2>2. /\ objects[p] # Absent /\ objects' = [objects EXCEPT ![p] = new]
        /\ signals' = signals \o <<s>>
    BY <1>4 DEF Sent
  <2>3. new \in States
    BY <1>2, <2>2, WithFields DEF States
  <2> HIDE DEF s
  <2>4. signals' = Append(signals, s)
    BY <1>2, <2>1, <2>2, OneMore
  <2>5. <<s, objects[p], new>> \in Tells(p)
    BY <1>2, <2>1, <2>2, <2>3 DEF Tells
  <2> QED BY <2>1, <2>2, <2>3, <2>4, <2>5, SaysOfOne
<1>5. CASE BluezRemoves(p)
  <2> DEFINE s == Signal("removed", p, Absent, Nothing)
  <2>1. s \in Signals /\ s.path = p /\ s.type = "removed"
    BY ChangeTypes DEF Signal, Signals
  <2>2. /\ objects[p] # Absent /\ objects' = [objects EXCEPT ![p] = Absent]
        /\ signals' = signals \o <<s>>
    BY <1>5 DEF BluezRemoves, Vanishes, Sent
  <2> HIDE DEF s
  <2>3. signals' = Append(signals, s) /\ Absent \in States
    BY <1>2, <2>1, <2>2, OneMore DEF States
  <2>4. <<s, objects[p], Absent>> \in Tells(p)
    BY <1>2, <2>1, <2>2, <2>3 DEF Tells
  <2> QED BY <2>1, <2>2, <2>3, <2>4, SaysOfOne
<1>6. ASSUME NEW changed \in Changes, BluezChanges(p, changed)
      PROVE  \E s \in Signals : Said(s)
  BY <1>4, <1>6 DEF BluezChanges
<1>7. ASSUME NEW changed \in Changes, BluezResolves(p, changed)
      PROVE  \E s \in Signals : Said(s)
  <2>1. IdentityOf[p] \in Addresses
    BY MacFacts
  <2> QED BY <1>4, <1>7, <2>1 DEF BluezResolves
<1> QED BY <1>1, <1>3, <1>5, <1>6, <1>7

\* What a request changes is so, and bluetoothd says it.
LEMMA SetsSays ==
  ASSUME IInv, session = "up", NEW p \in Paths, objects[p] # Absent,
         NEW x \in {"paired", "connected"}, NEW b \in BOOLEAN, BluezSets(p, x, b)
  PROVE  /\ objects'[p] # Absent /\ objects'[p][x] = b
         /\ \/ UNCHANGED <<objects, signals>>
            \/ \E s \in Signals : Said(s)
<1> DEFINE new == [objects[p] EXCEPT ![x] = b]
           ch == [y \in {x} |-> b]
           s == Signal("changed", p, Absent, ch)
<1>1. objects[p] \in Properties /\ signals \in Seq(Signals)
  BY DeviceTypes DEF States
<1>2. objects' = [objects EXCEPT ![p] = new] /\ objects'[p] = new
  BY DEF BluezSets, IInv, BluezType
<1>3. new \in Properties /\ new[x] = b
  BY <1>1 DEF Properties
<1>4. objects'[p] # Absent /\ objects'[p][x] = b
  BY <1>2, <1>3, AbsentAssumption DEF AbsentAssumption
<1>5. CASE objects[p][x] = b
  <2>1. new = objects[p]
    BY <1>1, <1>5 DEF Properties
  <2>2. objects' = objects
    BY <1>2, <2>1 DEF IInv, BluezType
  <2>3. signals' = signals
    BY <1>5 DEF BluezSets
  <2> QED BY <1>4, <2>2, <2>3
<1>6. CASE objects[p][x] # b
  <2>1. signals' = signals \o <<s>>
    BY <1>6 DEF BluezSets, Sent
  <2>2. ch \in Changes
    BY ChangeTypes
  <2>3. s \in Signals /\ s.path = p /\ s.type = "changed" /\ s.changed = ch
    BY <2>2 DEF Signal, Signals
  <2>4. new = With(ch, objects[p])
    BY <1>1 DEF With, Properties
  <2> HIDE DEF s, new, ch
  <2>5. signals' = Append(signals, s) /\ new \in States
    BY <1>1, <1>3, <2>1, <2>3, OneMore DEF States
  <2>6. <<s, objects[p], new>> \in Tells(p)
    BY <1>1, <2>3, <2>4, <2>5 DEF Tells, States
  <2>7. Said(s)
    BY <1>2, <2>3, <2>5, <2>6, SaysOfOne
  <2> QED BY <1>4, <2>3, <2>7
<1> QED BY <1>5, <1>6

-----------------------------------------------------------------------------
(* What a command tells                                                    *)

\* The node is told whether a device is connected, and that is what the cache says of it
\* or a signal about it is to come.
LEMMA AgreeConnection ==
  ASSUME NEW objs, NEW q, NEW cache, NEW eq \in Seq(GoodEvents), NEW list \in Tables, NEW r, NEW n,
         Agree(objs, q, cache, eq, list, r, n), NEW p \in Paths, NEW b \in BOOLEAN,
         cache[AddressOf[p]] # Absent => InFlight(q, Deciding(p)) \/ cache[AddressOf[p]].connected = b
  PROVE  /\ Agree(objs, q, cache, Append(eq, Connection(AddressOf[p], b)), list, r, n)
         /\ Append(eq, Connection(AddressOf[p], b)) \in Seq(GoodEvents)
<1> DEFINE e == Connection(AddressOf[p], b)
<1>1. e \in GoodEvents /\ Append(eq, e) \in Seq(GoodEvents)
  BY TwoKeys, GoodDeviceEvents, OneMore
<1>2. ASSUME NEW o \in Paths, o \in Steady
      PROVE  Told(o, q, Two(cache, o), Append(eq, e), Two(list, o), r, n)
  <2>1. Told(o, q, Two(cache, o), eq, Two(list, o), r, n) /\ Two(list, o) \in Pairs
    BY <1>2, TwoKeys DEF Agree
  <2>2. CASE o = p
    <3>1. Two(cache, o)[1] # Absent => InFlight(q, Deciding(o)) \/ Two(cache, o)[1].connected = b
      BY <2>2 DEF Two
    <3> QED BY <2>1, <2>2, <3>1, ToldConnection
  <2>3. CASE o # p
    <3>1. AddressOf[p] \in Addresses \ {AddressOf[o]}
      BY <2>3, TwoKeys
    <3>2. \A y \in Pairs : <<e, y, y>> \in Hears(o)
      BY <3>1, HearsFlags
    <3> QED BY <1>1, <2>1, <3>2, ToldNothing
  <2> QED BY <2>2, <2>3
<1> QED BY <1>1, <1>2 DEF Agree, Steady

\* The node is told that a device is paired.
LEMMA AgreePaired ==
  ASSUME NEW objs, NEW q, NEW cache, NEW eq \in Seq(GoodEvents), NEW list \in Tables, NEW r, NEW n,
         Agree(objs, q, cache, eq, list, r, n), NEW k \in Keys
  PROVE  /\ Agree(objs, q, cache, Append(eq, PairingSucceeded(k)), list, r, n)
         /\ Append(eq, PairingSucceeded(k)) \in Seq(GoodEvents)
<1>1. Append(eq, PairingSucceeded(k)) \in Seq(GoodEvents)
  BY GoodDeviceEvents, OneMore
<1>2. ASSUME NEW o \in Paths, o \in Steady
      PROVE  Told(o, q, Two(cache, o), Append(eq, PairingSucceeded(k)), Two(list, o), r, n)
  BY <1>2, ToldPaired, TwoKeys DEF Agree
<1> QED BY <1>1, <1>2 DEF Agree, Steady

\* A reply is cached and told with force.
LEMMA SteadyReply ==
  ASSUME IInv, Agreement, NEW p \in Paths, p \notin readdressed, objects[p] # Absent,
         CacheUpsert({FromBluez(p)})
  PROVE  /\ Agree(objects, signals, discovered', Append(event_queue, FoundAfter(FromBluez(p))),
                  devices, refreshed, nameless)
         /\ FoundAfter(FromBluez(p)) \in GoodEvents
<1> DEFINE i == FromBluez(p)
           c == Two(discovered, p)
           m == Joined(i, c)
           o == objects[p]
<1>1. o \in Properties /\ c \in Pairs /\ event_queue \in Seq(GoodEvents) /\ signals \in Seq(Signals)
  BY DeviceTypes DEF States
<1>2. /\ i \in Infos /\ i \in Plain(readdressed) /\ i.device_id = p /\ i.address \in Addresses
      /\ i.paired = o.paired /\ i.connected = o.connected
  <2>1. i \in Infos /\ i \in Plain(readdressed) /\ i.device_id = p /\ i.address \in Addresses
    BY FromBluezType DEF IInv, Plain
  <2>2. i.paired = o.paired /\ i.connected = o.connected
    BY DEF FromBluez
  <2> QED BY <2>1, <2>2
<1> HIDE DEF i, o
<1>3. /\ Two(discovered', p) = After(i, c)
      /\ \A x \in Steady \ {p} : Two(discovered', x) = Two(discovered, x)
      /\ FoundAfter(i) = Found(m)
  BY <1>2, CacheUpsertTwo DEF IInv, i
<1>4. m \in Infos /\ m.device_id = p /\ m.address \in Addresses /\ After(i, c) = <<m, Absent>>
  BY <1>1, <1>2, JoinedType DEF After
<1> HIDE DEF m, c
<1>5. Found(m) \in GoodEvents
  BY <1>4 DEF Found, GoodEvents, Events
<1>6. ASSUME NEW x \in Paths, x \in Steady
      PROVE  /\ Bus(x, objects[x], signals, Two(discovered', x), refreshed)
             /\ Told(x, signals, Two(discovered', x), Append(event_queue, Found(m)), Two(devices, x),
                     refreshed, nameless)
  <2>1. /\ Bus(x, objects[x], signals, Two(discovered, x), refreshed)
        /\ Told(x, signals, Two(discovered, x), event_queue, Two(devices, x), refreshed, nameless)
    BY <1>6 DEF Agreement, Agree
  <2>2. CASE x = p
    <3>1. Bus(p, o, signals, c, refreshed) /\ refreshed \in BOOLEAN
      BY <2>1, <2>2, DeviceTypes DEF o, c
    <3>2. Bus(p, o, signals, After(i, c), refreshed)
      BY <1>1, <1>2, <3>1, BusReply
    <3>3. Told(p, signals, <<m, Absent>>, Append(event_queue, Found(m)), Two(devices, p), refreshed, nameless)
      BY <1>1, <1>4, <2>1, <2>2, DeviceTypes, ToldFound
    <3> QED BY <1>3, <1>4, <2>2, <3>2, <3>3 DEF o
  <2>3. CASE x # p
    <3>1. \A y \in Pairs : <<Found(m), y, y>> \in Hears(x)
      BY <1>4, <2>3, HearsFound
    <3> QED BY <1>1, <1>3, <1>5, <1>6, <2>1, <2>3, <3>1, DeviceTypes, ToldNothing
  <2> QED BY <2>2, <2>3
<1> QED BY <1>3, <1>5, <1>6 DEF Agree, Steady, i

\* So is one about a device whose MAC has changed.
LEMMA AgreeReply ==
  ASSUME IInv, Agreement, NEW p \in Paths, objects[p] # Absent, CacheUpsert({FromBluez(p)})
  PROVE  /\ Agree(objects, signals, discovered', Append(event_queue, FoundAfter(FromBluez(p))),
                  devices, refreshed, nameless)
         /\ FoundAfter(FromBluez(p)) \in GoodEvents
<1>1. SUFFICES ASSUME p \in readdressed
               PROVE  /\ Agree(objects, signals, discovered', Append(event_queue, FoundAfter(FromBluez(p))),
                               devices, refreshed, nameless)
                      /\ FoundAfter(FromBluez(p)) \in GoodEvents
  BY SteadyReply
<1>2. FromBluez(p) \in Plain(readdressed) /\ FromBluez(p).device_id = p
  BY FromBluezType DEF IInv
<1>3. PICK m \in Infos : FoundAfter(FromBluez(p)) = Found(m) /\ m.device_id = p
  BY <1>2, CacheUpsertTwo DEF IInv
<1>4. Unheard(Found(m))
  BY <1>1, <1>3, StrangersEvents
<1>5. Agree(objects, signals, discovered', event_queue, devices, refreshed, nameless)
  <2>1. \A o \in Steady : Two(discovered', o) = Two(discovered, o)
    BY <1>1, <1>2, CacheUpsertTwo DEF IInv, Steady
  <2> QED BY <2>1, AgreeElsewhere DEF Agreement
<1>6. event_queue \in Seq(GoodEvents) /\ devices \in Tables
  BY QueueTypes DEF IInv, NodeInv
<1> QED BY <1>3, <1>4, <1>5, <1>6, AgreeUnheard DEF Unheard

\* What is certain of a device's connection, its record says or a signal will.
LEMMA CertainRecord ==
  ASSUME NEW p, NEW o, NEW q, NEW c, NEW r, NEW b, Bus(p, o, q, c, r), Certain(p, o, q, b)
  PROVE  c[1] # Absent => InFlight(q, Deciding(p)) \/ c[1].connected = b
BY DEF Bus, Certain

\* What is read back agrees, before the command's own events.
LEMMA ReadAgrees ==
  ASSUME IInv, Agreement, job.path \in Paths, NEW events \in Seq(GoodEvents), ReadBack(events)
  PROVE  \E eq \in Seq(GoodEvents) :
           /\ event_queue' = eq \o events
           /\ Agree(objects, signals, discovered', eq, devices, refreshed, nameless)
<1>0. event_queue \in Seq(GoodEvents)
  BY QueueTypes
<1>1. CASE /\ objects[job.path] # Absent
           /\ CacheUpsert({FromBluez(job.path)})
           /\ Emit(<<FoundAfter(FromBluez(job.path))>> \o events)
  <2> DEFINE e == FoundAfter(FromBluez(job.path))
             eq == Append(event_queue, e)
  <2>1. Agree(objects, signals, discovered', eq, devices, refreshed, nameless) /\ e \in GoodEvents
    BY <1>1, AgreeReply
  <2>2. eq \in Seq(GoodEvents)
    BY <1>0, <2>1, OneMore
  <2>3. event_queue' = event_queue \o (<<e>> \o events)
    BY <1>1 DEF Emit
  <2>4. event_queue' = eq \o events
    <3> HIDE DEF e
    <3> QED BY <1>0, <2>1, <2>3, ManyMore
  <2> HIDE DEF eq
  <2> QED BY <2>1, <2>2, <2>4
<1>2. CASE UNCHANGED cacheVars /\ Emit(events)
  <2>1. event_queue' = event_queue \o events /\ discovered' = discovered
    BY <1>2 DEF Emit, cacheVars
  <2> QED BY <1>0, <2>1 DEF Agreement
<1> QED BY <1>1, <1>2 DEF ReadBack

-----------------------------------------------------------------------------
(* Commands that go on                                                     *)

\* pair_device reads what has become of the device, and tells that it is paired.
LEMMA PairReadAgrees ==
  ASSUME IInv, Agreement, PairRead
  PROVE  Agreement' /\ JobTrue'
<1>1. /\ job.at = "pair" /\ ReadBack(<<PairingSucceeded(job.told)>>)
      /\ Go("refresh", job.path, job.told)
      /\ UNCHANGED <<objects, readdressed, signals, refreshed, devices, nameless>>
  BY DEF PairRead, At, bluezVars, nodeVars
<1>2. job.path \in Paths /\ job.told \in Keys
  BY <1>1, JobFacts DEF IInv
<1>3. JobTrue'
  BY <1>1 DEF Go, JobTrue
<1>4. PairingSucceeded(job.told) \in GoodEvents
  BY <1>2, GoodDeviceEvents
<1>5. PICK eq \in Seq(GoodEvents) :
        /\ event_queue' = eq \o <<PairingSucceeded(job.told)>>
        /\ Agree(objects, signals, discovered', eq, devices, refreshed, nameless)
  BY <1>1, <1>2, <1>4, GoodDeviceEvents, ReadAgrees
<1>6. event_queue' = Append(eq, PairingSucceeded(job.told))
  BY <1>4, <1>5, OneMore
<1>7. /\ devices \in Tables
      /\ Agree(objects, signals, discovered', event_queue', devices, refreshed, nameless)
  BY <1>2, <1>5, <1>6, AgreePaired DEF IInv, NodeInv
<1> QED BY <1>1, <1>3, <1>7 DEF Agreement, Agree, Two, Steady

\* What is certain of a connection may be told after what is read back.
LEMMA ConnectionAgrees ==
  ASSUME IInv, Agreement, job.path \in Paths, job.told \in MacsOf(job.path),
         job.path \in Steady => job.told = AddressOf[job.path], NEW b \in BOOLEAN,
         ReadBack(<<Connection(job.told, b)>>),
         UNCHANGED <<objects, readdressed, signals, refreshed, devices, nameless>>,
         Certain(job.path, objects[job.path], signals, b)
  PROVE  Agreement'
<1> DEFINE p == job.path
           e == Connection(job.told, b)
<1>1. e \in GoodEvents
  BY MacFacts, GoodDeviceEvents
<1>2. PICK eq \in Seq(GoodEvents) :
        /\ event_queue' = eq \o <<e>>
        /\ Agree(objects, signals, discovered', eq, devices, refreshed, nameless)
  BY <1>1, GoodDeviceEvents, ReadAgrees
<1>3. event_queue' = Append(eq, e)
  BY <1>1, <1>2, OneMore
<1>4. ASSUME p \in Steady, discovered'[AddressOf[p]] # Absent
      PROVE  InFlight(signals, Deciding(p)) \/ discovered'[AddressOf[p]].connected = b
  <2>1. Bus(p, objects[p], signals, Two(discovered', p), refreshed)
    BY <1>2, <1>4 DEF Agree
  <2>2. Two(discovered', p)[1] # Absent
          => InFlight(signals, Deciding(p)) \/ Two(discovered', p)[1].connected = b
    BY <2>1, CertainRecord
  <2>3. Two(discovered', p)[1] = discovered'[AddressOf[p]]
    BY DEF Two
  <2> QED BY <1>4, <2>2, <2>3
<1>5. devices \in Tables
  BY DEF IInv, NodeInv
<1>6. Agree(objects, signals, discovered', Append(eq, e), devices, refreshed, nameless)
  <2>1. CASE p \in Steady
    BY <1>2, <1>4, <1>5, <2>1, AgreeConnection
  <2>2. CASE p \notin Steady
    <3>1. Unheard(e)
      BY <2>2, StrangersEvents DEF Steady
    <3> QED BY <1>2, <1>5, <3>1, AgreeUnheard
  <2> QED BY <2>1, <2>2
<1> QED BY <1>3, <1>6 DEF Agreement, Agree, Two, Steady

\* connect_device tells that the device is connected, which it was.
LEMMA ConnectReadAgrees ==
  ASSUME IInv, Agreement, JobTrue, ConnectRead
  PROVE  Agreement' /\ JobTrue'
<1>1. /\ job.at = "connect" /\ ReadBack(<<Connection(job.told, TRUE)>>) /\ job' = Idle
      /\ UNCHANGED <<objects, readdressed, signals, refreshed, devices, nameless>>
  BY DEF ConnectRead, At, bluezVars, nodeVars
<1>2. /\ job.path \in Paths /\ job.told \in MacsOf(job.path)
      /\ job.path \in Steady => job.told = AddressOf[job.path]
      /\ Certain(job.path, objects[job.path], signals, TRUE)
  BY <1>1, JobFacts DEF IInv, JobTrue
<1> QED BY <1>1, <1>2, ConnectionAgrees DEF JobTrue, Idle

\* unpair_device tells that the device is not.
LEMMA UnpairReadAgrees ==
  ASSUME IInv, Agreement, JobTrue, UnpairRead
  PROVE  Agreement' /\ JobTrue'
<1>1. /\ job.at = "unpair_read" /\ ReadBack(<<Connection(job.told, FALSE)>>)
      /\ Go("unpair_remove", job.path, job.told)
      /\ UNCHANGED <<objects, readdressed, signals, refreshed, devices, nameless>>
  BY DEF UnpairRead, At, bluezVars, nodeVars
<1>2. /\ job.path \in Paths /\ job.told \in MacsOf(job.path)
      /\ job.path \in Steady => job.told = AddressOf[job.path]
      /\ Certain(job.path, objects[job.path], signals, FALSE)
  BY <1>1, JobFacts DEF IInv, JobTrue
<1>3. JobTrue'
  BY <1>1, <1>2 DEF Go, JobTrue, Steady
<1> QED BY <1>1, <1>2, <1>3, ConnectionAgrees

\* So does disconnect_device, and if the device is connected again a signal says so.
LEMMA DisconnectReadAgrees ==
  ASSUME IInv, Agreement, JobTrue, DisconnectRead
  PROVE  Agreement' /\ JobTrue'
<1> DEFINE back == objects[job.path] # Absent /\ objects[job.path].connected
<1>1. /\ job.at = "disconnect" /\ job' = Idle
      /\ \/ ReadBack(<<Connection(job.told, FALSE)>>)
         \/ ReadBack(<<>>)
         \/ UNCHANGED cacheVars /\ Emit(<<Connection(job.told, FALSE)>>)
      /\ UNCHANGED <<objects, readdressed, signals, refreshed, devices, nameless>>
  BY DEF DisconnectRead, At, bluezVars, nodeVars
<1>2. /\ job.path \in Paths /\ job.told \in MacsOf(job.path)
      /\ job.path \in Steady => job.told = AddressOf[job.path]
      /\ Certain(job.path, objects[job.path], signals, FALSE)
  BY <1>1, JobFacts DEF IInv, JobTrue
<1>3. JobTrue'
  BY <1>1 DEF JobTrue, Idle
<1>4. CASE ReadBack(<<Connection(job.told, FALSE)>>)
  BY <1>1, <1>2, <1>3, <1>4, ConnectionAgrees
<1>5. CASE UNCHANGED cacheVars /\ Emit(<<Connection(job.told, FALSE)>>)
  <2>1. ReadBack(<<Connection(job.told, FALSE)>>)
    BY <1>5 DEF ReadBack
  <2> QED BY <1>1, <1>2, <1>3, <2>1, ConnectionAgrees
<1>6. CASE ReadBack(<<>>)
  <2>1. PICK eq \in Seq(GoodEvents) :
          /\ event_queue' = eq \o <<>>
          /\ Agree(objects, signals, discovered', eq, devices, refreshed, nameless)
    BY <1>2, <1>6, GoodDeviceEvents, ReadAgrees
  <2>2. event_queue' = eq
    BY <2>1
  <2> QED BY <1>1, <1>3, <2>1, <2>2 DEF Agreement, Agree, Two, Steady
<1> QED BY <1>1, <1>4, <1>5, <1>6

-----------------------------------------------------------------------------
(* Commands that begin                                                     *)

\* A command finds the device that has the address, and what it learns of it agrees: a
\* device that the cache did not know is one whose signal is still to come.
LEMMA BeginAgrees ==
  ASSUME IInv, Agreement, NEW a \in Addresses, Begin(a), UNCHANGED readdressed
  PROVE  /\ Resolved(a) \in Paths /\ a \in MacsOf(Resolved(a))
         /\ Resolved(a) \in Steady => AddressOf[Resolved(a)] = a
         /\ discovered' \in Tables /\ Record(a) = discovered'[a]
         /\ Agree(objects, signals, discovered', event_queue, devices, refreshed, nameless)
         /\ session = "up" /\ UNCHANGED <<devices, refreshed, nameless>>
<1>1. PICK x \in Paths : a \in MacsOf(x)
  BY DEF Addresses
<1>2. /\ discovered' = Upserted(discovered, Learned(a)) /\ CacheUpsert(Learned(a))
      /\ session = "up" /\ UNCHANGED <<devices, refreshed, nameless>>
  BY DEF Begin, CacheUpsert, Free, nodeVars, sessionVars
<1>3. Record(a) = discovered'[a]
  BY <1>2 DEF Record
<1>4. discovered' \in Tables
  BY BeginKeeps DEF IInv, CacheInv, CacheType
<1>5. a \in Keys /\ \A p \in Paths : p # Absent
  BY MacFacts, DevicesAssumption DEF DevicesAssumption, Keys
<1>6. discovered[a] # Absent => discovered[a].device_id = x
  BY <1>1, AtAddress DEF IInv
<1>7. /\ discovered[a] # Absent => address_to_id[a] = x
      /\ discovered[a] = Absent /\ address_to_id[a] # Absent
           => address_to_id[a] \in readdressed /\ a \in MacsOf(address_to_id[a])
  BY <1>6 DEF IInv, CacheInv, IndexesAgree
<1>8. /\ CachedPath(a) \in {x, Absent}
      /\ CachedPath(a) = Absent => discovered[a] = Absent
  <2>1. address_to_id[a] \in Paths \cup {Absent}
    BY DEF IInv, CacheInv, CacheType
  <2>2. address_to_id[a] # Absent => address_to_id[a] = x
    BY <1>1, <1>7, <2>1, MacFacts
  <2> QED BY <1>5, <1>6, <2>2 DEF CachedPath
<1>9. CASE CachedPath(a) # Absent
  <2>1. Resolved(a) = x /\ Learned(a) = {}
    BY <1>8, <1>9 DEF Resolved, Learned
  <2>2. discovered' = discovered
    BY <1>2, <2>1 DEF Upserted, IInv, CacheInv, CacheType, Tables
  <2>3. x \in Steady => AddressOf[x] = a
    <3>1. CASE discovered[a] # Absent
      <4>1. discovered[a] \in Plain(readdressed) /\ discovered[a].device_id = x /\ a = Key(discovered[a])
        BY <1>5, <1>6, <3>1 DEF IInv, CacheInv, PlainTables, Tidy
      <4> QED BY <1>1, <4>1, KeyType, MacFacts DEF Plain, Steady
    <3>2. CASE discovered[a] = Absent
      <4>1. address_to_id[a] # Absent
        BY <1>9, <3>2 DEF CachedPath
      <4>2. address_to_id[a] = x
        BY <1>8, <4>1 DEF CachedPath
      <4> QED BY <1>7, <3>2, <4>1, <4>2 DEF Steady
    <3> QED BY <3>1, <3>2
  <2> QED BY <1>1, <1>2, <1>3, <1>4, <2>1, <2>2, <2>3 DEF Agreement
<1>10. CASE CachedPath(a) = Absent
  <2> DEFINE p == Resolved(a)
             i == FromBluez(p)
             m == Joined(i, Two(discovered, p))
  <2>2. p \in Paths /\ objects[p] # Absent /\ mac[p] = a
    <3>1. Resolved(a) # Absent
      BY DEF Begin
    <3>2. \E y \in Paths : Knows(a, y)
      BY <1>10, <3>1 DEF Resolved
    <3>3. Resolved(a) = CHOOSE y \in Paths : Knows(a, y)
      BY <1>10, <3>2 DEF Resolved
    <3> QED BY <3>2, <3>3 DEF Knows
  <2>3. CacheUpsert({i})
    BY <1>2, <1>10 DEF Learned
  <2>4. /\ i \in Infos /\ i \in Plain(readdressed) /\ i.device_id = p /\ i.address \in Addresses
        /\ i.paired = objects[p].paired /\ i.connected = objects[p].connected
    <3>1. i \in Infos /\ i \in Plain(readdressed) /\ i.device_id = p /\ i.address \in Addresses
      BY <2>2, FromBluezType DEF IInv, Plain
    <3>2. i.paired = objects[p].paired /\ i.connected = objects[p].connected
      BY DEF FromBluez
    <3> QED BY <3>1, <3>2
  <2>13. a \in MacsOf(p) /\ (p \in Steady => AddressOf[p] = a)
    BY <2>2 DEF IInv, BluezType, MacType, Steady
  <2> HIDE DEF p, i
  <2>5. \A y \in Steady \ {p} : Two(discovered', y) = Two(discovered, y)
    BY <2>3, <2>4, CacheUpsertTwo DEF IInv
  <2>14. CASE p \in Steady
    <3>0. p \notin readdressed /\ AddressOf[p] = a
      BY <2>13, <2>14 DEF Steady
    <3>1. Two(discovered', p) = After(i, Two(discovered, p))
      BY <2>3, <2>4, <3>0, CacheUpsertTwo DEF IInv
    <3>2. After(i, Two(discovered, p)) = <<m, Absent>> /\ m \in Infos
      BY <2>2, <2>4, DeviceTypes, JoinedType DEF After
    <3> HIDE DEF m
    <3>3. /\ Bus(p, objects[p], signals, Two(discovered, p), refreshed)
          /\ Told(p, signals, Two(discovered, p), event_queue, Two(devices, p), refreshed, nameless)
      BY <2>14 DEF Agreement, Agree
    <3>4. Two(discovered, p)[1] = Absent
      BY <1>8, <1>10, <3>0 DEF Two
    <3>5. objects[p] \in Properties
      BY <2>2, DeviceTypes DEF States
    <3>6. Bus(p, objects[p], signals, After(i, Two(discovered, p)), refreshed)
      BY <2>2, <2>4, <3>3, <3>5, DeviceTypes, BusReply
    <3>7. Told(p, signals, <<m, Absent>>, event_queue, Two(devices, p), refreshed, nameless)
      <4>1. refreshed => InFlight(signals, Adding(p))
        BY <2>2, <3>3, <3>4 DEF Bus
      <4> QED BY <3>2, <3>3, <3>4, <4>1, ToldLearned
    <3>8. Agree(objects, signals, discovered', event_queue, devices, refreshed, nameless)
      BY <2>5, <3>1, <3>2, <3>6, <3>7 DEF Agreement, Agree
    <3> QED BY <1>2, <1>3, <1>4, <2>2, <2>13, <3>8 DEF p
  <2>15. CASE p \notin Steady
    <3>1. Agree(objects, signals, discovered', event_queue, devices, refreshed, nameless)
      BY <2>5, <2>15, AgreeElsewhere DEF Agreement
    <3> QED BY <1>2, <1>3, <1>4, <2>2, <2>13, <2>15, <3>1 DEF p
  <2> QED BY <2>14, <2>15
<1> QED BY <1>9, <1>10

\* Nothing or something is said: the lists go on agreeing.
LEMMA SetAgrees ==
  ASSUME IInv, NEW cache \in Tables, Agree(objects, signals, cache,
                                           event_queue, devices, refreshed, nameless),
         session = "up", NEW p \in Paths, objects[p] # Absent,
         NEW x \in {"paired", "connected"}, NEW b \in BOOLEAN, BluezSets(p, x, b)
  PROVE  /\ Agree(objects', signals', cache, event_queue, devices, refreshed, nameless)
         /\ x = "connected" => Certain(p, objects'[p], signals', b)
<1>1. /\ objects'[p] # Absent /\ objects'[p][x] = b
      /\ \/ UNCHANGED <<objects, signals>>
         \/ \E s \in Signals : Said(s)
  BY SetsSays
<1>2. x = "connected" => Certain(p, objects'[p], signals', b)
  BY <1>1 DEF Certain
<1>3. refreshed \in BOOLEAN
  BY DEF IInv, SessionType
<1>4. Agree(objects', signals', cache, event_queue, devices, refreshed, nameless)
  <2>1. CASE UNCHANGED <<objects, signals>>
    BY <2>1
  <2>2. CASE \E s \in Signals : Said(s)
    BY <1>3, <2>2, SaidAgrees
  <2> QED BY <1>1, <2>1, <2>2
<1> QED BY <1>2, <1>4

\* Device1.Pair is sent, or the node is told at once that the device is paired.
LEMMA PairAgrees ==
  ASSUME IInv, NEW p \in Paths, NEW told \in Keys, NEW known, Pair(p, told, known), session = "up",
         NEW cache \in Tables, Agree(objects, signals, cache, event_queue, devices, refreshed, nameless)
  PROVE  /\ Agree(objects', signals', cache, event_queue', devices, refreshed, nameless)
         /\ JobTrue'
<1>1. JobTrue'
  <2>1. Go("refresh", p, told) \/ Go("pair", p, told)
    BY DEF Pair
  <2>2. job'.at \in {"refresh", "pair"}
    BY <2>1 DEF Go
  <2> QED BY <2>2 DEF JobTrue
<1>2. CASE Emit(<<PairingSucceeded(told)>>) /\ UNCHANGED <<objects, signals>>
  <2>1. /\ event_queue \in Seq(GoodEvents) /\ devices \in Tables
        /\ PairingSucceeded(told) \in GoodEvents
    BY QueueTypes, GoodDeviceEvents DEF IInv, NodeInv
  <2>2. event_queue' = Append(event_queue, PairingSucceeded(told))
    BY <1>2, <2>1, OneMore DEF Emit
  <2> QED BY <1>1, <1>2, <2>1, <2>2, AgreePaired
<1>3. CASE objects[p] # Absent /\ BluezSets(p, "paired", TRUE) /\ UNCHANGED event_queue
  BY <1>1, <1>3, SetAgrees
<1> QED BY <1>2, <1>3 DEF Pair, bluezVars

\* A command that names an address begins, or fails.
LEMMA CommandAgrees ==
  ASSUME IInv, Agreement, JobTrue, NEW a \in Addresses,
         \/ RequestFails(a) \/ PairDevice(a) \/ ConnectDevice(a)
         \/ DisconnectDevice(a) \/ UnpairDevice(a)
  PROVE  Agreement' /\ JobTrue'
<1> DEFINE p == Resolved(a)
<1>1. Begin(a)
  BY DEF RequestFails, PairDevice, ConnectDevice, DisconnectDevice, UnpairDevice
<1>0. UNCHANGED readdressed
  BY DEF RequestFails, PairDevice, Pair, ConnectDevice, DisconnectDevice, UnpairDevice, BluezSets,
         bluezVars
<1>2. /\ p \in Paths /\ a \in MacsOf(p) /\ (p \in Steady => AddressOf[p] = a)
      /\ discovered' \in Tables /\ Record(a) = discovered'[a]
      /\ Agree(objects, signals, discovered', event_queue, devices, refreshed, nameless)
      /\ session = "up" /\ UNCHANGED <<devices, refreshed, nameless>>
  BY <1>0, <1>1, BeginAgrees
<1>3. SUFFICES /\ Agree(objects', signals', discovered', event_queue', devices, refreshed, nameless)
               /\ JobTrue'
  BY <1>0, <1>2 DEF Agreement, Agree, Two, Steady
<1> HIDE DEF p
<1>4. CASE RequestFails(a)
  <2>1. UNCHANGED <<objects, signals, job, event_queue>>
    BY <1>4 DEF RequestFails, bluezVars
  <2> QED BY <1>0, <1>2, <2>1 DEF JobTrue, Certain, InFlight, Steady
<1>5. CASE PairDevice(a)
  <2>1. Pair(p, a, Believed(a, "paired")) /\ a \in Keys
    BY <1>5 DEF PairDevice, Keys, p
  <2> QED BY <1>2, <2>1, PairAgrees
<1>6. CASE ConnectDevice(a)
  <2>1. /\ objects[p] # Absent /\ BluezSets(p, "connected", TRUE)
        /\ Go("connect", p, a) /\ UNCHANGED event_queue
    BY <1>6 DEF ConnectDevice, p
  <2>2. /\ Agree(objects', signals', discovered', event_queue, devices, refreshed, nameless)
        /\ Certain(p, objects'[p], signals', TRUE)
    BY <1>2, <2>1, SetAgrees
  <2>3. JobTrue'
    BY <1>0, <1>2, <2>1, <2>2 DEF Go, JobTrue, Certain, InFlight, Steady
  <2> QED BY <2>1, <2>2, <2>3
<1>7. ASSUME NEW step \in {"disconnect", "unpair_read"}, objects[p] # Absent,
             BluezSets(p, "connected", FALSE), Go(step, p, a), UNCHANGED event_queue
      PROVE  /\ Agree(objects', signals', discovered', event_queue', devices, refreshed, nameless)
             /\ JobTrue'
  <2>1. /\ Agree(objects', signals', discovered', event_queue, devices, refreshed, nameless)
        /\ Certain(p, objects'[p], signals', FALSE)
    BY <1>2, <1>7, SetAgrees
  <2>2. JobTrue'
    BY <1>0, <1>2, <1>7, <2>1 DEF Go, JobTrue, Certain, InFlight, Steady
  <2> QED BY <1>7, <2>1, <2>2
<1>8. CASE DisconnectDevice(a)
  BY <1>7, <1>8 DEF DisconnectDevice, p
<1>9. CASE UnpairDevice(a)
  <2>1. CASE /\ objects[p] # Absent /\ BluezSets(p, "connected", FALSE)
             /\ Go("unpair_read", p, a) /\ UNCHANGED event_queue
    BY <1>7, <2>1
  <2>2. CASE /\ Go("unpair_remove", p, a) /\ UNCHANGED <<objects, signals>>
             /\ IF Believed(a, "connected") THEN Emit(<<Connection(a, TRUE)>>)
                ELSE UNCHANGED event_queue
    <3>1. JobTrue'
      BY <1>0, <1>2, <2>2 DEF Go, JobTrue, Steady
    <3>2. CASE UNCHANGED event_queue
      BY <1>2, <2>2, <3>1, <3>2
    <3>3. CASE Believed(a, "connected") /\ Emit(<<Connection(a, TRUE)>>)
      <4>1. /\ event_queue \in Seq(GoodEvents) /\ devices \in Tables
            /\ Connection(a, TRUE) \in GoodEvents
        BY QueueTypes, GoodDeviceEvents DEF IInv, NodeInv
      <4>2. event_queue' = Append(event_queue, Connection(a, TRUE))
        BY <3>3, <4>1, OneMore DEF Emit
      <4>3. discovered'[a] # Absent => discovered'[a].connected = TRUE
        <5>1. discovered'[a] # Absent /\ discovered'[a].connected
          BY <1>2, <3>3 DEF Believed
        <5>2. discovered'[a].connected \in BOOLEAN
          BY <1>2, <5>1 DEF Tables, Infos, Keys
        <5> QED BY <5>1, <5>2
      <4>4. Agree(objects, signals, discovered', Append(event_queue, Connection(a, TRUE)), devices,
                  refreshed, nameless)
        <5>1. CASE p \in Steady
          BY <1>2, <4>1, <4>3, <5>1, AgreeConnection
        <5>2. CASE p \notin Steady
          <6>1. Unheard(Connection(a, TRUE))
            BY <1>2, <5>2, StrangersEvents DEF Steady
          <6> QED BY <1>2, <4>1, <6>1, AgreeUnheard
        <5> QED BY <5>1, <5>2
      <4> QED BY <2>2, <3>1, <4>2, <4>4
    <3> QED BY <2>2, <3>2, <3>3
  <2> QED BY <1>9, <2>1, <2>2 DEF UnpairDevice, p, bluezVars
<1> QED BY <1>4, <1>5, <1>6, <1>8, <1>9

\* So does the one that names a path.
LEMMA PairByIdAgrees ==
  ASSUME IInv, Agreement, NEW p \in Paths, PairDeviceById(p)
  PROVE  Agreement' /\ JobTrue'
<1>1. /\ session = "up" /\ UNCHANGED <<discovered, devices, refreshed, nameless, readdressed>>
  BY DEF PairDeviceById, Pair, BluezSets, Free, bluezVars, cacheVars, nodeVars, sessionVars
<1>2. \E told \in Keys : \E known : Pair(p, told, known)
  <2>1. CASE FindById(p) = Absent
    BY <2>1, TwoKeys DEF PairDeviceById
  <2>2. CASE FindById(p) # Absent
    <3>1. discovered[FindById(p)].address \in Keys
      BY <2>2, FindByIdFinds, KeyType DEF IInv
    <3> QED BY <2>2, <3>1 DEF PairDeviceById
  <2> QED BY <2>1, <2>2
<1>3. discovered \in Tables
  BY DEF IInv, CacheInv, CacheType
<1>4. /\ Agree(objects', signals', discovered, event_queue', devices, refreshed, nameless)
      /\ JobTrue'
  BY <1>1, <1>2, <1>3, PairAgrees DEF Agreement
<1> QED BY <1>1, <1>4 DEF Agreement, Agree, Two, Steady

-----------------------------------------------------------------------------
(* unpair_device                                                           *)

\* The signal that a device is gone.
LEMMA AgreeGone ==
  ASSUME NEW objs \in [Paths -> States], NEW gone, NEW p \in Paths, objs[p] # Absent,
         \A o \in Paths : gone[o] = IF o = p THEN Absent ELSE objs[o],
         NEW q \in Seq(Signals), NEW s \in Signals, s.path = p, s.type = "removed",
         NEW cache \in Tables, NEW eq, NEW list, NEW r \in BOOLEAN, NEW n,
         Agree(objs, q, cache, eq, list, r, n)
  PROVE  Agree(gone, Append(q, s), cache, eq, list, r, n)
<1>1. ASSUME NEW o \in Paths
      PROVE  objs[o] \in States /\ gone[o] \in States /\ <<s, objs[o], gone[o]>> \in Tells(o)
  BY DEF Tells, States
<1> QED BY <1>1, AgreeSent

\* The signal that its properties are what the signal says.
LEMMA AgreeLost ==
  ASSUME NEW objs \in [Paths -> States], NEW lost, NEW p \in Paths, objs[p] # Absent,
         NEW q \in Seq(Signals), NEW s \in Signals, s.path = p, s.type = "changed",
         s.changed \in Properties,
         \A o \in Paths : lost[o] = IF o = p THEN s.changed ELSE objs[o],
         NEW cache \in Tables, NEW eq, NEW list, NEW r \in BOOLEAN, NEW n,
         Agree(objs, q, cache, eq, list, r, n)
  PROVE  Agree(lost, Append(q, s), cache, eq, list, r, n)
<1>1. s.changed = With(s.changed, objs[p])
  <2>1. objs[p] \in Properties
    BY DEF States
  <2> QED BY <2>1 DEF With, Properties
<1>2. ASSUME NEW o \in Paths
      PROVE  objs[o] \in States /\ lost[o] \in States /\ <<s, objs[o], lost[o]>> \in Tells(o)
  <2>1. objs[o] \in States /\ lost[o] \in States
    BY DEF States
  <2> QED BY <1>1, <2>1 DEF Tells
<1> QED BY <1>2, AgreeSent

\* bluetoothd does what RemoveDevice asks for.
RemovesDevice(p) == /\ objects[p] # Absent
                    /\ Vanishes(p)
                    /\ \E s \in RemovalSignals(p) : Sent(s)

\* It says that the device is gone, and that its properties are lost before that or not.
LEMMA RemovalSays ==
  ASSUME IInv, session = "up", NEW p \in Paths, RemovesDevice(p),
         NEW cache \in Tables, NEW eq, NEW list, NEW r \in BOOLEAN, NEW n,
         Agree(objects, signals, cache, eq, list, r, n)
  PROVE  Agree(objects', signals', cache, eq, list, r, n)
<1> DEFINE none == [paired |-> FALSE, connected |-> FALSE]
           s1 == Signal("changed", p, Absent, none)
           s2 == Signal("removed", p, Absent, Nothing)
           lost == [o \in Paths |-> IF o = p THEN none ELSE objects[o]]
<1>1. none \in Properties /\ none # Absent
  <2>1. none \in Properties
    BY DEF Properties
  <2> HIDE DEF none
  <2> QED BY <2>1, AbsentAssumption DEF AbsentAssumption
<1>2. s1 \in Signals /\ s1.path = p /\ s1.type = "changed" /\ s1.changed = none
  BY ChangeTypes DEF Signal, Signals
<1>3. s2 \in Signals /\ s2.path = p /\ s2.type = "removed"
  BY ChangeTypes DEF Signal, Signals
<1>4. objects \in [Paths -> States] /\ signals \in Seq(Signals) /\ objects[p] # Absent
  BY QueueTypes DEF IInv, BluezType, States, RemovesDevice
<1>5. \A o \in Paths : objects'[o] = IF o = p THEN Absent ELSE objects[o]
  BY <1>4 DEF RemovesDevice, Vanishes
<1>6. signals' = signals \o <<s2>> \/ signals' = signals \o <<s1, s2>>
  BY DEF RemovesDevice, RemovalSignals, Sent
<1> HIDE DEF none, s1, s2
<1>7. /\ signals \o <<s2>> = Append(signals, s2)
      /\ signals \o <<s1, s2>> = Append(Append(signals, s1), s2)
      /\ Append(signals, s1) \in Seq(Signals)
  BY <1>2, <1>3, <1>4
<1>8. CASE signals' = Append(signals, s2)
  BY <1>3, <1>4, <1>5, <1>8, AgreeGone
<1>9. CASE signals' = Append(Append(signals, s1), s2)
  <2>1. lost \in [Paths -> States] /\ \A o \in Paths : lost[o] = IF o = p THEN s1.changed ELSE objects[o]
    BY <1>1, <1>2, <1>4 DEF States
  <2>2. lost[p] # Absent /\ \A o \in Paths : objects'[o] = IF o = p THEN Absent ELSE lost[o]
    BY <1>1, <1>2, <1>5, <2>1
  <2> HIDE DEF lost
  <2>3. s1.changed \in Properties
    BY <1>1, <1>2
  <2>4. Agree(lost, Append(signals, s1), cache, eq, list, r, n)
    BY <1>2, <1>4, <2>1, <2>3, AgreeLost
  <2>5. Agree(objects', Append(Append(signals, s1), s2), cache, eq, list, r, n)
    BY <1>3, <1>7, <2>1, <2>2, <2>4, AgreeGone
  <2> QED BY <1>9, <2>5
<1> QED BY <1>6, <1>7, <1>8, <1>9

\* unpair_device has the device removed, forgets it and tells that it is gone.
LEMMA UnpairRemoveAgrees ==
  ASSUME IInv, Agreement, JobTrue, session = "up", UnpairRemove
  PROVE  Agreement' /\ JobTrue'
<1> DEFINE p == job.path
           a == AddressOf[p]
           k == FindById(p)
<1>1. /\ job.at = "unpair_remove" /\ job' = Idle
      /\ UNCHANGED <<readdressed, devices, refreshed, nameless>>
  BY DEF UnpairRemove, Vanishes, At, nodeVars, bluezVars
<1>2. JobTrue'
  BY <1>1 DEF JobTrue, Idle
<1>3. p \in Paths /\ job.told \in MacsOf(p) /\ (p \in Steady => job.told = a)
  BY <1>1, JobFacts DEF IInv, JobTrue
<1>4. CASE UNCHANGED <<objects, signals, cacheVars, event_queue>>
  BY <1>1, <1>2, <1>4 DEF Agreement, Agree, Two, Steady, cacheVars
<1>5. CASE /\ RemovesDevice(p)
           /\ IF k # Absent THEN CacheRemove(k, discovered[k].address)
              ELSE CacheRemove(job.told, job.told)
           /\ Emit(<<Removed(job.told)>>)
  <2>1. /\ discovered \in Tables /\ devices \in Tables /\ refreshed \in BOOLEAN
        /\ event_queue \in Seq(GoodEvents)
    BY QueueTypes DEF IInv, CacheInv, CacheType, SessionType, NodeInv
  <2>2. Agree(objects', signals', discovered, event_queue, devices, refreshed, nameless)
    BY <1>3, <1>5, <2>1, RemovalSays DEF Agreement
  <2>5. event_queue' = Append(event_queue, Removed(job.told))
    <3>1. job.told \in Keys
      BY <1>3, MacFacts
    <3>2. Removed(job.told) \in GoodEvents
      BY <3>1, GoodDeviceEvents
    <3> QED BY <1>5, <2>1, <3>2, OneMore DEF Emit
  <2>8. CASE p \in Steady
    <3>0. p \notin readdressed /\ job.told = a
      BY <1>3, <2>8 DEF Steady
    <3>1. /\ a # Absent /\ p # Absent /\ a \in Keys /\ p # a
          /\ discovered[a] = Absent \/ discovered[p] = Absent
          /\ k = IF discovered[a] # Absent THEN a ELSE IF discovered[p] # Absent THEN p ELSE Absent
      BY <1>3, <3>0, CachedTwo, TwoKeys, DevicesAssumption DEF IInv, DevicesAssumption
    <3> HIDE DEF k, p
    <3>2. /\ Two(discovered', p) = NoRecord
          /\ \A o \in Paths \ {p} : Two(discovered', o) = Two(discovered, o)
      <4>1. CASE k # Absent
        <5>1. /\ k \in {a, p} /\ CacheRemove(k, discovered[k].address)
              /\ k = a => discovered[p] = Absent
              /\ k = p => discovered[a] = Absent
          BY <1>5, <3>1, <4>1
        <5> QED BY <1>3, <5>1, CacheRemoveTwo DEF IInv
      <4>2. CASE k = Absent
        <5>1. CacheRemove(a, a) /\ discovered[p] = Absent /\ a # p
          BY <1>5, <3>0, <3>1, <4>2
        <5> QED BY <1>3, <5>1, CacheRemoveTwo DEF IInv
      <4> QED BY <4>1, <4>2
    <3>3. Removed(a) \in GoodEvents /\ event_queue' = Append(event_queue, Removed(a))
      BY <2>5, <3>0, <3>1, GoodDeviceEvents
    <3>4. objects'[p] = Absent
      BY <1>3, <1>5 DEF IInv, BluezType, RemovesDevice, Vanishes
    <3>5. ASSUME NEW o \in Paths, o \in Steady
          PROVE  /\ Bus(o, objects'[o], signals', Two(discovered', o), refreshed)
                 /\ Told(o, signals', Two(discovered', o), event_queue', Two(devices, o), refreshed, nameless)
      <4>1. /\ Bus(o, objects'[o], signals', Two(discovered, o), refreshed)
            /\ Told(o, signals', Two(discovered, o), event_queue, Two(devices, o), refreshed, nameless)
        BY <2>2, <3>5 DEF Agree
      <4>2. CASE o = p
        <5>1. Bus(o, objects'[o], signals', NoRecord, refreshed)
          BY <3>4, <4>1, <4>2, BusForget
        <5>2. Told(o, signals', NoRecord, Append(event_queue, Removed(a)), Two(devices, o), refreshed, nameless)
          BY <2>1, <3>1, <4>1, <4>2, DeviceTypes, ToldRemoved
        <5> QED BY <3>2, <3>3, <4>2, <5>1, <5>2
      <4>3. CASE o # p
        <5>1. a \in Keys \ {AddressOf[o], o}
          BY <1>3, <3>1, <4>3, TwoKeys
        <5>2. \A y \in Pairs : <<Removed(a), y, y>> \in Hears(o)
          BY <5>1, HearsRemoved
        <5> QED BY <2>1, <3>2, <3>3, <4>1, <4>3, <5>2, DeviceTypes, ToldNothing
      <4> QED BY <4>2, <4>3
    <3> QED BY <1>1, <1>2, <3>5 DEF Agreement, Agree, Two, Steady
  <2>9. CASE p \notin Steady
    <3>1. \A o \in Steady : o \in Paths /\ o # p
      BY <2>9 DEF Steady
    <3>2. \A o \in Steady : Two(discovered', o) = Two(discovered, o)
      <4>1. CASE k # Absent
        BY <1>3, <1>5, <3>1, <4>1, ItsKeys, CacheRemoveOther DEF IInv
      <4>2. CASE k = Absent
        <5>1. CacheRemove(job.told, job.told) /\ job.told \in {p} \cup MacsOf(p)
          BY <1>3, <1>5, <4>2
        <5> QED BY <1>3, <3>1, <5>1, CacheRemoveOther DEF IInv
      <4> QED BY <4>1, <4>2
    <3>3. Agree(objects', signals', discovered', event_queue, devices, refreshed, nameless)
      BY <2>2, <3>2, AgreeElsewhere
    <3>4. Unheard(Removed(job.told))
      BY <1>3, <2>9, StrangersEvents DEF Steady
    <3>5. Agree(objects', signals', discovered', event_queue', devices, refreshed, nameless)
      BY <2>1, <2>5, <3>3, <3>4, AgreeUnheard
    <3> QED BY <1>1, <1>2, <3>5 DEF Agreement, Agree, Two, Steady
  <2> QED BY <2>8, <2>9
<1> QED BY <1>4, <1>5 DEF UnpairRemove, RemovesDevice, bluezVars

-----------------------------------------------------------------------------
(* refresh_paired_devices                                                  *)

\* The node hears of the devices in a snapshot, and of no other.
LEMMA HearsSnapshot ==
  ASSUME NEW p \in Paths, NEW S \in SUBSET Infos, Distinct(S)
  PROVE  /\ PairedUpdated(S) \in GoodEvents
         /\ \A i \in S : i.device_id = p =>
              \A x \in Pairs : <<PairedUpdated(S), x, After(i, x)>> \in Hears(p)
         /\ (\A i \in S : i.device_id # p) => \A x \in Pairs : <<PairedUpdated(S), x, x>> \in Hears(p)
<1> DEFINE e == PairedUpdated(S)
<1>1. e \in GoodEvents /\ e.type = "PAIRED_DEVICES_UPDATED" /\ Brought(e) = S
  BY DEF PairedUpdated, GoodEvents, Events, Brought
<1> HIDE DEF e
<1>2. ASSUME NEW i \in S, i.device_id = p, NEW x \in Pairs
      PROVE  <<e, x, After(i, x)>> \in Hears(p)
  BY <1>1, <1>2, JoinedType DEF Hears
<1>3. ASSUME \A i \in S : i.device_id # p, NEW x \in Pairs
      PROVE  <<e, x, x>> \in Hears(p)
  BY <1>1, <1>3 DEF Hears
<1> QED BY <1>1, <1>2, <1>3 DEF e

\* The cache has got the device from an enumeration, and it is not a paired one.
LEMMA ToldEnumerated ==
  ASSUME NEW p \in Paths, NEW q, NEW c \in Pairs, NEW eq, NEW x, NEW r, NEW n,
         Told(p, q, c, eq, x, r, n), NEW o \in Properties, Bus(p, o, q, c, r),
         c[1] = Absent \/ c[2] = Absent,
         NEW i \in Infos, i.address \in Addresses, i.connected = o.connected, ~Joined(i, c).paired, NEW r2
  PROVE  Told(p, q, <<Joined(i, c), Absent>>, eq, x, r2, n)
<1> DEFINE m == Joined(i, c)
<1>1. PICK z \in Pairs : Leads(Hears(p), Pairs, eq, x, z) /\ Settled(p, q, c, z, r, n)
  BY DEF Told
<1>2. m \in Infos /\ m # Absent /\ ~m.paired
  BY JoinedType, KeyType
<1>3. m.connected <=> i.connected \/ (c[2] # Absent /\ c[2].connected)
  BY DEF Joined
<1>4. z[1] # Absent => InFlight(q, Deciding(p)) \/ (m.connected <=> c[1].connected)
  <2>1. z[1] # Absent => c[1] # Absent /\ c[2] = Absent
    BY <1>1 DEF Settled
  <2>2. c[1] # Absent => InFlight(q, Deciding(p)) \/ c[1].connected = o.connected
    BY DEF Bus
  <2> QED BY <1>3, <2>1, <2>2
<1> HIDE DEF m
<1>5. Settled(p, q, <<m, Absent>>, z, r2, n)
  BY <1>1, <1>2, <1>4 DEF Settled
<1> QED BY <1>1, <1>5 DEF Told, m

\* The cache has no paired record of the device to tell of.
LEMMA ToldUnpaired ==
  ASSUME NEW p, NEW q, NEW c, NEW eq, NEW x, NEW r, NEW n, Told(p, q, c, eq, x, r, n),
         c[1] # Absent => ~c[1].paired, NEW r2
  PROVE  Told(p, q, c, eq, x, r2, n)
<1>1. PICK z \in Pairs : Leads(Hears(p), Pairs, eq, x, z) /\ Settled(p, q, c, z, r, n)
  BY DEF Told
<1>2. Settled(p, q, c, z, r2, n)
  BY <1>1 DEF Settled
<1> QED BY <1>1, <1>2 DEF Told

\* The cache's record of the device is one without its MAC.
LEMMA ToldOfPath ==
  ASSUME NEW p \in Paths, NEW eq \in Seq(GoodEvents), NEW x \in Pairs, NEW q, NEW c, NEW r, NEW n,
         Told(p, q, c, eq, x, r, n), c[1] = Absent, c[2] \in Infos, c[2].address \notin Addresses,
         NEW e \in GoodEvents, \A y \in Pairs : <<e, y, After(c[2], y)>> \in Hears(p), NEW r2
  PROVE  Told(p, q, c, Append(eq, e), x, r2, n)
<1>1. PICK z \in Pairs : Leads(Hears(p), Pairs, eq, x, z) /\ Settled(p, q, c, z, r, n)
  BY DEF Told
<1>2. /\ <<e, z, After(c[2], z)>> \in Hears(p) /\ c[2] # Absent
      /\ After(c[2], z) \in Pairs /\ After(c[2], z) = <<Absent, Joined(c[2], z)>>
  BY JoinedType, KeyType DEF After
<1>3. Settled(p, q, c, <<Absent, Joined(c[2], z)>>, r2, n)
  BY <1>1, <1>2 DEF Settled
<1> QED BY <1>1, <1>2, <1>3, ToldMore

\* A snapshot of the cache's paired devices has none twice.
LEMMA SnapshotType ==
  ASSUME NEW t \in Tables, NEW mirror \in Tables, Tidy(t), Mirrors(mirror, t)
  PROVE  LET S == {mirror[k] : k \in Keys} \ {Absent} IN
           S \in SUBSET Infos /\ Distinct(S) /\ PairedUpdated(S) \in GoodEvents
<1> DEFINE S == {mirror[k] : k \in Keys} \ {Absent}
<1>1. \A k \in Keys : /\ mirror[k] \in Infos \cup {Absent}
                      /\ mirror[k] # Absent => t[k] = mirror[k]
  BY DEF Tables, Mirrors
<1>2. \A k, l \in Keys : t[k] # Absent /\ t[l] # Absent
                         /\ t[k].device_id = t[l].device_id => k = l
  BY DEF Tidy
<1>3. S \in SUBSET Infos
  BY <1>1
<1>4. ASSUME NEW x \in S, NEW y \in S, x.device_id = y.device_id
      PROVE  x = y
  <2>1. PICK k \in Keys : x = mirror[k] /\ x # Absent
    OBVIOUS
  <2>2. PICK l \in Keys : y = mirror[l] /\ y # Absent
    OBVIOUS
  <2> QED BY <1>1, <1>2, <1>4, <2>1, <2>2
<1> HIDE DEF S
<1>5. S \in SUBSET Infos /\ Distinct(S) /\ PairedUpdated(S) \in GoodEvents
  BY <1>3, <1>4 DEF Distinct, PairedUpdated, GoodEvents, Events
<1> QED BY <1>5 DEF S

\* What it has of a device whose MAC has not changed.
LEMMA SnapshotOf ==
  ASSUME NEW R, NEW t \in Tables, NEW mirror \in Tables, t \in PlainTables(R), Tidy(t),
         Mirrors(mirror, t), NEW p \in Paths \ R
  PROVE  LET S == {mirror[k] : k \in Keys} \ {Absent}
             c == Two(t, p)
         IN \/ c[1] # Absent /\ c[1].paired /\ c[1] \in S
            \/ c[2] # Absent /\ c[2].paired /\ c[2] \in S
            \/ /\ c[1] # Absent => ~c[1].paired
               /\ \A i \in S : i.device_id # p
<1> DEFINE S == {mirror[k] : k \in Keys} \ {Absent}
           c == Two(t, p)
           a == AddressOf[p]
<1>1. \A k \in Keys : /\ mirror[k] \in Infos \cup {Absent}
                      /\ mirror[k] = IF t[k] # Absent /\ t[k].paired THEN t[k]
                                     ELSE Absent
  BY DEF Tables, Mirrors
<1>5. c[1] = t[a] /\ c[2] = t[p] /\ a \in Keys /\ p \in Keys
  BY TwoKeys DEF Two
<1>6. /\ c[1] # Absent /\ c[1].paired => c[1] \in S
      /\ c[2] # Absent /\ c[2].paired => c[2] \in S
  BY <1>1, <1>5
<1>7. ASSUME ~(c[1] # Absent /\ c[1].paired), ~(c[2] # Absent /\ c[2].paired), NEW i \in S
      PROVE  i.device_id # p
  <2>1. PICK k \in Keys : i = mirror[k] /\ i # Absent
    OBVIOUS
  <2>2. t[k] # Absent /\ t[k].paired /\ i = t[k]
    BY <1>1, <2>1
  <2>3. i.device_id = p => k \in {a, p}
    BY <2>2, SteadyKeys
  <2> QED BY <1>5, <1>7, <2>2, <2>3
<1> HIDE DEF S, c
<1>8. \/ c[1] # Absent /\ c[1].paired /\ c[1] \in S
      \/ c[2] # Absent /\ c[2].paired /\ c[2] \in S
      \/ (c[1] # Absent => ~c[1].paired) /\ \A i \in S : i.device_id # p
  BY <1>6, <1>7
<1> QED BY <1>8 DEF S, c

\* Whatever the cache has got, the node is told of its paired devices.
LEMMA RefreshAgrees ==
  ASSUME IInv, Agreement, Refresh
  PROVE  Agreement' /\ JobTrue'
<1> DEFINE infos == {FromBluez(p) : p \in {q \in Paths : objects[q] # Absent}}
           S == {paired'[k] : k \in Keys} \ {Absent}
           e == PairedUpdated(S)
<1>1. /\ \/ CacheUpsert(infos) /\ refreshed' = TRUE
         \/ UNCHANGED <<cacheVars, refreshed>>
      /\ Emit(<<e>>) /\ job' = Idle
      /\ UNCHANGED <<objects, readdressed, signals, devices, nameless>>
  BY DEF Refresh, bluezVars, nodeVars
<1>2. \A p \in Paths : objects[p] # Absent =>
        /\ FromBluez(p) \in Infos /\ FromBluez(p) \in Plain(readdressed) /\ FromBluez(p).device_id = p /\ FromBluez(p).address \in Addresses
        /\ FromBluez(p).paired = objects[p].paired /\ FromBluez(p).connected = objects[p].connected
  <2>1. \A p \in Paths : /\ FromBluez(p).paired = objects[p].paired
                         /\ FromBluez(p).connected = objects[p].connected
    BY DEF FromBluez
  <2> QED BY <2>1, FromBluezType DEF IInv, Plain
<1>3. infos \in SUBSET Plain(readdressed) /\ Distinct(infos)
  BY <1>2 DEF Distinct
<1>4. /\ discovered' \in Tables /\ paired' \in Tables /\ Tidy(discovered') /\ Mirrors(paired', discovered')
      /\ discovered' \in PlainTables(readdressed)
  BY <1>1, RefreshKeeps DEF IInv, CacheInv, CacheType
<1>5. refreshed \in BOOLEAN /\ refreshed' \in BOOLEAN /\ event_queue \in Seq(GoodEvents)
  BY <1>1, QueueTypes DEF IInv, SessionType
<1>11. S \in SUBSET Infos /\ Distinct(S) /\ e \in GoodEvents
  BY <1>4, SnapshotType
<1>6. ASSUME NEW p \in Paths, p \in Steady
      PROVE  /\ \/ Two(discovered', p)[1] # Absent /\ Two(discovered', p)[1].paired
                   /\ Two(discovered', p)[1] \in S
                \/ Two(discovered', p)[2] # Absent /\ Two(discovered', p)[2].paired
                   /\ Two(discovered', p)[2] \in S
                \/ /\ Two(discovered', p)[1] # Absent => ~Two(discovered', p)[1].paired
                   /\ \A i \in S : i.device_id # p
  BY <1>4, <1>6, SnapshotOf DEF Steady
<1>7. ASSUME NEW p \in Paths, p \in Steady
      PROVE  /\ Bus(p, objects[p], signals, Two(discovered', p), refreshed')
             /\ \/ Two(discovered', p) = Two(discovered, p)
                \/ /\ objects[p] # Absent
                   /\ Two(discovered', p) = <<Joined(FromBluez(p), Two(discovered, p)), Absent>>
  <2>1. /\ Bus(p, objects[p], signals, Two(discovered, p), refreshed) /\ Two(discovered, p) \in Pairs
        /\ signals \in Seq(Signals)
    BY <1>7, DeviceTypes DEF Agreement, Agree
  <2>2. CASE UNCHANGED <<cacheVars, refreshed>>
    BY <2>1, <2>2 DEF cacheVars
  <2>3. CASE CacheUpsert(infos) /\ refreshed' = TRUE
    <3>1. /\ discovered' = Upserted(discovered, infos) /\ discovered \in Tables /\ Tidy(discovered)
          /\ discovered \in PlainTables(readdressed) /\ p \in Paths \ readdressed
      BY <1>7, <2>3 DEF CacheUpsert, IInv, CacheInv, CacheType, Steady
    <3>2. CASE objects[p] # Absent
      <4> DEFINE i == FromBluez(p)
                 o == objects[p]
                 c == Two(discovered, p)
      <4>1. i \in infos
        BY <3>2
      <4>2. /\ i \in Infos /\ i.device_id = p /\ i.address \in Addresses
            /\ i.paired = o.paired /\ i.connected = o.connected
        BY <1>2, <3>2
      <4>3. o \in Properties
        BY <3>2, DeviceTypes DEF States
      <4> HIDE DEF infos, i, o
      <4>4. Two(discovered', p) = After(i, c)
        BY <1>3, <3>1, <4>1, <4>2, UpsertedTwo
      <4>5. After(i, c) = <<Joined(i, c), Absent>>
        BY <4>2 DEF After
      <4>6. Bus(p, o, signals, c, refreshed) /\ c \in Pairs
        BY <2>1 DEF o
      <4> HIDE DEF c
      <4>7. Bus(p, o, signals, After(i, c), refreshed')
        BY <1>5, <2>1, <4>2, <4>3, <4>6, BusReply
      <4> QED BY <3>2, <4>4, <4>5, <4>7 DEF o, i, c
    <3>3. CASE objects[p] = Absent
      <4>1. \A i \in infos : i.device_id # p
        BY <1>2, <3>3
      <4>2. Two(discovered', p) = Two(discovered, p)
        BY <1>3, <3>1, <4>1, UpsertedTwo
      <4>3. Bus(p, objects[p], signals, Two(discovered, p), refreshed')
        BY <2>1, <3>3 DEF Bus
      <4> QED BY <4>2, <4>3
    <3> QED BY <3>2, <3>3
  <2> QED BY <1>1, <2>2, <2>3
<1> HIDE DEF S, infos
<1>8. ASSUME NEW p \in Paths, p \in Steady
      PROVE  Told(p, signals, Two(discovered', p), Append(event_queue, e),
                  Two(devices, p), refreshed', nameless)
  <2> DEFINE c == Two(discovered, p)
             d == Two(discovered', p)
             x == Two(devices, p)
  <2>1. /\ Bus(p, objects[p], signals, c, refreshed)
        /\ Told(p, signals, c, event_queue, x, refreshed, nameless)
        /\ c \in Pairs /\ d \in Pairs /\ x \in Pairs
    BY <1>4, <1>8, DeviceTypes, TwoKeys DEF Agreement, Agree
  <2>2. /\ e \in GoodEvents
        /\ \A i \in S : i.device_id = p => \A y \in Pairs : <<e, y, After(i, y)>> \in Hears(p)
        /\ (\A i \in S : i.device_id # p) => \A y \in Pairs : <<e, y, y>> \in Hears(p)
    BY <1>11, HearsSnapshot
  <2>3. /\ c[1] = Absent \/ c[2] = Absent
        /\ d[1] = Absent \/ d[2] = Absent
        /\ d[1] # Absent => d[1] \in Infos /\ d[1].device_id = p /\ d[1].address \in Addresses
        /\ d[2] # Absent => d[2] \in Infos /\ d[2].device_id = p /\ d[2].address \notin Addresses
    <3>1. c[1] = Absent \/ c[2] = Absent
      BY <1>8, CachedTwo DEF IInv, Steady
    <3>2. d[1] = discovered'[AddressOf[p]] /\ d[2] = discovered'[p]
      BY DEF Two
    <3> HIDE DEF d, c
    <3> QED BY <1>4, <3>1, <3>2, TidyTwo, TwoKeys
  <2>4. \/ d = c
        \/ objects[p] # Absent /\ d = <<Joined(FromBluez(p), c), Absent>>
    BY <1>7, <1>8
  <2>5. \/ d[1] # Absent /\ d[1].paired /\ d[1] \in S
        \/ d[2] # Absent /\ d[2].paired /\ d[2] \in S
        \/ /\ d[1] # Absent => ~d[1].paired
           /\ \A i \in S : i.device_id # p
    BY <1>6, <1>8
  <2>6. objects[p] # Absent => objects[p] \in Properties
    BY DeviceTypes DEF States
  <2> HIDE DEF c, d, x, e
  <2>7. CASE d[1] # Absent /\ d[1] \in S
    <3>1. d = <<d[1], Absent>>
      BY <2>1, <2>3, <2>7 DEF Pairs
    <3>2. \A y \in Pairs : <<e, y, After(d[1], y)>> \in Hears(p)
      BY <2>2, <2>3, <2>7
    <3>3. Told(p, signals, <<d[1], Absent>>, Append(event_queue, e), x, refreshed', nameless)
      BY <1>5, <2>1, <2>2, <2>3, <2>7, <3>2, ToldRecord
    <3> QED BY <3>1, <3>3 DEF d, x
  <2>8. CASE d[2] # Absent /\ d[2] \in S
    <3>1. d = c
      BY <2>4, <2>8
    <3>2. \A y \in Pairs : <<e, y, After(d[2], y)>> \in Hears(p)
      BY <2>2, <2>3, <2>8
    <3>3. Told(p, signals, d, Append(event_queue, e), x, refreshed', nameless)
      BY <1>5, <2>1, <2>2, <2>3, <2>8, <3>1, <3>2, ToldOfPath
    <3> QED BY <3>3 DEF d, x
  <2>9. CASE (d[1] # Absent => ~d[1].paired) /\ \A i \in S : i.device_id # p
    <3>1. \A y \in Pairs : <<e, y, y>> \in Hears(p)
      BY <2>2, <2>9
    <3>2. Told(p, signals, d, event_queue, x, refreshed', nameless)
      <4>1. CASE d = c
        BY <2>1, <2>9, <4>1, ToldUnpaired
      <4>2. CASE objects[p] # Absent /\ d = <<Joined(FromBluez(p), c), Absent>>
        <5> DEFINE i == FromBluez(p)
                   o == objects[p]
        <5>1. i \in Infos /\ i.address \in Addresses /\ i.connected = o.connected /\ o \in Properties
          BY <1>2, <2>6, <4>2
        <5> HIDE DEF i
        <5>2. d = <<Joined(i, c), Absent>> /\ d[1] = Joined(i, c) /\ Joined(i, c) # Absent
          BY <2>1, <4>2, <5>1, JoinedType, KeyType DEF i
        <5>3. ~Joined(i, c).paired
          BY <2>9, <5>2
        <5>4. Bus(p, o, signals, c, refreshed)
          BY <2>1
        <5> HIDE DEF o
        <5>5. Told(p, signals, <<Joined(i, c), Absent>>, event_queue, x, refreshed', nameless)
          BY <2>1, <2>3, <5>1, <5>3, <5>4, ToldEnumerated
        <5> QED BY <5>2, <5>5
      <4> QED BY <2>4, <4>1, <4>2
    <3>3. Told(p, signals, d, Append(event_queue, e), x, refreshed', nameless)
      BY <1>5, <2>1, <2>2, <3>1, <3>2, ToldNothing
    <3> QED BY <3>3 DEF d, x
  <2> QED BY <2>5, <2>7, <2>8, <2>9
<1>9. event_queue' = Append(event_queue, e)
  <2> HIDE DEF e
  <2> QED BY <1>1, <1>5, <1>11, OneMore DEF Emit
<1>10. JobTrue'
  BY <1>1 DEF JobTrue, Idle
<1> QED BY <1>1, <1>7, <1>8, <1>9, <1>10 DEF Agreement, Agree, Two, Steady

-----------------------------------------------------------------------------
(* The node                                                                *)

\* What an event is made of.
LEMMA EventFacts ==
  ASSUME NEW e \in GoodEvents
  PROVE  /\ e.type = "DEVICE_FOUND" => e.device \in Infos
         /\ e.type = "PAIRED_DEVICES_UPDATED" => e.devices \in SUBSET Infos /\ Distinct(e.devices)
         /\ e.type = "CONNECTION_CHANGED" => e.connected \in BOOLEAN
BY DEF GoodEvents, Events

\* The event a node handles makes of a device's pair what it is said to.
LEMMA NodeHears ==
  ASSUME NodeInv, NEW e \in PlainEvents(readdressed), NodeTakes(e), NEW p \in Paths \ readdressed, NEW y,
         <<e, Two(devices, p), y>> \in Hears(p)
  PROVE  Two(devices', p) = y
<1> DEFINE a == AddressOf[p]
           x == Two(devices, p)
<1>1. /\ devices \in Tables /\ devices \in PlainTables(readdressed) /\ Tidy(devices)
      /\ a \in Keys /\ p \in Keys /\ p # a
  BY TwoKeys DEF NodeInv
<1>2. /\ x[1] = devices[a] /\ x[2] = devices[p] /\ x = <<x[1], x[2]>>
      /\ Two(devices', p) = <<devices'[a], devices'[p]>>
  BY DEF Two
<1>3. /\ devices[a] # Absent => devices[a].device_id = p /\ devices[a].address = a
      /\ devices[p] # Absent => devices[p].device_id = p /\ devices[p].address = p
  BY <1>1, TidyTwo
<1> HIDE DEF x
<1>4. <<e, x, y>> \in Hears(p)
  BY DEF x
<1>5. CASE e.type \in {"DEVICE_FOUND", "PAIRED_DEVICES_UPDATED"}
  <2>1. devices' = Upserted(devices, Brought(e))
    BY <1>5 DEF NodeTakes, NodeUpsert, Brought
  <2>2. Brought(e) \in SUBSET Plain(readdressed) /\ Distinct(Brought(e))
    BY <1>5, OneIsDistinct DEF Brought, PlainEvents, GoodEvents
  <2>3. \/ \E i \in Brought(e) : i.device_id = p /\ y = After(i, x)
        \/ (\A i \in Brought(e) : i.device_id # p) /\ y = x
    BY <1>4, <1>5 DEF Hears
  <2> HIDE DEF a
  <2> QED BY <1>1, <2>1, <2>2, <2>3, UpsertedTwo DEF x
<1>6. CASE e.type = "DEVICE_REMOVED"
  <2>1. NodeRemove(e.address)
    BY <1>6 DEF NodeTakes
  <2>2. y = <<IF e.address = a THEN Absent ELSE x[1], IF e.address = p THEN Absent ELSE x[2]>>
    BY <1>4, <1>6 DEF Hears
  <2>3. \A k \in Keys : devices'[k] = IF devices[k] # Absent /\ e.address \in {k, devices[k].address}
                                      THEN Absent ELSE devices[k]
    BY <2>1 DEF NodeRemove
  <2>4. /\ devices'[a] = IF e.address = a THEN Absent ELSE devices[a]
        /\ devices'[p] = IF e.address = p THEN Absent ELSE devices[p]
    BY <1>1, <1>3, <2>3
  <2> QED BY <1>2, <2>2, <2>4
<1>7. ASSUME NEW f \in {"connected", "paired"}, NEW b, NodeSet(e.address, f, b),
             y = <<Flagged(x[1], e.address \in {a, p}, f, b), Flagged(x[2], e.address = p, f, b)>>
      PROVE  Two(devices', p) = y
  <2>1. \A k \in Keys : devices'[k] = IF MatchesRecord(k, e.address) THEN [devices[k] EXCEPT ![f] = b]
                                      ELSE devices[k]
    BY <1>7 DEF NodeSet
  <2>2. /\ MatchesRecord(a, e.address) <=> devices[a] # Absent /\ e.address \in {a, p}
        /\ MatchesRecord(p, e.address) <=> devices[p] # Absent /\ e.address = p
    BY <1>3 DEF MatchesRecord
  <2>3. devices'[a] = Flagged(x[1], e.address \in {a, p}, f, b)
    BY <1>1, <1>2, <2>1, <2>2 DEF Flagged
  <2>4. devices'[p] = Flagged(x[2], e.address = p, f, b)
    BY <1>1, <1>2, <2>1, <2>2 DEF Flagged
  <2> QED BY <1>2, <1>7, <2>3, <2>4
<1>8. CASE e.type = "CONNECTION_CHANGED"
  <2>1. NodeSet(e.address, "connected", e.connected)
    BY <1>8 DEF NodeTakes
  <2>2. y = <<Flagged(x[1], e.address \in {a, p}, "connected", e.connected),
              Flagged(x[2], e.address = p, "connected", e.connected)>>
    BY <1>4, <1>8 DEF Hears
  <2> QED BY <1>7, <2>1, <2>2
<1>9. CASE e.type = "PAIRING_SUCCEEDED"
  <2>1. NodeSet(e.address, "paired", TRUE)
    BY <1>9 DEF NodeTakes
  <2>2. y = <<Flagged(x[1], e.address \in {a, p}, "paired", TRUE),
              Flagged(x[2], e.address = p, "paired", TRUE)>>
    BY <1>4, <1>9 DEF Hears
  <2> QED BY <1>7, <2>1, <2>2
<1> QED BY <1>5, <1>6, <1>8, <1>9 DEF NodeTakes

\* The node catches up by one event.
LEMMA HandleEventAgrees ==
  ASSUME IInv, Agreement, HandleEvent
  PROVE  Agreement'
<1> DEFINE e == Head(event_queue)
<1>1. /\ event_queue # <<>> /\ NodeTakes(e) /\ event_queue' = Tail(event_queue)
      /\ UNCHANGED <<objects, readdressed, signals, discovered, refreshed, nameless>>
  BY DEF HandleEvent, bluezVars, cacheVars, sessionVars
<1>2. event_queue \in Seq(GoodEvents) /\ e \in PlainEvents(readdressed) /\ NodeInv
  BY <1>1, QueueTypes DEF IInv, QueueInv
<1> HIDE DEF e
<1>3. ASSUME NEW p \in Paths, p \in Steady
      PROVE  /\ Bus(p, objects[p], signals, Two(discovered, p), refreshed)
             /\ Told(p, signals, Two(discovered, p), Tail(event_queue), Two(devices', p), refreshed, nameless)
  <2>1. /\ Bus(p, objects[p], signals, Two(discovered, p), refreshed)
        /\ Told(p, signals, Two(discovered, p), event_queue, Two(devices, p), refreshed, nameless)
    BY <1>3 DEF Agreement, Agree
  <2>2. PICK z \in Pairs : /\ Leads(Hears(p), Pairs, event_queue, Two(devices, p), z)
                           /\ Settled(p, signals, Two(discovered, p), z, refreshed, nameless)
    BY <2>1 DEF Told
  <2>3. PICK y \in Pairs : /\ <<e, Two(devices, p), y>> \in Hears(p)
                           /\ Leads(Hears(p), Pairs, Tail(event_queue), y, z)
    BY <1>1, <1>2, <2>2, LeadsAway DEF e
  <2>4. Two(devices', p) = y
    BY <1>1, <1>2, <1>3, <2>3, NodeHears DEF Steady
  <2> QED BY <2>1, <2>2, <2>3, <2>4 DEF Told
<1> QED BY <1>1, <1>3 DEF Agreement, Agree, Two, Steady

-----------------------------------------------------------------------------
(* The invariant holds                                                     *)

\* Nothing was said in an untouched system, and nobody has a list.
LEMMA BeginsInAgreement ==
  ASSUME IInv, signals = <<>>, event_queue = <<>>, discovered = Empty, devices = Empty, ~refreshed, ~nameless
  PROVE  Agreement
<1>1. ASSUME NEW p \in Paths, p \in Steady
      PROVE  /\ Bus(p, objects[p], signals, Two(discovered, p), refreshed)
             /\ Told(p, signals, Two(discovered, p), event_queue, Two(devices, p), refreshed, nameless)
  <2>1. Two(discovered, p) = NoRecord /\ Two(devices, p) = NoRecord
    BY TwoKeys DEF Two, Empty, NoRecord
  <2>2. objects[p] \in States /\ NoRecord \in Pairs
    BY DeviceTypes DEF NoRecord, Pairs
  <2>3. Leads(Tells(p), States, <<>>, objects[p], objects[p])
    BY <2>2, LeadsNowhere
  <2>4. Bus(p, objects[p], <<>>, NoRecord, refreshed)
    <3> DEFINE o == objects[p]
    <3>1. o \in States /\ Leads(Tells(p), States, <<>>, o, o)
      BY <2>2, <2>3
    <3> HIDE DEF o
    <3>2. Bus(p, o, <<>>, NoRecord, refreshed)
      BY <3>1 DEF Bus, NoRecord
    <3> QED BY <3>2 DEF o
  <2>5. Leads(Hears(p), Pairs, <<>>, NoRecord, NoRecord)
    BY <2>2, LeadsNowhere
  <2>6. Settled(p, <<>>, NoRecord, NoRecord, refreshed, nameless)
    BY DEF Settled, NoRecord
  <2> QED BY <2>1, <2>2, <2>4, <2>5, <2>6 DEF Told
<1> QED BY <1>1 DEF Agreement, Agree, Steady

\* So it is before the first session.
LEMMA InitLists == Init => ListsInv
<1> SUFFICES ASSUME Init PROVE ListsInv
  OBVIOUS
<1>1. Untouched /\ ~First
  BY DEF Init, ListsInit, Untouched, First, Idle
<1> QED BY <1>1, InitInv DEF ListsInv

\* Nothing happens before it that leaves a trace.
LEMMA UntouchedKeeps ==
  ASSUME IInv, Untouched, [Next]_vars
  PROVE  Untouched'
<1> SUFFICES ASSUME sessions' = 0
             PROVE  /\ session' = "down" /\ signals' = <<>> /\ event_queue' = <<>> /\ job' = Idle
                    /\ discovered' = Empty /\ devices' = Empty
                    /\ ~refreshed' /\ ~nameless'
  BY DEF Untouched
<1>1. CASE UNCHANGED vars
  BY <1>1 DEF Untouched, vars, sessionVars, cacheVars, nodeVars
<1>2. CASE StartSession
  BY <1>2 DEF StartSession, IInv, SessionType
<1>3. CASE Bluez
  <2>1. /\ UNCHANGED <<cacheVars, job, event_queue, nodeVars, sessionVars, nameless>>
        /\ \E more : Sent(more)
    BY <1>3 DEF Bluez, BluezActs, BluezAdds, BluezChanges, BluezResolves, BluezRemoves
  <2> QED BY <2>1 DEF Untouched, sessionVars, cacheVars, nodeVars, Sent
<1>4. CASE Poll
  <2>1. session = "up" /\ UNCHANGED sessions
    BY <1>4 DEF Poll, HandleInterfacesAdded, HandlePropertiesChanged, HandleInterfacesRemoved, Dispatch,
                sessionVars
  <2> QED BY <2>1 DEF Untouched
<1>5. CASE Command
  <2>1. UNCHANGED sessions /\ (session = "up" \/ job.at # "idle")
    <3>1. CASE \E a \in Addresses : \/ RequestFails(a) \/ PairDevice(a) \/ ConnectDevice(a)
                                    \/ DisconnectDevice(a) \/ UnpairDevice(a)
      BY <3>1 DEF RequestFails, PairDevice, ConnectDevice, DisconnectDevice, UnpairDevice, Begin, Free,
                  sessionVars
    <3>2. CASE \E p \in Paths : PairDeviceById(p)
      BY <3>2 DEF PairDeviceById, Free, sessionVars
    <3>3. CASE PairRead \/ ConnectRead \/ DisconnectRead \/ UnpairRead \/ UnpairRemove
      BY <3>3 DEF PairRead, ConnectRead, DisconnectRead, UnpairRead, UnpairRemove, At
    <3>4. CASE Refresh
      BY <3>4 DEF Refresh
    <3> QED BY <1>5, <3>1, <3>2, <3>3, <3>4 DEF Command
  <2> QED BY <2>1 DEF Untouched, Idle
<1>6. CASE HandleEvent
  <2>1. event_queue # <<>> /\ UNCHANGED sessions
    BY <1>6 DEF HandleEvent, sessionVars
  <2> QED BY <2>1 DEF Untouched
<1>7. CASE EndSession
  <2>1. session = "up" /\ UNCHANGED sessions
    BY <1>7 DEF EndSession
  <2> QED BY <2>1 DEF Untouched
<1> QED BY <1>1, <1>2, <1>3, <1>4, <1>5, <1>6, <1>7 DEF Next

\* What a command says is so stays so whatever bluetoothd says.
LEMMA BluezAgrees ==
  ASSUME IInv, Agreement, JobTrue, session = "up", Bluez
  PROVE  Agreement' /\ JobTrue'
<1>1. /\ UNCHANGED <<discovered, job, event_queue, devices, refreshed, nameless>>
      /\ readdressed \subseteq readdressed'
  BY DEF Bluez, BluezAdds, BluezChanges, BluezResolves, BluezRemoves, Vanishes, BluezActs, cacheVars,
         nodeVars, sessionVars
<1>6. Steady' \subseteq Steady
  BY <1>1 DEF Steady
<1>2. PICK s \in Signals : Said(s)
  BY BluezSays
<1>3. discovered \in Tables /\ refreshed \in BOOLEAN
  BY DEF IInv, CacheInv, CacheType, SessionType
<1>4. Agree(objects', signals', discovered, event_queue, devices, refreshed, nameless)
  BY <1>2, <1>3, SaidAgrees DEF Agreement
<1>5. JobTrue'
  <2>1. job.at # "idle" => job.path \in Paths
    BY JobFacts DEF IInv
  <2>2. ASSUME NEW b \in BOOLEAN, job.at # "idle", Certain(job.path, objects[job.path], signals, b)
        PROVE  Certain(job.path, objects'[job.path], signals', b)
    BY <1>2, <2>1, <2>2, SaidCertain
  <2>3. job.path \in Steady' => job.path \in Steady
    BY <1>6
  <2> QED BY <1>1, <2>2, <2>3 DEF JobTrue
<1> QED BY <1>1, <1>4, <1>5, <1>6 DEF Agreement, Agree, Two

\* Every step of the first session keeps the lists in agreement.
LEMMA AgreementKeeps ==
  ASSUME IInv, Untouched, First => Agreement /\ JobTrue, [Next]_vars, First'
  PROVE  Agreement' /\ JobTrue'
<1>1. CASE StartSession
  <2>1. /\ sessions' = sessions + 1 /\ event_queue' = <<>>
        /\ UNCHANGED <<objects, readdressed, signals, discovered, devices, job, refreshed, nameless>>
    BY <1>1 DEF StartSession, bluezVars, cacheVars, nodeVars
  <2>2. sessions = 0
    BY <2>1 DEF First, IInv, SessionType
  <2>3. Agreement
    BY <2>2, BeginsInAgreement DEF Untouched
  <2>4. event_queue' = event_queue /\ job' = Idle
    BY <2>1, <2>2 DEF Untouched
  <2> QED BY <2>1, <2>3, <2>4 DEF Agreement, Agree, Two, Steady, JobTrue, Idle
<1>2. CASE EndSession
  BY <1>2 DEF EndSession, First
<1>3. ASSUME ~StartSession, ~EndSession
      PROVE  First
  <2>1. UNCHANGED <<session, sessions>>
    <3>1. CASE UNCHANGED vars \/ HandleEvent
      BY <3>1 DEF vars, sessionVars, HandleEvent
    <3>2. CASE Bluez \/ Poll
      BY <3>2 DEF Bluez, BluezAdds, BluezChanges, BluezResolves, BluezRemoves, BluezActs, Poll,
                  HandleInterfacesAdded,
                  HandlePropertiesChanged, HandleInterfacesRemoved, Dispatch, sessionVars
    <3>3. CASE Command
      BY <3>3 DEF Command, RequestFails, PairDevice, ConnectDevice, DisconnectDevice, UnpairDevice, Begin,
                  PairDeviceById, PairRead, ConnectRead, DisconnectRead, UnpairRead, UnpairRemove, At,
                  Refresh, sessionVars
    <3> QED BY <1>3, <3>1, <3>2, <3>3 DEF Next
  <2> QED BY <2>1 DEF First
<1>4. ASSUME First, ~StartSession, ~EndSession
      PROVE  Agreement' /\ JobTrue'
  <2>1. Agreement /\ JobTrue /\ session = "up"
    BY <1>4 DEF First
  <2>2. CASE UNCHANGED vars
    BY <2>1, <2>2 DEF vars, bluezVars, sessionVars, cacheVars, nodeVars, Agreement,
                      Agree, Two, Steady, JobTrue, Certain, InFlight
  <2>3. CASE Bluez
    BY <2>1, <2>3, BluezAgrees
  <2>4. CASE Poll
    <3>1. Agreement'
      BY <2>1, <2>4, AddedAgrees, ChangedAgrees, RemovedAgrees DEF Poll
    <3>2. job' = Idle
      BY <2>4 DEF Poll, HandleInterfacesAdded, HandlePropertiesChanged, HandleInterfacesRemoved, Dispatch
    <3> QED BY <3>1, <3>2 DEF JobTrue, Idle
  <2>5. CASE Command
    BY <2>1, <2>5, CommandAgrees, PairByIdAgrees, PairReadAgrees, ConnectReadAgrees, DisconnectReadAgrees,
       UnpairReadAgrees, UnpairRemoveAgrees, RefreshAgrees DEF Command
  <2>6. CASE HandleEvent
    <3>1. Agreement'
      BY <2>1, <2>6, HandleEventAgrees
    <3>2. UNCHANGED <<objects, readdressed, signals, job>>
      BY <2>6 DEF HandleEvent, bluezVars
    <3> QED BY <2>1, <3>1, <3>2 DEF JobTrue, Certain, InFlight, Steady
  <2> QED BY <1>4, <2>2, <2>3, <2>4, <2>5, <2>6 DEF Next
<1> QED BY <1>1, <1>2, <1>3, <1>4

\* Every step keeps the invariant.
LEMMA NextLists == ListsInv /\ [Next]_vars => ListsInv'
BY NextInv, UntouchedKeeps, AgreementKeeps DEF ListsInv

\* The invariant is one.
LEMMA ListsInductive == Spec => []ListsInv
BY InitLists, NextLists, PTL DEF Spec

-----------------------------------------------------------------------------
(* Results                                                                 *)

\* What the cache answers with is so as soon as no signal is in the connection, also while
\* a command is half-way and events are queued: no device is cached that is gone, and
\* after an enumeration every device is there, as far as it has kept its MAC.
CacheCurrent == First /\ signals = <<>> => \A p \in Steady :
    LET i == discovered[AddressOf[p]] IN
      /\ i # Absent \/ discovered[p] # Absent => objects[p] # Absent
      /\ i # Absent => Covers(i) /\ Exact(i)
      /\ refreshed /\ objects[p] # Absent => i # Absent

\* Between two signals the cache is current: a command that asks it, as unpair_device asks
\* whether the device is connected and pair_device whether it is paired, is not misled about
\* one whose MAC has not changed, whatever has become of the MACs of others.
THEOREM CacheIsCurrent == Spec => []CacheCurrent
<1>1. ListsInv => CacheCurrent
  <2> SUFFICES ASSUME ListsInv, First, signals = <<>>, NEW p \in Paths, p \in Steady
               PROVE  LET i == discovered[AddressOf[p]] IN
                        /\ i # Absent \/ discovered[p] # Absent => objects[p] # Absent
                        /\ i # Absent => Covers(i) /\ Exact(i)
                        /\ refreshed /\ objects[p] # Absent => i # Absent
    BY DEF CacheCurrent, Steady
  <2> DEFINE o == objects[p]
             c == Two(discovered, p)
  <2>1. Bus(p, o, <<>>, c, refreshed)
    BY DEF ListsInv, Agreement, Agree
  <2>2. c[1] = discovered[AddressOf[p]] /\ c[2] = discovered[p]
    BY DEF Two
  <2>3. \A K : ~InFlight(<<>>, K)
    BY DEF InFlight
  <2>4. c[1] # Absent => c[1].device_id = p
    BY <2>2, TidyTwo DEF ListsInv, IInv, CacheInv, CacheType
  <2> HIDE DEF o, c
  <2>5. c[1] # Absent \/ c[2] # Absent => c # NoRecord
    BY DEF NoRecord
  <2>6. /\ c[1] # Absent \/ c[2] # Absent => o # Absent
        /\ c[1] # Absent => c[1].connected = o.connected /\ (o.paired => c[1].paired)
        /\ refreshed /\ o # Absent => c[1] # Absent
    BY <2>1, <2>3, <2>5 DEF Bus
  <2>7. c[1] # Absent => Covers(c[1]) /\ Exact(c[1])
    BY <2>4, <2>6 DEF Covers, Exact, o
  <2> QED BY <2>2, <2>6, <2>7 DEF o
<1> QED BY <1>1, ListsInductive, PTL

\* With nothing in the connection and nothing queued the lists say what bluetoothd does.
LEMMA RestFacts ==
  ASSUME ListsInv, AtRest, NEW p \in Paths, p \in Steady
  PROVE  LET o == objects[p]
             i == discovered[AddressOf[p]]
             j == devices[AddressOf[p]]
         IN /\ i # Absent => /\ i.device_id = p /\ o # Absent /\ i.connected = o.connected
                             /\ o.paired => i.paired
            /\ refreshed /\ o # Absent => i # Absent
            /\ j # Absent => /\ j.device_id = p /\ i # Absent
                             /\ i.paired => j.paired
                             /\ i.connected => j.connected
                             /\ j.connected => i.connected \/ nameless
            /\ refreshed /\ i # Absent /\ i.paired => j # Absent
<1> DEFINE o == objects[p]
           c == Two(discovered, p)
           x == Two(devices, p)
<1>1. IInv /\ Agreement /\ signals = <<>> /\ event_queue = <<>>
  BY DEF ListsInv, First, AtRest
<1>2. /\ Bus(p, o, <<>>, c, refreshed)
      /\ Told(p, <<>>, c, <<>>, x, refreshed, nameless)
  BY <1>1 DEF Agreement, Agree
<1>3. x \in Pairs
  BY <1>1, DeviceTypes
<1>4. c[1] = discovered[AddressOf[p]] /\ x[1] = devices[AddressOf[p]]
  BY DEF Two
<1>5. \A K : ~InFlight(<<>>, K)
  BY DEF InFlight
<1>6. /\ c[1] # Absent => c[1].device_id = p
      /\ x[1] # Absent => x[1].device_id = p
  BY <1>1, <1>4, TidyTwo DEF IInv, CacheInv, CacheType, NodeInv
<1> HIDE DEF o, c, x
<1>7. Settled(p, <<>>, c, x, refreshed, nameless)
  <2>1. PICK z \in Pairs : /\ Leads(Hears(p), Pairs, <<>>, x, z)
                           /\ Settled(p, <<>>, c, z, refreshed, nameless)
    BY <1>2 DEF Told
  <2>2. x = z
    BY <1>3, <2>1, LeadsNowhere
  <2> QED BY <2>1, <2>2
<1>8. /\ c[1] # Absent => /\ o # Absent /\ c[1].connected = o.connected
                          /\ o.paired => c[1].paired
      /\ refreshed /\ o # Absent => c[1] # Absent
  <2>1. c[1] # Absent => c # NoRecord
    BY DEF NoRecord
  <2> QED BY <1>2, <1>5, <2>1 DEF Bus
<1>9. /\ x[1] # Absent => /\ c[1] # Absent
                          /\ c[1].paired => x[1].paired
                          /\ c[1].connected => x[1].connected
                          /\ x[1].connected => c[1].connected \/ nameless
      /\ refreshed /\ c[1] # Absent /\ c[1].paired => x[1] # Absent
  BY <1>5, <1>7 DEF Settled
<1> QED BY <1>4, <1>6, <1>8, <1>9 DEF o

\* Once the signals and events of the first session are dealt with, the lists are as
\* bluetoothd has the devices, those whose MAC has not changed: for any devices and any
\* number of signals and events, in whatever order replies overtook signals and commands
\* were given, and whatever has become of the MACs of others.
THEOREM ListsAreCurrent == Spec => []ListsCurrent
<1>1. ListsInv => ListsCurrent
  <2> SUFFICES ASSUME ListsInv, AtRest, NEW p \in Paths, p \in Steady
               PROVE  LET a == AddressOf[p] IN
                        /\ discovered[a] # Absent => Covers(discovered[a]) /\ Exact(discovered[a])
                        /\ devices[a] # Absent => Covers(devices[a]) /\ (nameless \/ Exact(devices[a]))
    BY DEF ListsCurrent, Steady
  <2> DEFINE a == AddressOf[p]
             o == objects[p]
             i == discovered[a]
             j == devices[a]
  <2>2. /\ i # Absent => /\ i.device_id = p /\ o # Absent /\ i.connected = o.connected
                         /\ o.paired => i.paired
        /\ j # Absent => /\ j.device_id = p /\ i # Absent
                         /\ i.paired => j.paired
                         /\ i.connected => j.connected
                         /\ j.connected => i.connected \/ nameless
    BY RestFacts
  <2>3. i # Absent => Covers(i) /\ Exact(i)
    BY <2>2 DEF Covers, Exact
  <2>4. j # Absent => Covers(j)
    BY <2>2 DEF Covers
  <2>5. ASSUME j # Absent, ~nameless
        PROVE  Exact(j)
    <3>1. j.connected \in BOOLEAN /\ o.connected \in BOOLEAN
      <4>1. IInv /\ a \in Keys
        BY TwoKeys DEF ListsInv
      <4>2. o \in Properties
        BY <2>2, <2>5, <4>1, DeviceTypes DEF States
      <4>3. j \in Infos
        BY <2>5, <4>1 DEF IInv, NodeInv, Tables
      <4> QED BY <4>2, <4>3 DEF Properties, Infos
    <3>2. j.connected <=> o.connected
      BY <2>2, <2>5
    <3> QED BY <2>2, <2>5, <3>1, <3>2 DEF Exact
  <2> QED BY <2>3, <2>4, <2>5
<1> QED BY <1>1, ListsInductive, PTL

\* After an enumeration no such device is missing then, and no paired one from the node's
\* lists.
THEOREM ListsAreComplete == Spec => []ListsComplete
<1>1. ListsInv => ListsComplete
  <2> SUFFICES ASSUME ListsInv, AtRest, refreshed, NEW p \in Paths, p \in Steady, objects[p] # Absent
               PROVE  /\ discovered[AddressOf[p]] # Absent
                      /\ objects[p].paired => paired_devices[AddressOf[p]] # Absent
    BY DEF ListsComplete, Steady
  <2> DEFINE i == discovered[AddressOf[p]]
             j == devices[AddressOf[p]]
  <2>1. /\ i # Absent /\ (objects[p].paired => i.paired)
        /\ i.paired => j # Absent
        /\ j # Absent => (i.paired => j.paired)
    BY RestFacts
  <2>2. j # Absent /\ j.paired => paired_devices[AddressOf[p]] = j
    BY TwoKeys DEF ListsInv, IInv, NodeInv, Mirrors
  <2> QED BY <2>1, <2>2
<1> QED BY <1>1, ListsInductive, PTL

-----------------------------------------------------------------------------
(* The lists as rosters                                                    *)

\* What a table knows of a device is what its records say; one of them at most does.
LEMMA KnownRecords ==
  ASSUME NEW t \in Tables, Tidy(t), NEW p \in Paths
  PROVE  /\ \A r : r \in Known(t)[p] <=> \E k \in Keys : /\ t[k] # Absent /\ t[k].device_id = p
                                                         /\ r = Entry(t[k])
         /\ \A r, s \in Known(t)[p] : r = s
<1>1. \A r : r \in Known(t)[p] <=> \E k \in Keys : /\ t[k] # Absent /\ t[k].device_id = p
                                                   /\ r = Entry(t[k])
  <2> DEFINE own == {l \in Keys : t[l] # Absent /\ t[l].device_id = p}
  <2>1. Known(t)[p] = {Entry(t[k]) : k \in own}
    BY DEF Known
  <2>2. \A k : k \in own <=> k \in Keys /\ t[k] # Absent /\ t[k].device_id = p
    OBVIOUS
  <2> HIDE DEF own
  <2>3. \A r : r \in Known(t)[p] <=> \E k \in own : r = Entry(t[k])
    BY <2>1, Zenon
  <2> QED BY <2>2, <2>3
<1>2. \A k, l \in Keys : t[k] # Absent /\ t[k].device_id = p /\ t[l] # Absent /\ t[l].device_id = p
                           => k = l
  BY DEF Tidy
<1> QED BY <1>1, <1>2

\* The records of a tidy table are under the address they have.
LEMMA RecordKeys ==
  ASSUME NEW t \in Tables, Tidy(t), NEW k \in Keys, t[k] # Absent
  PROVE  t[k] \in Infos /\ k = Key(t[k]) /\ k = t[k].address /\ t[k].device_id \in Paths
<1>1. t[k] \in Infos /\ k = Key(t[k])
  BY DEF Tables, Tidy
<1> QED BY <1>1, KeyType

\* The entry of a record has the fields a roster's record has.
LEMMA EntryType ==
  ASSUME NEW i \in Infos
  PROVE  /\ Entry(i) \in [name : Keys, paired : BOOLEAN, connected : BOOLEAN]
         /\ Entry(i).name = i.address
         /\ Entry(i).paired = i.paired /\ Entry(i).connected = i.connected
<1>1. i.address \in Keys /\ i.paired \in BOOLEAN /\ i.connected \in BOOLEAN
  BY DEF Infos
<1> QED BY <1>1 DEF Entry

\* The records that are merged into one are those of its device.
LEMMA MergedOnes ==
  ASSUME NEW t \in Tables, Tidy(t), NEW i \in Infos
  PROVE  /\ Key(i) \in Keys /\ Key(i) = i.address
         /\ \A k \in Keys : t[k] # Absent /\ t[k].device_id = i.device_id
                              <=> k \in Stale(t, i) \/ (k = Key(i) /\ t[k] # Absent)
         /\ \A k \in Stale(t, i) : k \in Keys /\ t[k] # Absent /\ k # Key(i)
<1>1. Key(i) \in Keys /\ Key(i) = i.address
  BY KeyType
<1>2. ASSUME NEW k \in Keys, t[k] # Absent, k # Key(i)
      PROVE  t[k].device_id = i.device_id <=> k \in Stale(t, i)
  <2>1. t[k].address # i.address
    BY <1>1, <1>2, RecordKeys
  <2> QED BY <1>2, <2>1 DEF Stale
<1>3. t[Key(i)] # Absent => t[Key(i)].device_id = i.device_id
  BY <1>1, RecordKeys, KeyInjective
<1>4. \A k \in Stale(t, i) : k \in Keys /\ t[k] # Absent /\ k # Key(i)
  BY DEF Stale
<1> QED BY <1>1, <1>2, <1>3, <1>4

\* Merging a record with those of its device is learning what it says.
LEMMA EntryMerged ==
  ASSUME NEW t \in Tables, Tidy(t), NEW i \in Infos
  PROVE  /\ Entry(Merged(t, i)) = Cache!Joined(Entry(i), Known(t)[i.device_id])
         /\ Entry(Merged(t, i)) = Copy!Joined(Entry(i), Known(t)[i.device_id])
<1> DEFINE old == Known(t)[i.device_id]
           pd == i.paired \/ \E r \in old : r.paired
           cd == i.connected \/ \E r \in old : r.name # i.address /\ r.connected
<1>1. i.device_id \in Paths
  BY KeyType
<1>2. \A r : r \in old <=> \E k \in Keys : /\ t[k] # Absent /\ t[k].device_id = i.device_id
                                           /\ r = Entry(t[k])
  BY <1>1, KnownRecords
<1>3. \A k \in Keys : t[k] # Absent => /\ Entry(t[k]).name = k
                                       /\ Entry(t[k]).paired = t[k].paired
                                       /\ Entry(t[k]).connected = t[k].connected
  BY RecordKeys, EntryType
<1> HIDE DEF old
<1>4. (\E k \in Stale(t, i) \cup {Key(i)} : t[k] # Absent /\ t[k].paired)
        <=> \E r \in old : r.paired
  <2>1. (\E r \in old : r.paired)
          <=> \E k \in Keys : t[k] # Absent /\ t[k].device_id = i.device_id /\ t[k].paired
    BY <1>2, <1>3
  <2> QED BY <2>1, MergedOnes
<1>5. (\E k \in Stale(t, i) : t[k].connected)
        <=> \E r \in old : r.name # i.address /\ r.connected
  <2>1. (\E r \in old : r.name # i.address /\ r.connected)
          <=> \E k \in Keys : /\ t[k] # Absent /\ t[k].device_id = i.device_id
                              /\ k # i.address /\ t[k].connected
    BY <1>2, <1>3
  <2> QED BY <2>1, MergedOnes
<1>6. Merged(t, i) \in Infos /\ Merged(t, i).address = i.address
  BY MergedType
<1>7. Merged(t, i).paired = pd /\ Merged(t, i).connected = cd
  <2> DEFINE p == i.paired \/ \E k \in Stale(t, i) \cup {Key(i)} : t[k] # Absent /\ t[k].paired
             c == i.connected \/ \E k \in Stale(t, i) : t[k].connected
  <2>1. Merged(t, i) = [[i EXCEPT !.paired = p] EXCEPT !.connected = c]
    BY DEF Merged, Infos
  <2>2. p = pd /\ c = cd
    BY <1>4, <1>5
  <2> HIDE DEF p, c
  <2>3. Merged(t, i).paired = p /\ Merged(t, i).connected = c
    BY <2>1 DEF Infos
  <2> QED BY <2>2, <2>3
<1> HIDE DEF pd, cd
<1>8. Entry(Merged(t, i)) = [name |-> i.address, paired |-> pd, connected |-> cd]
  BY <1>6, <1>7 DEF Entry
<1>9. /\ Cache!Joined(Entry(i), old) = [name |-> i.address, paired |-> pd, connected |-> cd]
      /\ Copy!Joined(Entry(i), old) = [name |-> i.address, paired |-> pd, connected |-> cd]
  BY EntryType DEF Cache!Joined, Copy!Joined, pd, cd
<1> QED BY <1>8, <1>9 DEF old

\* An upsert makes a table learn of the devices it is about, and of no other.
LEMMA Learnt ==
  ASSUME NEW t \in Tables, Tidy(t), NEW infos \in SUBSET Infos, Distinct(infos)
  PROVE  LET new == Known(Upserted(t, infos))
             D == {i.device_id : i \in infos}
         IN /\ D \in SUBSET Paths
            /\ \A d \in D : \E i \in infos :
                 /\ i.device_id = d
                 /\ new[d] = {Cache!Joined(Entry(i), Known(t)[d])}
                 /\ new[d] = {Copy!Joined(Entry(i), Known(t)[d])}
            /\ \A d \in Paths \ D : new[d] = Known(t)[d]
<1> DEFINE u == Upserted(t, infos)
           D == {i.device_id : i \in infos}
<1>1. u \in Tables /\ Tidy(u)
  BY UpsertedType, UpsertedTidy
<1>2. D \in SUBSET Paths
  BY KeyType
<1>3. ASSUME NEW i \in infos
      PROVE  u[Key(i)] = Merged(t, i) /\ Key(i) \in Keys
  <2>1. \A j \in infos : Key(j) = Key(i) => j = i
    BY KeyInjective DEF Distinct
  <2>2. Key(i) \in Keys
    BY KeyType
  <2> QED BY <2>1, <2>2 DEF Upserted
<1>4. ASSUME NEW k \in Keys, \A i \in infos : Key(i) # k
      PROVE  /\ u[k] \in {Absent, t[k]}
             /\ u[k] # t[k] => \E i \in infos : k \in Stale(t, i)
  BY <1>4 DEF Upserted
<1> HIDE DEF u, D
<1>5. ASSUME NEW d \in D
      PROVE  \E i \in infos : /\ i.device_id = d
                              /\ Known(u)[d] = {Cache!Joined(Entry(i), Known(t)[d])}
                              /\ Known(u)[d] = {Copy!Joined(Entry(i), Known(t)[d])}
  <2>1. PICK i \in infos : i.device_id = d
    BY DEF D
  <2>2. /\ d \in Paths /\ i \in Infos
        /\ Merged(t, i) \in Infos /\ Merged(t, i).device_id = d /\ Merged(t, i) # Absent
    BY <1>2, <2>1, MergedType, KeyType
  <2>3. Entry(Merged(t, i)) \in Known(u)[d]
    BY <1>1, <1>3, <2>2, KnownRecords
  <2>4. Known(u)[d] = {Entry(Merged(t, i))}
    BY <1>1, <2>2, <2>3, KnownRecords
  <2>5. /\ Entry(Merged(t, i)) = Cache!Joined(Entry(i), Known(t)[d])
        /\ Entry(Merged(t, i)) = Copy!Joined(Entry(i), Known(t)[d])
    BY <2>1, EntryMerged
  <2> QED BY <2>1, <2>4, <2>5
<1>6. ASSUME NEW d \in Paths \ D
      PROVE  Known(u)[d] = Known(t)[d]
  <2>1. ASSUME NEW k \in Keys
        PROVE  \/ u[k] = t[k]
               \/ (u[k] # Absent => u[k].device_id # d) /\ (t[k] # Absent => t[k].device_id # d)
    <3>1. CASE \E i \in infos : Key(i) = k
      <4>1. PICK i \in infos : Key(i) = k
        BY <3>1
      <4>2. i \in Infos /\ i.device_id # d
        BY <4>1 DEF D
      <4>3. u[k].device_id = i.device_id
        BY <1>3, <4>1, <4>2, MergedType
      <4>4. t[k] # Absent => t[k].device_id = i.device_id
        BY <4>1, <4>2, RecordKeys, KeyInjective
      <4> QED BY <4>2, <4>3, <4>4
    <3>2. CASE \A i \in infos : Key(i) # k
      <4>1. \A i \in infos : k \in Stale(t, i) => t[k] # Absent /\ t[k].device_id = i.device_id
        BY MergedOnes
      <4>2. \A i \in infos : i.device_id # d
        BY DEF D
      <4> QED BY <1>4, <3>2, <4>1, <4>2
    <3> QED BY <3>1, <3>2
  <2>2. \A k \in Keys : u[k] # Absent /\ u[k].device_id = d <=> t[k] # Absent /\ t[k].device_id = d
    BY <2>1
  <2>3. \A r : r \in Known(u)[d] <=> r \in Known(t)[d]
    BY <1>1, <2>1, <2>2, KnownRecords
  <2> QED BY <2>3 DEF Known
<1> QED BY <1>2, <1>5, <1>6 DEF u, D

\* A key that is emptied is one device's, which is forgotten if its record was there.
LEMMA Forgotten ==
  ASSUME NEW t \in Tables, Tidy(t), NEW k \in Keys
  PROVE  LET u == [t EXCEPT ![k] = Absent] IN
           Known(u) = Known(t) \/ \E p \in Paths : Known(u) = [Known(t) EXCEPT ![p] = {}]
<1> DEFINE u == [t EXCEPT ![k] = Absent]
<1>1. CASE t[k] = Absent
  <2>1. u = t
    BY <1>1 DEF Tables
  <2> QED BY <2>1
<1>2. CASE t[k] # Absent
  <2> DEFINE p == t[k].device_id
  <2>1. t[k] \in Infos /\ p \in Paths
    BY <1>2, KeyType DEF Tables
  <2>2. u \in [Keys -> Infos \cup {Absent}] /\ u[k] = Absent /\ \A l \in Keys \ {k} : u[l] = t[l]
    BY DEF Tables
  <2>3. \A l \in Keys : t[l] # Absent /\ t[l].device_id = p => l = k
    BY <1>2 DEF Tidy
  <2> HIDE DEF p, u
  <2>4. Known(u)[p] = {}
    BY <2>1, <2>2, <2>3 DEF Known
  <2>5. ASSUME NEW q \in Paths \ {p}
        PROVE  Known(u)[q] = Known(t)[q]
    <3>1. \A l \in Keys : (u[l] # Absent /\ u[l].device_id = q)
                            <=> (t[l] # Absent /\ t[l].device_id = q)
      BY <1>2, <2>2 DEF p
    <3>2. {l \in Keys : u[l] # Absent /\ u[l].device_id = q}
            = {l \in Keys : t[l] # Absent /\ t[l].device_id = q}
      BY <3>1
    <3>3. \A l \in {l \in Keys : t[l] # Absent /\ t[l].device_id = q} : u[l] = t[l]
      BY <2>2 DEF p
    <3> QED BY <3>2, <3>3 DEF Known
  <2>6. Known(u) = [Known(t) EXCEPT ![p] = {}]
    <3>1. Known(u) = [q \in Paths |-> Known(u)[q]] /\ Known(t) = [q \in Paths |-> Known(t)[q]]
      BY DEF Known
    <3> QED BY <2>1, <2>4, <2>5, <3>1
  <2> QED BY <2>1, <2>6 DEF u
<1> QED BY <1>1, <1>2

\* A record that is changed where it is changes what is known of its device only.
LEMMA Amended ==
  ASSUME NEW t \in Tables, Tidy(t), NEW k \in Keys, t[k] # Absent,
         NEW i \in Infos, i.device_id = t[k].device_id
  PROVE  /\ Known(t)[i.device_id] = {Entry(t[k])}
         /\ Known([t EXCEPT ![k] = i]) = [Known(t) EXCEPT ![i.device_id] = {Entry(i)}]
<1> DEFINE p == i.device_id
           u == [t EXCEPT ![k] = i]
<1>1. i # Absent /\ p \in Paths
  BY KeyType
<1>2. u \in [Keys -> Infos \cup {Absent}] /\ u[k] = i /\ \A l \in Keys \ {k} : u[l] = t[l]
  BY DEF Tables
<1>3. \A l \in Keys : t[l] # Absent /\ t[l].device_id = p => l = k
  BY DEF Tidy
<1> HIDE DEF p, u
<1>4. /\ {l \in Keys : t[l] # Absent /\ t[l].device_id = p} = {k}
      /\ {l \in Keys : u[l] # Absent /\ u[l].device_id = p} = {k}
  BY <1>1, <1>2, <1>3 DEF p
<1>5. Known(t)[p] = {Entry(t[k])} /\ Known(u)[p] = {Entry(i)}
  BY <1>1, <1>2, <1>4 DEF Known
<1>6. ASSUME NEW q \in Paths \ {p}
      PROVE  Known(u)[q] = Known(t)[q]
  <2>1. \A l \in Keys : (u[l] # Absent /\ u[l].device_id = q)
                          <=> (t[l] # Absent /\ t[l].device_id = q)
    BY <1>2 DEF p
  <2>2. {l \in Keys : u[l] # Absent /\ u[l].device_id = q}
          = {l \in Keys : t[l] # Absent /\ t[l].device_id = q}
    BY <2>1
  <2>3. \A l \in {l \in Keys : t[l] # Absent /\ t[l].device_id = q} : u[l] = t[l]
    BY <1>2 DEF p
  <2> QED BY <2>2, <2>3 DEF Known
<1>7. Known(u) = [Known(t) EXCEPT ![p] = {Entry(i)}]
  <2>1. Known(u) = [q \in Paths |-> Known(u)[q]] /\ Known(t) = [q \in Paths |-> Known(t)[q]]
    BY DEF Known
  <2> QED BY <1>1, <1>5, <1>6, <2>1
<1> QED BY <1>5, <1>7 DEF p, u

\* The node sets a flag of the device that an address belongs to, or of none.
LEMMA SetOfOne ==
  ASSUME NodeInv, NEW a, NEW x \in {"paired", "connected"}, NEW b \in BOOLEAN, NodeSet(a, x, b)
  PROVE  \/ Known(devices') = Known(devices)
         \/ \E p \in Paths : Known(devices') =
              [Known(devices) EXCEPT ![p] = {[r EXCEPT ![x] = b] : r \in Known(devices)[p]}]
<1>1. devices \in Tables /\ Tidy(devices)
  BY DEF NodeInv
<1>2. devices' = [k \in Keys |-> IF MatchesRecord(k, a) THEN [devices[k] EXCEPT ![x] = b]
                                 ELSE devices[k]]
  BY DEF NodeSet
<1>3. CASE \A k \in Keys : ~MatchesRecord(k, a)
  <2>1. devices' = devices
    BY <1>1, <1>2, <1>3 DEF Tables
  <2> QED BY <2>1
<1>4. ASSUME NEW k \in Keys, MatchesRecord(k, a)
      PROVE  \E p \in Paths : Known(devices') =
               [Known(devices) EXCEPT ![p] = {[r EXCEPT ![x] = b] : r \in Known(devices)[p]}]
  <2> DEFINE i == [devices[k] EXCEPT ![x] = b]
             p == devices[k].device_id
  <2>1. devices[k] # Absent /\ devices[k] \in Infos
    BY <1>1, <1>4 DEF MatchesRecord, Tables
  <2>2. i \in Infos /\ i.device_id = p /\ i.address = devices[k].address /\ p \in Paths
    BY <2>1, FlagType, KeyType
  <2>3. ASSUME NEW l \in Keys, MatchesRecord(l, a)
        PROVE  l = k
    <3>1. /\ devices[l] # Absent /\ devices[l] \in Infos
          /\ l = Key(devices[l]) /\ k = Key(devices[k])
      BY <1>1, <2>1, <2>3 DEF MatchesRecord, Tables, Tidy
    <3>2. /\ a \in {devices[k].device_id} \cup MacsOf(devices[k].device_id)
          /\ a \in {devices[l].device_id} \cup MacsOf(devices[l].device_id)
          /\ devices[k].device_id \in Paths /\ devices[l].device_id \in Paths
      <4>1. ASSUME NEW j \in Keys, MatchesRecord(j, a)
            PROVE  /\ a \in {devices[j].device_id} \cup MacsOf(devices[j].device_id)
                   /\ devices[j].device_id \in Paths
        <5>1. devices[j] \in Infos /\ a \in {j, devices[j].address, devices[j].device_id}
              /\ j = devices[j].address
          BY <1>1, <4>1, RecordKeys DEF MatchesRecord
        <5>2. /\ devices[j].address \in {devices[j].device_id} \cup MacsOf(devices[j].device_id)
              /\ devices[j].device_id \in Paths
          BY <5>1 DEF Infos
        <5> QED BY <5>1, <5>2
      <4> QED BY <1>4, <2>3, <4>1
    <3>3. devices[l].device_id = devices[k].device_id
      BY <3>2, MacFacts
    <3> QED BY <1>1, <2>1, <3>1, <3>3 DEF Tidy
  <2>4. devices' = [devices EXCEPT ![k] = i]
    BY <1>1, <1>2, <1>4, <2>3 DEF Tables
  <2>5. Entry(i) = [Entry(devices[k]) EXCEPT ![x] = b]
    BY <2>1, <2>2 DEF Entry, Infos
  <2> HIDE DEF i
  <2>6. /\ Known(devices)[p] = {Entry(devices[k])}
        /\ Known(devices') = [Known(devices) EXCEPT ![p] = {Entry(i)}]
    <3>1. i.device_id = devices[k].device_id
      BY <2>2
    <3>2. /\ Known(devices)[i.device_id] = {Entry(devices[k])}
          /\ Known([devices EXCEPT ![k] = i])
               = [Known(devices) EXCEPT ![i.device_id] = {Entry(i)}]
      BY <1>1, <2>1, <2>2, <3>1, Amended
    <3> QED BY <2>2, <2>4, <3>2
  <2>7. {Entry(i)} = {[r EXCEPT ![x] = b] : r \in Known(devices)[p]}
    BY <2>5, <2>6
  <2> QED BY <2>2, <2>6, <2>7
<1> QED BY <1>3, <1>4

\* What a step does to the cache's records: nothing, an upsert that fits, or a removal.
LEMMA CacheSteps ==
  ASSUME IInv, [Next]_vars
  PROVE  \/ discovered' = discovered
         \/ \E infos \in SUBSET Infos : /\ Distinct(infos) /\ Fitting(infos)
                                        /\ discovered' = Upserted(discovered, infos)
         \/ \E k \in Keys : discovered' = [discovered EXCEPT ![k] = Absent]
<1> DEFINE Learning == \E infos \in SUBSET Infos : /\ Distinct(infos) /\ Fitting(infos)
                                                   /\ discovered' = Upserted(discovered, infos)
           Forgetting == \E k \in Keys : discovered' = [discovered EXCEPT ![k] = Absent]
<1>1. ASSUME NEW i \in Infos, i.address \in Addresses \/ Fitting({i}), CacheUpsert({i})
      PROVE  Learning
  <2>1. {i} \in SUBSET Infos /\ Distinct({i}) /\ Fitting({i})
    BY <1>1, OneIsDistinct DEF Fitting
  <2>2. discovered' = Upserted(discovered, {i})
    BY <1>1 DEF CacheUpsert
  <2> QED BY <2>1, <2>2
<1>2. ASSUME NEW p \in Paths, FindById(p) # Absent, NEW a, CacheRemove(FindById(p), a)
      PROVE  Forgetting
  BY <1>2, FindByIdFinds DEF IInv, CacheRemove
<1> HIDE DEF Learning, Forgetting
<1>3. ASSUME NEW a \in Addresses, Begin(a)
      PROVE  discovered' = discovered \/ Learning
  <2>1. CASE CachedPath(a) # Absent
    <3>1. {} \in SUBSET Infos /\ Distinct({}) /\ Fitting({}) /\ CacheUpsert({})
      BY <1>3, <2>1 DEF Begin, Learned, Distinct, Fitting
    <3>2. discovered' = Upserted(discovered, {})
      BY <3>1 DEF CacheUpsert
    <3> QED BY <3>1, <3>2 DEF Learning
  <2>2. CASE CachedPath(a) = Absent
    <3>1. Resolved(a) \in Paths /\ Knows(a, Resolved(a))
      <4>1. \E p \in Paths : Knows(a, p)
        BY <1>3, <2>2 DEF Resolved, Begin
      <4> QED BY <2>2, <4>1 DEF Resolved
    <3>2. CacheUpsert({FromBluez(Resolved(a))})
      BY <1>3, <2>2 DEF Begin, Learned
    <3>3. FromBluez(Resolved(a)) \in Infos /\ FromBluez(Resolved(a)).address \in Addresses
      BY <3>1, FromBluezType DEF IInv, Knows, Plain
    <3> QED BY <1>1, <3>2, <3>3
  <2> QED BY <2>1, <2>2
<1>4. ASSUME job.path \in Paths, NEW events, ReadBack(events)
      PROVE  discovered' = discovered \/ Learning
  <2>1. CASE objects[job.path] # Absent /\ CacheUpsert({FromBluez(job.path)})
    <3>1. FromBluez(job.path) \in Infos /\ FromBluez(job.path).address \in Addresses
      BY <1>4, <2>1, FromBluezType DEF IInv, Plain
    <3> QED BY <1>1, <2>1, <3>1
  <2> QED BY <1>4, <2>1 DEF ReadBack, cacheVars
<1>5. CASE Poll
  <2> DEFINE s == Head(signals)
  <2>1. signals # <<>> /\ s \in PlainSignals(readdressed) /\ s \in Signals
    <3>1. signals # <<>> /\ signals \in Seq(PlainSignals(readdressed))
      BY <1>5 DEF Poll, HandleInterfacesAdded, HandlePropertiesChanged, HandleInterfacesRemoved,
                  Dispatch, IInv, BluezType
    <3> QED BY <3>1 DEF PlainSignals
  <2>2. s.path \in Paths
    BY <2>1, SignalFacts
  <2>3. CASE HandleInterfacesAdded
    <3> DEFINE i == [address |-> s.address, device_id |-> s.path,
                     paired |-> s.changed.paired, connected |-> s.changed.connected]
    <3>1. s.type = "added" /\ CacheUpsert({i})
      BY <2>3 DEF HandleInterfacesAdded, Dispatch
    <3>2. s.changed \in Properties /\ s.address = AddressOf[s.path]
      BY <2>1, <3>1 DEF Signals, PlainSignals
    <3>3. i \in Infos /\ i.address \in Addresses
      BY <2>2, <3>2, MacFacts DEF Infos, Properties
    <3> HIDE DEF i
    <3> QED BY <1>1, <3>1, <3>3 DEF Learning
  <2>4. CASE HandlePropertiesChanged
    <3> DEFINE i == Updated(s)
    <3>1. CacheUpsert({i})
      BY <2>4 DEF HandlePropertiesChanged
    <3>2. i \in Infos /\ Fitting({i})
      BY <2>1, UpdatedFits DEF IInv, Plain
    <3> HIDE DEF i
    <3>3. Learning
      BY <1>1, <3>1, <3>2
    <3> QED BY <3>3 DEF Learning
  <2>5. CASE HandleInterfacesRemoved
    <3>1. \/ discovered' = discovered
          \/ FindById(s.path) # Absent
             /\ CacheRemove(FindById(s.path), discovered[FindById(s.path)].address)
      BY <2>5 DEF HandleInterfacesRemoved, cacheVars
    <3>2. discovered' = discovered \/ Forgetting
      BY <1>2, <2>2, <3>1
    <3> QED BY <3>2 DEF Forgetting
  <2> QED BY <1>5, <2>3, <2>4, <2>5 DEF Poll, Learning, Forgetting
<1>6. CASE \E a \in Addresses : \/ RequestFails(a) \/ PairDevice(a) \/ ConnectDevice(a)
                                \/ DisconnectDevice(a) \/ UnpairDevice(a)
  <2>1. \E a \in Addresses : Begin(a)
    BY <1>6 DEF RequestFails, PairDevice, ConnectDevice, DisconnectDevice, UnpairDevice
  <2> QED BY <1>3, <2>1 DEF Learning
<1>7. CASE PairRead \/ ConnectRead \/ DisconnectRead \/ UnpairRead
  <2>1. job.at # "idle"
    BY <1>7 DEF PairRead, ConnectRead, DisconnectRead, UnpairRead, At
  <2>2. job.path \in Paths
    BY <2>1, JobFacts DEF IInv
  <2>3. (\E events : ReadBack(events)) \/ discovered' = discovered
    BY <1>7 DEF PairRead, ConnectRead, DisconnectRead, UnpairRead, cacheVars
  <2> QED BY <1>4, <2>2, <2>3 DEF Learning
<1>8. CASE UnpairRemove
  <2>1. job.at = "unpair_remove"
    BY <1>8 DEF UnpairRemove, At
  <2>2. job.path \in Paths /\ job.told \in Keys
    BY <2>1, JobFacts DEF IInv
  <2>3. \/ discovered' = discovered
        \/ FindById(job.path) # Absent
           /\ CacheRemove(FindById(job.path), discovered[FindById(job.path)].address)
        \/ CacheRemove(job.told, job.told)
    BY <1>8 DEF UnpairRemove, cacheVars
  <2>4. CacheRemove(job.told, job.told) => Forgetting
    BY <2>2 DEF CacheRemove, Forgetting
  <2>5. discovered' = discovered \/ Forgetting
    BY <1>2, <2>2, <2>3, <2>4
  <2> QED BY <2>5 DEF Forgetting
<1>9. CASE Refresh
  <2> DEFINE infos == {FromBluez(p) : p \in {q \in Paths : objects[q] # Absent}}
  <2>1. CacheUpsert(infos) \/ discovered' = discovered
    BY <1>9 DEF Refresh, cacheVars
  <2>2. infos \in SUBSET Infos /\ Distinct(infos) /\ Fitting(infos)
    <3>1. \A p \in Paths : objects[p] # Absent =>
            /\ FromBluez(p) \in Infos /\ FromBluez(p).device_id = p
            /\ FromBluez(p).address \in Addresses
      BY FromBluezType DEF IInv, Plain
    <3> QED BY <3>1 DEF Distinct, Fitting
  <2> HIDE DEF infos
  <2>3. CacheUpsert(infos) => discovered' = Upserted(discovered, infos)
    BY DEF CacheUpsert
  <2> QED BY <2>1, <2>2, <2>3 DEF Learning
<1>10. CASE Bluez \/ HandleEvent \/ StartSession \/ EndSession \/ UNCHANGED vars
            \/ \E p \in Paths : PairDeviceById(p)
  BY <1>10 DEF Bluez, BluezAdds, BluezChanges, BluezResolves, BluezRemoves, BluezActs, HandleEvent,
               StartSession, EndSession, vars, PairDeviceById, cacheVars
<1> QED BY <1>5, <1>6, <1>7, <1>8, <1>9, <1>10 DEF Next, Command, Learning, Forgetting

\* What a step does to the node's records: nothing, or what an event says.
LEMMA NodeSteps ==
  ASSUME IInv, [Next]_vars
  PROVE  devices' = devices \/ \E e \in GoodEvents : NodeTakes(e)
<1>1. CASE HandleEvent
  <2>1. /\ event_queue # <<>> /\ NodeTakes(Head(event_queue))
        /\ event_queue \in Seq(PlainEvents(readdressed))
    BY <1>1 DEF HandleEvent, IInv, QueueInv
  <2>2. Head(event_queue) \in GoodEvents
    BY <2>1 DEF PlainEvents
  <2> QED BY <2>1, <2>2
<1>2. CASE ~HandleEvent
  <2>1. UNCHANGED nodeVars
    BY <1>2 DEF Next, vars, Bluez, BluezAdds, BluezChanges, BluezResolves, BluezRemoves, BluezActs,
                Poll, HandleInterfacesAdded, HandlePropertiesChanged, HandleInterfacesRemoved, Dispatch,
                Command, RequestFails, PairDevice, ConnectDevice, DisconnectDevice, UnpairDevice, Begin,
                PairDeviceById, PairRead, ConnectRead, DisconnectRead, UnpairRead, UnpairRemove, At,
                Refresh, StartSession, EndSession
  <2> QED BY <2>1 DEF nodeVars
<1> QED BY <1>1, <1>2

\* Each step of the cache is a step of its roster.
LEMMA CacheIsRoster ==
  ASSUME IInv, [Next]_vars
  PROVE  [Cache!CacheNext]_(Known(discovered))
<1>1. discovered \in Tables /\ Tidy(discovered)
  BY DEF IInv, CacheInv, CacheType
<1>2. Known(discovered)' = Known(discovered')
  BY DEF Known
<1>3. DOMAIN Known(discovered') = Paths
  BY DEF Known
<1>4. CASE discovered' = discovered
  BY <1>2, <1>4
<1>5. ASSUME NEW infos \in SUBSET Infos, Distinct(infos), Fitting(infos),
             discovered' = Upserted(discovered, infos)
      PROVE  Cache!CacheNext
  <2> DEFINE D == {i.device_id : i \in infos}
             old == Known(discovered)
             new == Known(discovered')
  <2>1. /\ D \in SUBSET Paths
        /\ \A d \in D : \E i \in infos : /\ i.device_id = d
                                         /\ new[d] = {Cache!Joined(Entry(i), old[d])}
        /\ \A d \in Paths \ D : new[d] = old[d]
    BY <1>1, <1>5, Learnt
  <2>2. \A i \in infos : Entry(i) \in Cache!Record
    BY EntryType DEF Cache!Record
  <2> HIDE DEF D
  <2>3. Cache!Learn(D)
    <3>1. \A d \in D : \E e \in Cache!Record : new[d] = {Cache!Joined(e, old[d])}
      BY <2>1, <2>2
    <3> QED BY <1>2, <1>3, <2>1, <3>1 DEF Cache!Learn
  <2>4. ASSUME NEW d \in Paths, NEW r \in old[d], NEW s \in new[d], r.name # d
        PROVE  s.name # d
    <3>1. CASE d \notin D
      <4>1. s \in old[d]
        BY <2>1, <3>1
      <4> HIDE DEF old, new
      <4>2. r = s
        BY <1>1, <2>4, <4>1, KnownRecords DEF old
      <4> QED BY <2>4, <4>2
    <3>2. CASE d \in D
      <4>1. PICK i \in infos : i.device_id = d /\ new[d] = {Cache!Joined(Entry(i), old[d])}
        BY <2>1, <3>2
      <4>2. PICK k \in Keys : discovered[k] # Absent /\ discovered[k].device_id = d
                               /\ r = Entry(discovered[k])
        BY <1>1, <2>4, KnownRecords
      <4>3. discovered[k] \in Infos /\ k = discovered[k].address
        BY <1>1, <4>2, RecordKeys
      <4>4. k \in MacsOf(d)
        BY <2>4, <4>2, <4>3, EntryType, KeyType
      <4>5. i \in Infos /\ i.address \in Addresses
        BY <1>5, <4>1, <4>2, <4>4 DEF Fitting
      <4>6. i.address # d
        BY <4>5, MacFacts
      <4>7. s.name = Entry(i).name
        BY <4>1 DEF Cache!Joined
      <4> QED BY <4>5, <4>6, <4>7, EntryType
    <3> QED BY <3>1, <3>2
  <2>5. Cache!KeepNames
    BY <1>2, <2>4 DEF Cache!KeepNames
  <2> QED BY <2>1, <2>3, <2>5 DEF Cache!CacheNext
<1>6. ASSUME NEW k \in Keys, discovered' = [discovered EXCEPT ![k] = Absent]
      PROVE  [Cache!CacheNext]_(Known(discovered))
  <2>1. \/ Known(discovered') = Known(discovered)
        \/ \E p \in Paths : Known(discovered') = [Known(discovered) EXCEPT ![p] = {}]
    <3>1. LET u == [discovered EXCEPT ![k] = Absent] IN
            \/ Known(u) = Known(discovered)
            \/ \E p \in Paths : Known(u) = [Known(discovered) EXCEPT ![p] = {}]
      BY <1>1, Forgotten
    <3> QED BY <1>6, <3>1
  <2>2. CASE Known(discovered') = Known(discovered)
    BY <1>2, <2>2
  <2>3. ASSUME NEW p \in Paths, Known(discovered') = [Known(discovered) EXCEPT ![p] = {}]
        PROVE  Cache!CacheNext
    BY <1>2, <2>3 DEF Cache!CacheNext, Cache!Forget
  <2> QED BY <2>1, <2>2, <2>3
<1> QED BY <1>4, <1>5, <1>6, CacheSteps

\* Each step of the node is a step of its roster.
LEMMA NodeIsRoster ==
  ASSUME IInv, [Next]_vars
  PROVE  [Copy!CopyNext]_(Known(devices))
<1>1. NodeInv /\ devices \in Tables /\ Tidy(devices)
  BY DEF IInv, NodeInv
<1>2. Known(devices)' = Known(devices')
  BY DEF Known
<1>3. DOMAIN Known(devices') = Paths
  BY DEF Known
<1>4. CASE devices' = devices
  BY <1>2, <1>4
<1>5. ASSUME NEW infos \in SUBSET Infos, Distinct(infos), devices' = Upserted(devices, infos)
      PROVE  Copy!CopyNext
  <2> DEFINE D == {i.device_id : i \in infos}
             old == Known(devices)
             new == Known(devices')
  <2>1. /\ D \in SUBSET Paths
        /\ \A d \in D : \E i \in infos : /\ i.device_id = d
                                         /\ new[d] = {Copy!Joined(Entry(i), old[d])}
        /\ \A d \in Paths \ D : new[d] = old[d]
    BY <1>1, <1>5, Learnt
  <2>2. \A i \in infos : Entry(i) \in Copy!Record
    BY EntryType DEF Copy!Record
  <2> HIDE DEF D
  <2>3. Copy!Learn(D)
    <3>1. \A d \in D : \E e \in Copy!Record : new[d] = {Copy!Joined(e, old[d])}
      BY <2>1, <2>2
    <3> QED BY <1>2, <1>3, <2>1, <3>1 DEF Copy!Learn
  <2> QED BY <2>1, <2>3 DEF Copy!CopyNext
<1>6. ASSUME NEW e \in GoodEvents, NodeTakes(e)
      PROVE  [Copy!CopyNext]_(Known(devices))
  <2>1. CASE e.type \in {"DEVICE_FOUND", "PAIRED_DEVICES_UPDATED"}
    <3>1. Brought(e) \in SUBSET Infos /\ Distinct(Brought(e))
      BY <2>1, EventFacts, OneIsDistinct DEF Brought
    <3>2. devices' = Upserted(devices, Brought(e))
      BY <1>6, <2>1 DEF NodeTakes, NodeUpsert, Brought
    <3> QED BY <1>5, <3>1, <3>2
  <2>2. CASE e.type = "DEVICE_REMOVED"
    <3>1. e.address \in Keys /\ NodeRemove(e.address)
      BY <1>6, <2>2 DEF NodeTakes, GoodEvents, Events
    <3>2. \A k \in Keys : devices[k] # Absent => devices[k].address = k
      BY <1>1, KeyType DEF Tables, Tidy
    <3>3. devices' = [devices EXCEPT ![e.address] = Absent]
      BY <1>1, <3>1, <3>2 DEF NodeRemove, Tables
    <3>4. \/ Known(devices') = Known(devices)
          \/ \E p \in Paths : Known(devices') = [Known(devices) EXCEPT ![p] = {}]
      <4>1. LET u == [devices EXCEPT ![e.address] = Absent] IN
              \/ Known(u) = Known(devices)
              \/ \E p \in Paths : Known(u) = [Known(devices) EXCEPT ![p] = {}]
        BY <1>1, <3>1, Forgotten
      <4> QED BY <3>3, <4>1
    <3>5. ASSUME NEW p \in Paths, Known(devices') = [Known(devices) EXCEPT ![p] = {}]
          PROVE  Copy!CopyNext
      BY <1>2, <3>5 DEF Copy!CopyNext, Copy!Forget
    <3> QED BY <1>2, <3>4, <3>5
  <2>3. CASE e.type = "CONNECTION_CHANGED"
    <3>1. NodeSet(e.address, "connected", e.connected) /\ e.connected \in BOOLEAN
      BY <1>6, <2>3, EventFacts DEF NodeTakes
    <3>2. \/ Known(devices') = Known(devices)
          \/ \E p \in Paths : Known(devices') =
               [Known(devices) EXCEPT
                  ![p] = {[r EXCEPT !["connected"] = e.connected] : r \in Known(devices)[p]}]
      BY <1>1, <3>1, SetOfOne
    <3>3. ASSUME NEW p \in Paths,
                 Known(devices') =
                   [Known(devices) EXCEPT
                      ![p] = {[r EXCEPT !["connected"] = e.connected] : r \in Known(devices)[p]}]
          PROVE  Copy!CopyNext
      <4>1. Copy!SetConnected(p, e.connected)
        BY <1>2, <3>3 DEF Copy!SetConnected
      <4> QED BY <3>1, <4>1 DEF Copy!CopyNext
    <3> QED BY <1>2, <3>2, <3>3
  <2>4. CASE e.type = "PAIRING_SUCCEEDED"
    <3>1. NodeSet(e.address, "paired", TRUE)
      BY <1>6, <2>4 DEF NodeTakes
    <3>2. \/ Known(devices') = Known(devices)
          \/ \E p \in Paths : Known(devices') =
               [Known(devices) EXCEPT
                  ![p] = {[r EXCEPT !["paired"] = TRUE] : r \in Known(devices)[p]}]
      BY <1>1, <3>1, SetOfOne
    <3>3. ASSUME NEW p \in Paths,
                 Known(devices') =
                   [Known(devices) EXCEPT
                      ![p] = {[r EXCEPT !["paired"] = TRUE] : r \in Known(devices)[p]}]
          PROVE  Copy!CopyNext
      <4>1. Copy!MarkPaired(p)
        BY <1>2, <3>3 DEF Copy!MarkPaired
      <4> QED BY <4>1 DEF Copy!CopyNext
    <3> QED BY <1>2, <3>2, <3>3
  <2> QED BY <1>6, <2>1, <2>2, <2>3, <2>4 DEF NodeTakes
<1> QED BY <1>4, <1>6, NodeSteps

\* The cache and the node's list behave like one record per device, in every session and
\* for any devices: keys, indexes and stale records never show.
THEOREM ListsAreRosters == Spec => ImplementsRoster
<1>1. Init => Cache!Init /\ Copy!Init
  <2> SUFFICES ASSUME Init PROVE Cache!Init /\ Copy!Init
    OBVIOUS
  <2>1. \A k \in Keys : discovered[k] = Absent /\ devices[k] = Absent
    BY DEF Init, ListsInit, Empty
  <2>2. Known(discovered) = [p \in Paths |-> {}] /\ Known(devices) = [p \in Paths |-> {}]
    BY <2>1 DEF Known
  <2> QED BY <2>2 DEF Cache!Init, Copy!Init
<1>2. IInv /\ [Next]_vars => /\ [Cache!CacheNext]_(Known(discovered))
                             /\ [Copy!CopyNext]_(Known(devices))
  BY CacheIsRoster, NodeIsRoster
<1> QED BY <1>1, <1>2, Inductive, PTL
        DEF Spec, ImplementsRoster, Cache!CacheSpec, Copy!CopySpec
=============================================================================
