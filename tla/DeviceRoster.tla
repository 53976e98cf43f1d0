----------------------------- MODULE DeviceRoster -----------------------------
(***************************************************************************)
(* What a list of devices promises its users: one record at most of each   *)
(* device, whatever names the device goes by.  Keys, indexes and records   *)
(* that are out of date are the business of the list, not of its users;    *)
(* Devices implements this module twice, with the worker's DeviceCache and *)
(* with the node's copy.                                                   *)
(***************************************************************************)
CONSTANTS Ids,    \* the devices, each by its path
          Names   \* paths and MACs

VARIABLE known    \* known[d]: the records of device d, of which there is one at most

\* A record goes by the device's MAC, or by its path as long as no MAC is known.
Record == [name : Names, paired : BOOLEAN, connected : BOOLEAN]

\* A device that was paired stays so.  The connection is the new record's, and that of a
\* record which was about the device under another name.
Joined(new, old) ==
    [name |-> new.name,
     paired |-> new.paired \/ \E r \in old : r.paired,
     connected |-> new.connected \/ \E r \in old : r.name # new.name /\ r.connected]

Init == known = [d \in Ids |-> {}]

\* Something is learnt of the devices D at once.
Learn(D) == /\ DOMAIN known' = Ids
            /\ \A d \in D : \E new \in Record : known'[d] = {Joined(new, known[d])}
            /\ \A d \in Ids \ D : known'[d] = known[d]

Forget(d) == known' = [known EXCEPT ![d] = {}]

SetConnected(d, b) == known' = [known EXCEPT ![d] = {[r EXCEPT !.connected = b] : r \in @}]

MarkPaired(d) == known' = [known EXCEPT ![d] = {[r EXCEPT !.paired = TRUE] : r \in @}]

\* That a device has a MAC is not forgotten as long as the device is not.
KeepNames == \A d \in Ids : \A old \in known[d], new \in known'[d] :
                old.name # d => new.name # d

\* The cache of the backend.
CacheNext == \/ \E D \in SUBSET Ids : Learn(D) /\ KeepNames
             \/ \E d \in Ids : Forget(d)

CacheSpec == Init /\ [][CacheNext]_known

\* A copy that is kept from what the backend tells, not all of which need arrive.
CopyNext == \/ \E D \in SUBSET Ids : Learn(D)
            \/ \E d \in Ids : \/ Forget(d)
                              \/ \E b \in BOOLEAN : SetConnected(d, b)
                              \/ MarkPaired(d)

CopySpec == Init /\ [][CopyNext]_known
=============================================================================
