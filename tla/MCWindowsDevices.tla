--------------------------- MODULE MCWindowsDevices ---------------------------
(* Small instances of WindowsDevices for TLC: MCMacOf gives each endpoint a *)
(* MAC, and a gamepad that of some endpoint.                               *)
EXTENDS WindowsDevices, TLC

MCMacOf == [i \in Ids |-> <<"MAC", IF i \in Aeps THEN i ELSE CHOOSE a \in Aeps : TRUE>>]

Symmetric == Permutations(Aeps)
=============================================================================
