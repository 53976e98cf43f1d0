------------------------------- MODULE MCDevices -------------------------------
(* A small instance of Devices for TLC: MCAddressOf gives each path a MAC, and in one  *)
(* of the instances MCIdentityOf another one that it turns out to have.                *)
EXTENDS Devices, TLC

MCAddressOf == [p \in Paths |-> <<"MAC", p>>]

MCIdentityOf == [p \in Paths |-> <<"identity", p>>]

Symmetric == Permutations(Paths)
=============================================================================
