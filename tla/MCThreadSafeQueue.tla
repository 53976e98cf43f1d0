-------------------------- MODULE MCThreadSafeQueue --------------------------
(* A small instance of ThreadSafeQueue for TLC.                           *)
EXTENDS ThreadSafeQueue
=============================================================================
