--------------------------- MODULE MCWindowsPairing ---------------------------
(* Small instances of WindowsPairing for TLC.                              *)
EXTENDS WindowsPairing
=============================================================================
