----------------------------- MODULE MCWireSync -----------------------------
(* Small instances of the wire synchronisation for TLC. *)
EXTENDS WireSync
=============================================================================
