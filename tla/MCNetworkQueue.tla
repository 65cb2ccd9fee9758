--------------------------- MODULE MCNetworkQueue ---------------------------
(* Small instances of the request queue for TLC.                            *)
EXTENDS NetworkQueue
=============================================================================
