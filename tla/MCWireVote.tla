---------------------------- MODULE MCWireVote -----------------------------
(* A small wire vote for TLC: 3 votes of 4 keep the gap of two samples      *)
(* between opposite verdicts that the device's 8 of 10 keeps at six.        *)
EXTENDS WireVote
=============================================================================
