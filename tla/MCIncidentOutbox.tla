-------------------------- MODULE MCIncidentOutbox --------------------------
(* Instances of IncidentOutbox: what happens in the session and where it is told. *)
EXTENDS IncidentOutbox

OneDevice(c) == [kind |-> [i \in {"a"} |-> "server"], channels |-> {c}, about |-> <<>>]
TwoDevices == [kind |-> [i \in {"a", "b"} |-> "server"], channels |-> {"slack"}, about |-> <<>>]
Silence == [kind |-> [i \in {"s", "r"} |-> IF i = "s" THEN "silent" ELSE "reboot"],
            channels |-> {"slack"}, about |-> [i \in {"r"} |-> "s"]]
Reboot == [kind |-> [i \in {"r"} |-> "reboot"], channels |-> {"slack", "notion"},
           about |-> [i \in {"r"} |-> "none"]]

MCScenarios == {OneDevice("slack"), OneDevice("notion"), Silence, Reboot}
MCCard == {TwoDevices}
=============================================================================
