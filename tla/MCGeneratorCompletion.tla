------------------------ MODULE MCGeneratorCompletion ------------------------
(* Instances of GeneratorCompletion: which completion, against which server, *)
(* under which faults.                                                       *)
EXTENDS GeneratorCompletion

RepairedSetup == [target |-> "repaired", protocols |-> {1}, maxEpoch |-> 2, maxRevision |-> 4,
                maxFaults |-> 3, may |-> AllFaults \ {"protocol", "offline"}]
LegacySetup   == [target |-> "battery_max", protocols |-> {0, 1}, maxEpoch |-> 1, maxRevision |-> 5,
                maxFaults |-> 4, may |-> AllFaults \ {"crash", "restart"}]
QuietSetup    == [target |-> "battery_max", protocols |-> {1}, maxEpoch |-> 2, maxRevision |-> 4,
                maxFaults |-> 3,
                may |-> {"crash", "lost", "late", "flash", "queue", "outside", "restart"}]
StuckSetup    == [target |-> "repaired", protocols |-> {1}, maxEpoch |-> 1, maxRevision |-> 5,
                maxFaults |-> 4, may |-> {"flash", "outside"}]

MCBoth  == {RepairedSetup, LegacySetup}
MCLive  == {QuietSetup}
MCStuck == {StuckSetup}
=============================================================================
