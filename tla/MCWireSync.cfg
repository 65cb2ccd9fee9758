SPECIFICATION FairSpec
CONSTANTS
    Counts = {0, 1}
    Maximum = 1
    MaxRevision = 3
    MaxFaults = 2
INVARIANTS
    CountsBound
PROPERTIES
    CountReported
