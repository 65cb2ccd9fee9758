SPECIFICATION Spec
CONSTANTS
    NumSlots = 3
    Kinds = {"Refresh", "Tag", "Wire", "Completion", "Verify"}
    MaxId = 3
    MaxEpoch = 2
INVARIANTS
    WithdrawnNeverSent
    QueueExact
    NobodyForgotten
