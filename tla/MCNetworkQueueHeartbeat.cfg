SPECIFICATION Spec
CONSTANTS
    NumSlots = 5
    Kinds = {"Poll", "Verify", "Report"}
    MaxId = 5
    MaxEpoch = 1
INVARIANTS
    HeartbeatServed
