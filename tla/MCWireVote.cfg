SPECIFICATION FairSpec
CONSTANTS
    Pins = {p1, p2}
    Window = 4
    Required = 3
    MaxGeneration = 3
INVARIANTS
    IndInv
    NoForeignSample
PROPERTIES
    FlipNeedsEvidence
    VerdictSpec
    SettlesOnPlugged
