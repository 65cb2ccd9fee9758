SPECIFICATION Spec
CONSTANTS
    Scenarios <- MCScenarios
    MaxBacklog = 1
    MaxAttempts = 2
    MaxFaults = 2
INVARIANTS
    SaidOnce
    AnnouncedIsTrue
PROPERTIES
    AlertsCaughtUp
