SPECIFICATION Spec
CONSTANTS
    Scenarios <- MCCard
    MaxBacklog = 1
    MaxAttempts = 2
    MaxFaults = 1
INVARIANT CardHonest
