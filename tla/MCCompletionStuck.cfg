SPECIFICATION FairSpec
CONSTANTS
    Counts = {3, 4}
    Maximum = 4
    Setups <- MCStuck
PROPERTIES
    FaultRecovers
