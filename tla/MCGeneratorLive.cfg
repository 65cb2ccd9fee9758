SPECIFICATION LiveSpec
CONSTANTS
    Counts = {3, 4}
    Maximum = 4
    Setups <- MCLive
PROPERTIES
    IntentSettles
    FaultRecovers
    ReadsAnswered
