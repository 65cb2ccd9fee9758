SPECIFICATION Spec
CONSTANTS
    Counts = {3, 4}
    Maximum = 4
    Setups <- MCBoth
INVARIANTS
    IntentHeld
    NoFalseSuccess
    EffectOnce
