SPECIFICATION Spec
CONSTANTS
    SeqMod = 10
    RestartGap = 2
    LossWindow = 3
    None = None
    MaxSent = 12
    MaxInFlight = 2
    MaxRestarts = 1
INVARIANTS
    GapsExact
    WindowExact
CHECK_DEADLOCK FALSE
