SPECIFICATION Spec
CONSTANTS
    SeqMod = 10
    RestartGap = 2
    LossWindow = 3
    None = None
    MaxSent = 8
    MaxInFlight = 2
    MaxRestarts = 1
INVARIANTS
    RestartNoticed
CHECK_DEADLOCK FALSE
