SPECIFICATION FairSpec
CONSTANTS
    Scenarios <- MCScenarios
    Devices = {"d1", "d2"}
    None = None
    Grace = 2
    MaxSignals = 2
INVARIANTS
    WellFormed
    ReportSound
    PassesEarned
    NoOrphans
PROPERTIES
    RunnerExits
CHECK_DEADLOCK FALSE
