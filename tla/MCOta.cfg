SPECIFICATION FairSpec
CONSTANTS
    c1 = c1
    c2 = c2
    Conns <- MCConns
    None = None
    BootCfg = 1
    BootFw = 1
    Targets <- MCTargets
    MaxConfigs = 0
    MaxJobs = 2
    MaxCmds = 0
    MaxFaults = 1
INVARIANTS
    OtaPhases
PROPERTIES
    FirmwareNeverDowngraded
    FinishedJobsStay
    InterruptedJobGetsOutcome
