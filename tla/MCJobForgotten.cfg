SPECIFICATION Spec
CONSTANTS
    c1 = c1
    c2 = c2
    Conns <- MCConns
    None = None
    BootCfg = 1
    BootFw = 1
    Targets <- MCUpgrade
    MaxConfigs = 0
    MaxJobs = 1
    MaxCmds = 0
    MaxFaults = 1
SYMMETRY Sym
INVARIANTS
    UnfinishedJobResumed
