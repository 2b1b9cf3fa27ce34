SPECIFICATION FairSpec
CONSTANTS
    c1 = c1
    c2 = c2
    Conns <- MCConns
    None = None
    BootCfg = 2
    BootFw = 1
    Targets <- MCNoTargets
    MaxConfigs = 2
    MaxJobs = 0
    MaxCmds = 1
    MaxFaults = 1
INVARIANTS
    TypeOK
    RegistryConsistent
    DrainedConfigInSync
PROPERTIES
    ConfigNeverRegresses
    ImplementsConfigService
    ConfigConverges
