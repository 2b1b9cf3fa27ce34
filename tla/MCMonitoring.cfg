SPECIFICATION FairSpec
CONSTANTS
    r1 = r1
    Rules <- MCRules
    Hold = 2
    None = None
    OfflineAfter = 2
    MaxRestarts = 2
INVARIANTS
    OneOpenAlert
    OnlineIsClean
PROPERTIES
    OnlySilentGoOffline
    ResolvedOnlyWhenClear
    AlertsClear
    SilentGoesOffline
