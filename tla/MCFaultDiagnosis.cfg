SPECIFICATION FairSpec
CONSTANTS
    None = None
    Flags <- MCFlags
    Requests <- MCRequests
    CommandLines <- MCCommandLines
    Detections <- MCDetections
    BoardReadings <- MCBoardReadings
    Surroundings <- MCSurroundings
    RecentRows = 1
    MaxRows = 2
    MaxUpsets = 1
INVARIANTS
    InjectedWhileDue
    AckInSync
    InjectedIsNamed
    NominalMeansQuiet
PROPERTIES
    InjectionRaisesAlert
