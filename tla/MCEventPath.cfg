SPECIFICATION FairSpec
CONSTANTS
    MaxPayload = 2
    Streams <- MCStreams
    MaxRead = 6
    Subscribers = {"s1"}
    Capacity = 2
    MaxTelemetry = 2
INVARIANTS
    DecodesWhatArrived
    YieldsOnlySent
    OnlyStreamsSubscribed
    QueueIsNewest
PROPERTIES
    ImplementsLiveStream
    StreamsCatchUp
CHECK_DEADLOCK FALSE
