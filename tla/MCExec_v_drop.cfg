\* The client of a stream vanishes.
SPECIFICATION FairSpec
CONSTANTS
    c1 = c1  c2 = c2  c3 = c3
    Calls <- TwoCalls
    StreamCalls = {c1}
    Droppable = {c1}
    MayFault = {}
    MaxChunks = 0
    MaxRestarts = 0
    MaxConcurrentExecs = 1
    QueueTimeoutSeconds = 30
PROPERTIES
    DroppedStreamStops
