\* Clients stay and may stop reading; no queue timeout; connections fail, the
\* server restarts.
SPECIFICATION ServerFairSpec
CONSTANTS
    c1 = c1  c2 = c2  c3 = c3
    Calls <- TwoCalls
    StreamCalls = {c1}
    Droppable = {}
    MayFault = {c1}
    MaxChunks = 1
    MaxRestarts = 1
    MaxConcurrentExecs = 1
    QueueTimeoutSeconds = 0
PROPERTIES
    CallsEnd
    ShutdownCompletes
    DeadlineStops
