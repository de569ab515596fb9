\* The client of a oneshot call vanishes.
SPECIFICATION Spec
CONSTANTS
    c1 = c1  c2 = c2  c3 = c3
    Calls <- TwoCalls
    StreamCalls = {}
    Droppable = {c1}
    MayFault = {}
    MaxChunks = 0
    MaxRestarts = 0
    MaxConcurrentExecs = 1
    QueueTimeoutSeconds = 30
INVARIANTS
    HardCap
