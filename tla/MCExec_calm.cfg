\* Three calls queue for one permit; clients stay, but owe nothing: they may
\* stall for ever.  Nothing fails.
SPECIFICATION ServerFairSpec
CONSTANTS
    c1 = c1  c2 = c2  c3 = c3
    Calls <- ThreeCalls
    StreamCalls = {c1}
    Droppable = {}
    MayFault = {}
    MaxChunks = 0
    MaxRestarts = 0
    MaxConcurrentExecs = 1
    QueueTimeoutSeconds = 30
INVARIANTS
    TypeOK
    HardCap
PROPERTIES
    GateRefined
    QueueWaitBounded
