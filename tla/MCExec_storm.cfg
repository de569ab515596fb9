\* A stream and a oneshot call; clients vanish, connections fail, the server restarts.
SPECIFICATION Spec
CONSTANTS
    c1 = c1  c2 = c2  c3 = c3
    Calls <- TwoCalls
    StreamCalls = {c1}
    Droppable = {c1, c2}
    MayFault = {c1, c2}
    MaxChunks = 1
    MaxRestarts = 1
    MaxConcurrentExecs = 1
    QueueTimeoutSeconds = 30
INVARIANTS
    SeatMatchesPhase
    OrphanHasCause
    FinishedIsComplete
    TimeoutLeavesNothing
    GuardSweeps
