\* Commands may exit before the exit code is asked for.
SPECIFICATION Spec
CONSTANTS
    c1 = c1  c2 = c2  c3 = c3
    Calls <- TwoCalls
    StreamCalls = {c1}
    Droppable = {}
    MayFault = {}
    MaxChunks = 0
    MaxRestarts = 0
    MaxConcurrentExecs = 1
    QueueTimeoutSeconds = 30
INVARIANTS
    FinishedHasExitCode
