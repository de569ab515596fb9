\* Five calls that keep coming back contend for two permits: queues up to
\* three deep, and no queue timeout to thin them out.
SPECIFICATION FairAdmissionSpec
CONSTANTS
    c1 = c1  c2 = c2  c3 = c3  c4 = c4  c5 = c5
    Calls <- FiveCalls
    MaxConcurrentExecs = 2
    QueueTimeoutSeconds = 0
INVARIANTS
    PermitConservation
    NoIdlePermit
PROPERTIES
    NoOvertaking
    PoolRefined
    NoStarvation
