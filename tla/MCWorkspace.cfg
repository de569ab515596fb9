\* Two calls of any kind; one may be dropped, one hit by faults, and the server may be killed once.
SPECIFICATION FairSpec
CONSTANTS
    c1 = c1  c2 = c2  a = a  b = b  old = old
    Calls = {c1, c2}
    Ops <- AllOps
    Droppable = {c1}
    MayFault = {c2}
    Names = {a, b}
    MaxBody = 2
    MaxRestarts = 1
INVARIANTS
    WorkspaceTypeOK
    NothingLost
    TornHasCause
    MixHasCause
    HomeOwned
PROPERTIES
    LeftoverHasCause
    AloneIsExact
    ExportFromOneFile
    CallsProceed
