\* Two uploads of one file that is rewritten once; anything may fail.
SPECIFICATION FairSpec
CONSTANTS
    u1 = u1  u2 = u2  n1 = n1  n2 = n2
    Uploads <- TwoUploads
    Droppable = {u1}
    MayFault = {u1}
    Nonces = {n1}
    MaxLen = 2
    MaxRewrites = 1
    MaxRestarts = 1
    PartSizeSetting = 1
    MinPartSize = 2
    Threshold = 1
INVARIANTS
    UploadTypeOK
    ObjectWhole
    ReportExact
    RefusedOnlyWhenEmptied
    TempCleanedUp
    NothingStranded
PROPERTIES
    StoreRefined
    UploadEnds
