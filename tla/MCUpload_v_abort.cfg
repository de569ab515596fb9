\* One upload, of a store that may take its time.
SPECIFICATION Spec
CONSTANTS
    u1 = u1  u2 = u2  n1 = n1  n2 = n2
    Uploads <- OneUpload
    Droppable = {}
    MayFault = {}
    Nonces = {n1}
    MaxLen = 3
    MaxRewrites = 0
    MaxRestarts = 0
    PartSizeSetting = 2
    MinPartSize = 2
    Threshold = 1
INVARIANTS
    AbortedOnAnyError
