CONSTANTS
    v1 = v1
    v2 = v2
    Val = {v1, v2}
    Zero = Zero
    Junk = Junk
    NoChunk = NoChunk
    NoFile = NoFile
    MaxChunks = 2
    MaxOpens = 2
    Faults = {"clientCrash", "cutTransfer"}
    MaxFaults = 3

SPECIFICATION Spec
SYMMETRY ValSymmetry
INVARIANT TypeOK
INVARIANT Inv
INVARIANT MirrorWhenOpen
PROPERTY RestoreCopiesSource
