CONSTANTS
    v1 = v1
    v2 = v2
    Val = {v1, v2}
    Zero = Zero
    Junk = Junk
    NoChunk = NoChunk
    NoFile = NoFile
    MaxChunks = 2
    MaxOpens = 1
    Faults = {"clientCrash", "damageAtRest"}
    MaxFaults = 3

SPECIFICATION FairSpec
INVARIANT MirrorWhenOpen
PROPERTY ImplementsStableStore
PROPERTY RestoreHeals
