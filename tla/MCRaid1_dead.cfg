CONSTANTS
    v1 = v1
    Val = {v1}
    Zero = Zero
    Junk = Junk
    NoChunk = NoChunk
    NoFile = NoFile
    MaxChunks = 1
    MaxOpens = 1
    Faults = {"serverCrash"}
    MaxFaults = 1

SPECIFICATION FairSpec
PROPERTY HandlersReturn
