CONSTANTS
    v1 = v1
    Val = {v1}
    Zero = Zero
    Junk = Junk
    NoChunk = NoChunk
    NoFile = NoFile
    MaxChunks = 2
    MaxOpens = 1
    Faults = {"clientCrash", "cutTransfer", "systemCrash", "ioError", "damage"}
    MaxFaults = 2

SPECIFICATION FairSpec
PROPERTY HandlersReturn
