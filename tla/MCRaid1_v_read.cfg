CONSTANTS
    v1 = v1
    v2 = v2
    Val = {v1, v2}
    Zero = Zero
    Junk = Junk
    NoChunk = NoChunk
    NoFile = NoFile
    MaxChunks = 2
    MaxOpens = 1
    Faults = {}
    MaxFaults = 0

SPECIFICATION Spec
SYMMETRY ValSymmetry
PROPERTY ReadIsPread
