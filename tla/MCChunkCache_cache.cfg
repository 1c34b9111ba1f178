CONSTANTS
    a = a
    b = b
    Path = {a, b}
    NameBytes = 1
    NodeBytes = 2
    MaxLen = 14
    SizeMod = 128
    Offsets = {0, 2}
    Sizes = {1, 2}
    MaxClock = 2
    MaxLogLen = 20

SPECIFICATION Spec
SYMMETRY PathSymmetry
INVARIANT TypeOK
INVARIANT LogLenCoversList
INVARIANT NoDoubleEntry
PROPERTY ReadIsKept
PROPERTY UnlinkForgets
CHECK_DEADLOCK FALSE
