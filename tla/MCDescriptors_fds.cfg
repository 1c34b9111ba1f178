CONSTANTS
    NServers = 2
    h1 = h1
    h2 = h2
    Handle = {h1, h2}
    Limit = 9
    NoFd = NoFd
    MaxDirs = 2
    MaxFaults = 2

SPECIFICATION Spec
SYMMETRY HandleSymmetry
INVARIANT TypeOK
INVARIANT ConnectionStays
INVARIANT OwnDescriptor
INVARIANT NothingLeft
INVARIANT CrashHasCause
CHECK_DEADLOCK FALSE
