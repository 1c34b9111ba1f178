CONSTANTS
    a1 = a1
    a2 = a2
    t1 = t1
    t2 = t2
    File <- MCFile
    Text = {t1, t2}
    Address = {a1, a2}
    Uninit = Uninit
    MaxDisks = 3
    MaxFaults = 1

SPECIFICATION Spec
INVARIANT TypeOK
INVARIANT ParsedBlocks
INVARIANT NoDiskTwice
INVARIANT ServersInOrder
PROPERTY EveryDiskMounted
CHECK_DEADLOCK FALSE
