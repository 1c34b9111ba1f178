CONSTANTS
    NServers = 2
    a = a
    b = b
    c = c
    f1 = f1
    f2 = f2
    m1 = m1
    m2 = m2
    Name = {a, b, c}
    Top = {a, b}
    Leaf = {c}
    Path <- MCPath
    File = {f1, f2}
    Mode = {m1, m2}
    Dir = Dir
    NoEntry = NoEntry
    NoFile = NoFile
    NoPath = NoPath
    Faults = {"ioError", "clientCrash"}
    MaxEntries = 2
    MaxFaults = 1

SPECIFICATION Spec
SYMMETRY NameSymmetry
INVARIANT TypeOK
INVARIANT Agreement
INVARIANT FailedFileCallInvisible
INVARIANT StaleHasCause
