CONSTANTS
    b = b
    j = j
    Junk = {j}
    NServers = 3
    PageSz = 4
    Bit = {b}
    Offset = {3, 4}
    Size = {1, 4}
    Errno = {1, 2}
    Faults = {"ioError", "shortWrite", "clientCrash", "cutTransfer"}
    MaxFaults = 1

SPECIFICATION Spec
INVARIANT TypeOK
INVARIANT Recoverable
INVARIANT ReadReturnsStripe
INVARIANT SizeCovers
INVARIANT OneFailureReported
