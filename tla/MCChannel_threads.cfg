CONSTANTS
    w1 = w1
    w2 = w2
    Worker = {w1, w2}
    ShortReads = TRUE
    MaxCalls = 2
    MaxEntries = 2

SPECIFICATION FairSpec
INVARIANT TypeOK
INVARIANT StoredIsSent
INVARIANT NothingLeft
PROPERTY MismatchHasCause
PROPERTY HandlersReturn
CHECK_DEADLOCK FALSE
