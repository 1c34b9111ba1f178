CONSTANTS
    w1 = w1
    w2 = w2
    Worker = {w1, w2}
    ShortReads = FALSE
    MaxCalls = 2
    MaxEntries = 2

SPECIFICATION Spec
PROPERTY RepliesMatch
CHECK_DEADLOCK FALSE
