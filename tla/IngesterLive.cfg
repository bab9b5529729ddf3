SPECIFICATION FairSpec
CONSTANTS
    Writers = {w1, w2}
    Entries = {e1, e2}
    Cap = 2
    LastChunk = 6
    NoEntry = nil
    Chunks = 1
    MaxDirty = 2
    MaxRetry = 1
    SizeLimit = FALSE
    Closers = {p1, p2}
CHECK_DEADLOCK FALSE
INVARIANT
    CloseHandlesOwed
PROPERTIES
    CloseReturns
    EntriesLeaveMemory
