SPECIFICATION Spec
CONSTANTS
    Writers = {w1, w2}
    Entries = {e1, e2, e3}
    Cap = 1
    LastChunk = 8
    NoEntry = nil
    Chunks = 1
    MaxDirty = 2
    MaxRetry = 1
    SizeLimit = TRUE
    Closers = {p1}
CHECK_DEADLOCK FALSE
SYMMETRY Symmetry
INVARIANTS
    AtMostOnce
    NoEntryBehindEmpty
    IngesterInv
PROPERTIES
    ChunkSpec
    PromiseKept
