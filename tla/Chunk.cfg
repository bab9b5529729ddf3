SPECIFICATION OrderSpec
CONSTANTS
    Writers = {w1, w2, w3}
    Entries = {e1, e2, e3, e4}
    Cap = 2
    LastChunk = 2
    NoEntry = nil
SYMMETRY Symmetry
INVARIANTS
    ReadyHasNoHoles
    FirstOpenChunk
    ChunkInv
    RealTimeOrder
PROPERTY
    SlotsWriteOnce
