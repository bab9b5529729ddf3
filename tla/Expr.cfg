SPECIFICATION Spec
CONSTANTS
    Pieces <- MCPieces
    MaxPieces = 4
    Core <- MCCore
    MaxCore = 6
    LogEntries <- MCLogEntries
CHECK_DEADLOCK FALSE
INVARIANTS
    SqlIsValid
    WordsKept
    
