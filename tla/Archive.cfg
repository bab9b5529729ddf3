SPECIFICATION Spec
CONSTANTS
    MaxTime = 4
    MaxChunks = 2
    MaxLate = 2
    FilesFound = 2
    MaxRestarts = 1
    MaxDbs = 3
    MaxChunkAge = 1
    MaxFilesize = 0
    TotalSizeCap = 1
    Ahead = 1
CHECK_DEADLOCK FALSE
INVARIANTS
    ArchiveTypeOK
    FlushFindsOpen
    
    OneDbPerFile
    SavedIsFound

    
