SPECIFICATION Spec
CONSTANTS
    Starts <- MCStarts
    MaxKey = 11
    Stored <- MCStored
    LevelOf <- MCLevelOf
    MinPage = 2
    MaxPage = 3
    PageSizes = {1, 3}
    LevelSets <- MCLevelSets
    Exprs <- MCExprs
    Froms <- MCFroms
CHECK_DEADLOCK FALSE
INVARIANTS
    
    
    TicksAddUp
