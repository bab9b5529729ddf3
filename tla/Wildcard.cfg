SPECIFICATION WildcardFairSpec
CONSTANTS
    Letters = {"a", "b"}
    MaxPattern = 4
    MaxText = 4
CHECK_DEADLOCK FALSE
INVARIANTS
    GlobIsFound
    FoundMatches
PROPERTY
    MatchEnds
