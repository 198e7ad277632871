CONSTANTS
    s1 = s1
    s2 = s2
    NoOne = NoOne
    Searches <- MCSearches
    MinImages = 2
    MaxImages = 3
    MaxReplaces = 1
    MaxSearches = 2
    MaxRestarts = 1
    MaxEncoders = 2
SPECIFICATION FairSpec
INVARIANTS SingleResolves NothingMissing SameEncoder
PROPERTIES BatchResolves SearchEnds
CHECK_DEADLOCK FALSE
