CONSTANTS
    s1 = s1
    s2 = s2
    NoOne = NoOne
    Searches <- MCSearches
    MinImages = 2
    MaxImages = 4
    MaxReplaces = 1
    MaxSearches = 1
    MaxRestarts = 0
    MaxEncoders = 1
SPECIFICATION Spec
INVARIANTS NeverTorn
SYMMETRY SearchSymmetry
CHECK_DEADLOCK FALSE
