CONSTANTS
    v1 = v1
    v2 = v2
    v3 = v3
    Ids = {v1, v2, v3}
    Batches <- MCTwoBatches
    MinImages = 2
    MaxRequests = 3
    MaxCrashes = 0
    MaxGiveUps = 1
SPECIFICATION Spec
INVARIANTS UniqueLabels
CHECK_DEADLOCK FALSE
