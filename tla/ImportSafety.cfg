CONSTANTS
    v1 = v1
    v2 = v2
    v3 = v3
    Ids = {v1, v2, v3}
    Batches <- MCBatches
    MinImages = 2
    MaxRequests = 3
    MaxCrashes = 1
    MaxGiveUps = 0
SPECIFICATION FairSpec
INVARIANTS ArchiveMatchesImages DatabaseIsPublished
PROPERTIES AppendOnly ArchivesKept KeepsPromise ImportEnds
CHECK_DEADLOCK FALSE
