CONSTANTS
    j1 = j1
    j2 = j2
    images = images
    extra = extra
    NoJob = NoJob
    Jobs <- MCJobs
    Parts <- MCParts
    Needed <- MCNeeded
    MaxFaults = 1
    MaxRestarts = 1
SPECIFICATION FairSpec
INVARIANTS DownloadsComplete
PROPERTIES PartsFrozen SlotFreed KeepsLedger
CHECK_DEADLOCK FALSE
