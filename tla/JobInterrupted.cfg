CONSTANTS
    j1 = j1
    j2 = j2
    images = images
    extra = extra
    NoJob = NoJob
    Jobs <- MCJobs
    Parts <- MCParts
    Needed <- MCNeeded
    MaxFaults = 0
    MaxRestarts = 0
SPECIFICATION Spec
INVARIANTS InterruptedNotCompleted
CHECK_DEADLOCK FALSE
