CONSTANTS
    r1 = r1
    r2 = r2
    p1 = p1
    f1 = f1
    NoPair = NoPair
    Reqs <- MCReqs
    Pairs <- MCPairs
    Uploads <- MCUploads
    MaxId = 3
    MaxFails = 1
SPECIFICATION Spec
SYMMETRY RequestSymmetry
INVARIANTS FilesKept NoStrayFile
PROPERTIES ListsTruthful MigratesOnce
CHECK_DEADLOCK FALSE
