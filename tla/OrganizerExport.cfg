CONSTANTS
    a = a
    b = b
    c = c
    d = d
    e = e
    f = f
    Ids <- MCIds
    Inputs <- MCInputs
    Booster <- MCBooster
    BoosterThreshold = 1
    TopK = 3
    Preserved = 1
    Threshold = 1
    MinGallery = 3
    Batch = 3
    MaxChanges = 1
    MaxRuns = 2
SPECIFICATION Spec
INVARIANTS TypeOK ReportTruthful DigestOfEmbedded AnswersAgree RefusalByCosine
PROPERTY InspectedExports
CHECK_DEADLOCK FALSE
