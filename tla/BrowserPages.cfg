CONSTANTS
    MaxPolls = 3
    MaxClicks = 2
    MaxFails = 1
    Jobs = {j1, j2}
    NoJob = NoJob
    MaxStarts = 2
    MaxChecks = 2
    MaxMissed = 1
    MaxLoads = 1
    Selections <- MCSelections
    Zips <- MCZips
    Csvs <- MCCsvs
    Unreadable <- MCUnreadable
    NoCsv = NoCsv
    MaxChoices = 3
    MaxSearches = 2
    Images = {i1, i2}
    NoImage = NoImage
    MaxAnalyses = 2
    MaxMoves = 5
    MaxPending = 1
    MaxArchives = 1
    MaxDeletes = 2
    MaxLosses = 1
SPECIFICATION Spec
INVARIANTS TypeOK PollingRight DownloadsRight JobsHeld MatchAgrees CardsRight
INVARIANTS SearchShown ListTruth
PROPERTIES PollsOn
CHECK_DEADLOCK FALSE
