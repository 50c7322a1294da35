SPECIFICATION UpkeepSpec
CONSTANTS
    w1 = w1
    w2 = w2
    c1 = c1
    c2 = c2
    kScan = kScan
    kHarvest = kHarvest
    Workers <- TwoWorkers
    Callers <- TwoCallers
    Keys <- OneKey
    Priorities <- OnePriority
    MaxJobs = 2
    MaxCrashes = 1
    StaleAfter = 1
    MaxRun = 2
    Rows = 2
    EnrichBatch = 1
    JudgeBatch = 1
    Llm = TRUE
    h1 = h1
    h2 = h2
    a1 = a1
    Communities = {h1, h2}
    Addresses = {a1}
    Batch = 1
    UnknownAfter = 1
    ClosedAfter = 2
    MaxMishaps = 1
    MaxHappenings = 1
    MaxTrouble = 1
    MaxEvents = 1
INVARIANTS DoubleRunsAreLate TwinsOverlapped OneRowPerAddress
PROPERTIES ImplementsLedger EveryJobEnds QueueKeepsItsRows TextIsJudged OpeningsAreNoticed
