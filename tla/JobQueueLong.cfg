SPECIFICATION Spec
CONSTANTS
    w1 = w1
    w2 = w2
    c1 = c1
    c2 = c2
    kScan = kScan
    kHarvest = kHarvest
    Workers <- TwoWorkers
    Callers <- OneCaller
    Keys <- TwoKeys
    Priorities <- TwoPriorities
    MaxJobs = 2
    MaxCrashes = 1
    StaleAfter = 1
    MaxRun = 2
INVARIANT NoDoubleRun
