SPECIFICATION AnySpec
CONSTANTS
    j1 = j1
    j2 = j2
    NumPosts = 2
    Judges <- TwoJudges
    Texts <- TextsOfThree
    Ingested <- Approved
    Upgrades <- ReadInFull
    Edits <- LaterEdit
    Alike <- SayTheSame
    MaxFaults = 2
    r1 = r1
    r2 = r2
    m1 = m1
    k1 = k1
    Callers = {r1, r2}
    MaxThreads = 2
    MaxCalls = 3
    Machines = {m1}
    Codes = {k1}
    Hosts = {1, 2}
    Spaces = {1, 2}
    MaxFailures = 1
    MaxClicks = 1
INVARIANTS LeadsMatchVerdicts NoTextForgotten RepostsHaveOriginals WorkerServes
PROPERTIES RetriesEnd HostsGetTheirTurn
CHECK_DEADLOCK FALSE
