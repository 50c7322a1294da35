SPECIFICATION GovernorOrJoinSpec
CONSTANTS
    python = python
    desktop = desktop
    NoProc = NoProc
    Procs <- PythonAndDesktop
    Desktop <- OneDesktop
    Interval = 1
    Ceilings <- NoneOrTwo
    DefaultCeiling = 2
    HourLen = 3
    Cooldown = 2
    HighActive = 2
    StaleLock = 2
    LockPatience = 1
    Nap = 1
    IdleUntil = 3
    MaxRequests = 3
    MaxTrips = 1
    MaxCrashes = 1
    MaxRounds = 3
    MaxCodes = 2
    MaxHops = 2
    MaxPasses = 4
    main = main
    Accounts = {main}
    Main = main
    N = 2
    Limit = 1
    Cap = 2
    MaxCount = 2
    MaxTrouble = 2
INVARIANTS SlotsApart HourlyCeiling CredentialsStayHome CodesAreFresh OutcomesAreTrue CapHolds RowsNameMembers
PROPERTIES PauseSticks EveryRequestEnds EveryCandidateVisited
CHECK_DEADLOCK FALSE
