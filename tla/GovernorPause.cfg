CONSTANTS
    python = python
    desktop = desktop
    NoProc = NoProc
    Procs <- PythonAndDesktop
    Desktop <- OneDesktop
    Interval = 1
    Ceilings <- NoneOrTwo
    DefaultCeiling = 2
    HourLen = 3
    Cooldown = 2
    HighActive = 2
    StaleLock = 2
    LockPatience = 1
    Nap = 1
    IdleUntil = 3
    MaxRequests = 3
    MaxTrips = 1
    MaxCrashes = 1
SPECIFICATION Spec
INVARIANTS EveryonePauses
CHECK_DEADLOCK FALSE
