SPECIFICATION Spec
CONSTANTS
    k1 = k1
    k2 = k2
    s1 = s1
    s2 = s2
    dashboard = dashboard
    NoCookie = NoCookie
    NoRow = NoRow
    Never = Never
    Cookies <- TwoCookies
    Spaces <- TwoSpaces
    Keepers <- Dashboard
    Overlap = 1
    MaxScan = 1
    ScanPages = 2
    ScanPageSize = 1
    MaxTime = 3
    MaxPosts = 1
    MaxStores = 1
    MaxEvents = 1
INVARIANT FailedReadStartsOver
CHECK_DEADLOCK FALSE
