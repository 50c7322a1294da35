SPECIFICATION SourcesSpec
CONSTANTS
    k1 = k1
    k2 = k2
    s1 = s1
    s2 = s2
    dashboard = dashboard
    NoCookie = NoCookie
    NoRow = NoRow
    Never = Never
    Cookies <- OneCookie
    Spaces <- TwoSpaces
    Keepers <- Dashboard
    Overlap = 1
    MaxScan = 1
    ScanPages = 2
    ScanPageSize = 1
    MaxTime = 3
    MaxPosts = 1
    MaxStores = 1
    MaxEvents = 1
    PublicSpaces = {"a", "b"}
    PerPage = 1
    FirstPages = 3
    LaterPages = 2
    Recency = 2
    AgeCap = 0
    LastInstant = 3
    MaxUpsets = 1
    ApiSpaces = {"a"}
    ApiRooms = {"r"}
    Approved = {"a", "r"}
    Member = TRUE
    PageSize = 1
    PageLimit = 2
    BatchLimit = 3
    MaxRetries = 1
    Budget = 4
    LastTick = 2
    MaxAnswers = 2
    Readers = {"pass", "person"}
    RoomLimit = 1
    Interval = 2
    RetryAfter = 1
    MaxTokens = 3
SYMMETRY AnySymmetry
INVARIANTS WindowIsCovered SessionIsListed TokenNotStranded MarkMeansKept
PROPERTIES StampedIsRead
CHECK_DEADLOCK FALSE
