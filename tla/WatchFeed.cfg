SPECIFICATION WatchSpec
CONSTANTS
    MaxId = 6
    MaxDrafts = 1
    MaxDeletes = 1
    MaxFaults = 1
    PinnedFeed <- OnePin
    OldFeed <- PostAbovePin
    PerPage = 3
    MaxPages = 2
    RecentKept = 2
    c1 = c1
    Communities = {c1}
    ParkAfter = 2
    MaxTrouble = 1
    MaxEvents = 4
INVARIANTS WatermarkCovers ArchiveLeftAlone PauseIsHeard
PROPERTIES EveryPostRead MembersStayFast ReadableIsRead
