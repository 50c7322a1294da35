SPECIFICATION PublicSpec
CONSTANTS
    PublicSpaces = {"a"}
    PerPage = 1
    FirstPages = 3
    LaterPages = 2
    Recency = 3
    AgeCap = 0
    LastInstant = 4
    MaxUpsets = 0
PROPERTY NewPostsAreRead
