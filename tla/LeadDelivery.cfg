SPECIFICATION FindOrSendSpec
CONSTANTS
    p1 = p1
    p2 = p2
    a1 = a1
    NumLeads = 3
    Pushers <- TwoPushers
    Authors <- OneAuthor
    AuthorOf <- SameAuthor
    Anonymous <- Second
    Company <- Second
    Unsendable <- Nobody
    Refused <- First
    Parked <- Second
    Fixable <- Third
    BatchLimit = 2
    MaxFaults = 1
    k1 = k1
    k2 = k2
    Communities = {k1, k2}
    Limit = 1
    Retry = 1
    Interval = 2
    SearchEvery = 2
    Base = 1
    Quiet = 2
    Closed = 3
    MaxSlow = 1
    MaxTrouble = 1
    MaxChanges = 1
INVARIANT RowsTellTheTruth
PROPERTIES AnswerKept EveryLeadGoesOut HeadRotates
CHECK_DEADLOCK FALSE
