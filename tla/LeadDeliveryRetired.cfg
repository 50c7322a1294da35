SPECIFICATION Spec
CONSTANTS
    p1 = p1
    p2 = p2
    a1 = a1
    NumLeads = 1
    Pushers <- OnePusher
    Authors <- OneAuthor
    AuthorOf <- SameAuthor
    Anonymous <- Nobody
    Company <- Nobody
    Unsendable <- Nobody
    Refused <- Nobody
    Parked <- Nobody
    Fixable <- Nobody
    BatchLimit = 1
    MaxFaults = 0
INVARIANT SentIsRemembered
CHECK_DEADLOCK FALSE
