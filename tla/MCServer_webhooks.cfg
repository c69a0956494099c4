SPECIFICATION FairSpec
CONSTANTS
    w1 = w1
    w2 = w2
    Webhooks = {w1, w2}
    Events <- AllEvents
    Files <- GoodFiles
    Gets <- HealthOnly
    Given = {"Approve"}
    AddressKnown = {FALSE}
    Threads = 2
    MaxRequests = 1
    PageSize = 1
INVARIANTS
    EventsStartReviews
CHECK_DEADLOCK FALSE
