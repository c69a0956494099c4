SPECIFICATION FairSpec
CONSTANTS
    w1 = w1
    w2 = w2
    Webhooks = {w1, w2}
    Events <- AllEvents
    Files <- AllFiles
    Gets <- AllGets
    Given = {"Approve", "Comment"}
    AddressKnown = {TRUE, FALSE}
    Threads = 2
    MaxRequests = 1
    PageSize = 1
INVARIANTS
    OnlyAuthenticRuns
    DefaultsAgree
    CountersAddUp
    ScrapeWithinOverlap
    PageCoversTotal
CHECK_DEADLOCK FALSE
PROPERTIES
    EveryRequestAnswered
