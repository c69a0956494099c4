SPECIFICATION FairSpec
CONSTANTS
    a1 = a1
    a2 = a2
    b1 = b1
    ra = ra
    rb = rb
    Works = {a1, a2, b1}
    Repos = {ra, rb}
    RepoOf <- TwoRepos
    CallerIds = {0}
    Limit = 1
    Capacity = 1
    NoJob = NoJob
    MaxLives = 2
    OwnerLives = 1
PROPERTIES
    AcceptedRuns
    RequeuedRuns
    ShutdownEnds
    SubmitReturns
CHECK_DEADLOCK FALSE
