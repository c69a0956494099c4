SPECIFICATION Spec
CONSTANTS
    a1 = a1
    a2 = a2
    b1 = b1
    ra = ra
    rb = rb
    Works = {a1, a2, b1}
    Repos = {ra, rb}
    RepoOf <- TwoRepos
    CallerIds = {0, 1}
    Limit = 1
    Capacity = 1
    NoJob = NoJob
    MaxLives = 2
    OwnerLives = 2
INVARIANTS
    AcceptedIsRecoverable
CHECK_DEADLOCK FALSE
