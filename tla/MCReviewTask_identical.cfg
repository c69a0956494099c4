SPECIFICATION Spec
CONSTANTS
    p1 = p1
    p2 = p2
    t1 = t1
    t2 = t2
    empty = empty
    trivial = trivial
    d1 = d1
    d2 = d2
    Prs = {p1, p2}
    GitLabPrs = {p2}
    Tasks = {t1, t2}
    PrOf <- TwoPrs
    MaxVersion = 2
    Diffs = {empty, trivial, d1, d2}
    EmptyDiff = empty
    TrivialDiff = trivial
    DiffOf <- ChangingDiffs
    MaxInline = 1
    MaxRetries = 1
    Configs <- ImmediateOrBatching
    NoReview = NoReview
    MaxCrashes = 0
INVARIANTS
    SkipsIdenticalDiffs
CHECK_DEADLOCK FALSE
