SPECIFICATION Spec
CONSTANTS
    a1 = a1
    a2 = a2
    b1 = b1
    pa = pa
    pb = pb
    ra = ra
    rb = rb
    Callers = {a1, a2, b1}
    Instances <- TasksAndOne
    OneForAll = OneForAll
    NoCaller = NoCaller
    KeyOf <- TwoPrs
    RangeOf <- TheirRanges
    BatchTimeout = 1
    Sharing = {TRUE, FALSE}
    CacheFor = 3
    TokenLife = 4
    JwtLife = 2
    MaxTime = 6
INVARIANTS
    EntryInOneBatch
    TokenUsable
CHECK_DEADLOCK FALSE
