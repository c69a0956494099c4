SPECIFICATION FairSpec
CONSTANTS
    c1 = c1
    c2 = c2
    c3 = c3
    c4 = c4
    d1 = d1
    alice = alice
    bob = bob
    Calls = {c1, c2, d1}
    Keys = {alice, bob}
    KeyOf <- ClientOf
    Counted = {alice}
    MaxRequests = 1
    Window = 2
    LastArrival = 2
    MaxTime = 4
INVARIANTS
    TypeOK
    WithinLimit
    WindowLimitInOrder
PROPERTIES
    DeniedOnlyAtLimit
    IdleKeyForgotten
CHECK_DEADLOCK FALSE
