SPECIFICATION Spec
CONSTANTS
    c1 = c1
    c2 = c2
    c3 = c3
    c4 = c4
    d1 = d1
    alice = alice
    bob = bob
    Calls = {c1, c2, c3, c4}
    Keys = {alice}
    KeyOf <- ClientOf
    Counted = {alice}
    MaxRequests = 2
    Window = 2
    LastArrival = 3
    MaxTime = 3
SYMMETRY SymmetryCalls
INVARIANTS
    LimitsRequestsPerWindow
CHECK_DEADLOCK FALSE
