CONSTANTS
    Switches = {s1}
    Visitors = {v1, v2, v3}
    Lockers = {k1, k2}
    Visits = 2
SPECIFICATION Spec
INVARIANTS LockersExclusive EmptySignalled
PROPERTY AllVisit
