CONSTANTS
    Switches = {s1}
    Visitors = {v1, v2}
    Lockers = {k1}
    Visits = 1
SPECIFICATION Spec
INVARIANT LockedAlone
