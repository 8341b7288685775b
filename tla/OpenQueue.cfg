CONSTANTS
    Pushers = {u1, u2, u3}
    Poppers = {o1, o2, o3}
    PushCalls = 2
    PopCalls = 2
    maxsize = 2
    MaxSpurious = 1
SPECIFICATION Spec
INVARIANTS TicketFifo OverrunBounded NoLostWakeup
PROPERTIES AllReturn
