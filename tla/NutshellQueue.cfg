CONSTANTS
    t1 = t1
    t2 = t2
    t3 = t3
    Threads = {t1, t2, t3}
    Items = {1, 2}
    Size = 2
    MaxCalls = 2
SPECIFICATION Spec
INVARIANTS TypeOK CountersInOrder CellsExclusive DeliveredInOrder NoLeak
PROPERTIES NoOverwrite ImplementsFifo
CHECK_DEADLOCK FALSE
