CONSTANTS
    t1 = t1
    t2 = t2
    t3 = t3
    t4 = t4
    Threads = {t1, t2, t3, t4}
    Scenarios <- FirstItemScenario
    ReqSize = 1
SPECIFICATION Spec
INVARIANT DeliveredOnce
