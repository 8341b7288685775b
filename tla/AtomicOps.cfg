CONSTANTS
    t1 = t1
    t2 = t2
    t3 = t3
    t4 = t4
    t5 = t5
    Threads = {t1, t2, t3, t4, t5}
    Choices <- MixChoices
    Start = 3
    IntHalf = 8
SPECIFICATION Spec
INVARIANTS SwapsLinearizable OnlyWholeCalls
PROPERTY AllReturn
