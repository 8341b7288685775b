CONSTANTS
    t1 = t1
    t2 = t2
    t3 = t3
    t4 = t4
    Threads = {t1, t2, t3}
    Scenarios <- MixScenarios
    ReqSize = 3
SPECIFICATION Spec
INVARIANTS TicketFifo CellsExclusive LapBound AtRest
PROPERTIES AllReturn StopReleases
