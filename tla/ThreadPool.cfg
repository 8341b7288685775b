CONSTANTS
    Main = main
    Workers = {w1, w2, w3}
    Capacity = 2
    Body <- Bodies
    Flows <- AllFlows
    Rounds = 3
    Fanout = 4
SPECIFICATION Spec
INVARIANT AllRounds
PROPERTY JoinReturns
