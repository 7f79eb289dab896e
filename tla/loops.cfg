SPECIFICATION FairSpec
CONSTANTS
    Conns = {c1, c2}
    NumFunctors = 2
    Listen = listen
    None = none
    EnableSlave = TRUE
    NumSlaves = 1
    NumWorkers = 2
CHECK_DEADLOCK FALSE
INVARIANTS
    TypeOK
    FunctorsInOrder
PROPERTIES
    RaisedIsHandled
    FunctorIsCalled
    ShutdownReturns
