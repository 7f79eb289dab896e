SPECIFICATION FairSpec
CONSTANTS
    Workers = {w1, w2}
    Tasks = {t1, t2}
    Closers = {c1, c2}
    TimerThread = timer
    NoTask = none
    MinCoreThread = 2
    MaxThread = 3
    StartMonitor = TRUE
INVARIANTS
    TypeOK
    TaskAccounting
    WorkConserving
    NobodySleepsThroughShutdown
PROPERTIES
    ImplementsExecutor
    TaskServed
    ShutdownReturns
