SPECIFICATION Spec
CONSTANTS
    Workers = {w1, w2}
    Tasks = {t1}
    Closers = {c1}
    TimerThread = timer
    NoTask = none
    MinCoreThread = 2
    MaxThread = 3
    StartMonitor = TRUE
INVARIANT GracefulShutdown
