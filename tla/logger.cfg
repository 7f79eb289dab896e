SPECIFICATION FairSpec
CONSTANTS
    Messages = {m1, m2, f1}
    Fatal = {f1}
    Sinks = {s1, s2}
    MaxModeCalls = 1
INVARIANTS
    TypeOK
    SleepsOnlyOnQuiet
PROPERTIES
    ImplementsLogQueue
    AnnouncedIsWritten
    DestructorReturns
