SPECIFICATION PartsSpec
CONSTANTS
    BufSize = 3
    Modulus = 12
    MaxBytes = 6
    MaxAsked = 4
    Threads = {t1, t2}
    Callers = {p1, p2, p3}
    Nobody = nobody
    MaxSize = 3
    Limit = 2
    TextRoom = 3
    MaxText = 4
    TraceLen = 2
    FileBuf = 4
    MaxClock = 2
    MaxLogged = 14
    Fds = {0, 1, 2}
    Sockets = {s1, s2}
    MaxFiles = 4
INVARIANTS
    PartsTypeOK
    RingIsFifo
    ReadDeliversNext
    OneInstance
    SleepsOnlyBehindFailure
    OnlyBuffersAreLost
    FilesFollowLimit
    NumbersAreTrue
