SPECIFICATION Spec
CONSTANTS
    Workers = {w1}
    Senders = {s1}
    None = none
    BufSize = 2
    SockBuf = 1
    MaxIn = 0
    MaxOut = 2
INVARIANT FullSocketIsRetried
