SPECIFICATION FairSpec
CONSTANTS
    Workers = {w1}
    Senders = {s1, s2}
    None = none
    BufSize = 2
    SockBuf = 1
    MaxIn = 2
    MaxOut = 2
INVARIANTS
    TypeOK
    WrittenInOrder
    NoForgottenData
    SlaveNeverWrites
    DeadOnlyAtEnd
PROPERTIES
    CloseIsAnswered
    QueuedIsWritten
