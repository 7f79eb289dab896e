SPECIFICATION FairSpec
CONSTANTS
    Fds = {a}
    Workers = {w1, w2}
    Center = center
    Room = 2
    MaxChunks = 3

INVARIANTS
    TypeOK
    ReadyIsSeen
    SpinsOnlyAfterOverlap
PROPERTY DataIsTaken
