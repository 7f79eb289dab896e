SPECIFICATION Spec
CONSTANTS
    Conns = {c1, c2}
    Workers = {w1, w2}
    None = none
    MaxSends = 1
    MaxExtract = 1
SYMMETRY Symmetry
INVARIANTS
    TypeOK
    HandlerIsOwn
    ChannelsFollowTable
    NobodyWaitsUnseen
