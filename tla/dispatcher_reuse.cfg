SPECIFICATION Spec
CONSTANTS
    Conns = {c1, c2}
    Workers = {w1, w2}
    None = none
    MaxSends = 1
    MaxExtract = 0
INVARIANT OwnSocket
