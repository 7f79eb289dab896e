SPECIFICATION Spec
CONSTANTS
    Fds = {a}
    Workers = {w1}
    Center = center
    Room = 1
    MaxChunks = 2
INVARIANT BarrierExcludes
