CONSTANTS
    Rpc = Rpc
    Stream = Stream
    MaxId = 1
    MaxFragments = 3
    MaxMessageSize = 3
    Types = {Rpc, Stream}
    Lengths = {0, 3, 4}
    Capacities = {0, 1, 2}
    MaxSent = 2
SYMMETRY Symmetry
SPECIFICATION Spec
CHECK_DEADLOCK FALSE
INVARIANT
    TotalIsHeldSize
