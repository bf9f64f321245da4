CONSTANTS
    Rpc = Rpc
    Stream = Stream
    MaxId = 2
    MaxFragments = 2
    MaxMessageSize = 2
    Types = {Rpc, Stream}
    Lengths = {0, 2, 3}
    Capacities = {0, 1, 2}
    MaxSent = 3
SYMMETRY Symmetry
SPECIFICATION Spec
CHECK_DEADLOCK FALSE
INVARIANTS
    TypeOK
    IdsFarApart
    MixedOnlyAcrossWrap
    AssembliesUnfinished
    DeliveredIffAllReceived
PROPERTIES
    FirstFragmentStays
