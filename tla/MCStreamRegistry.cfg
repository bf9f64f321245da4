CONSTANTS
    StreamIds = {1, 2}
    Kinds = {"file", "log"}
    Sources = {"disk"}
    SeqIds = {0, 1, 2}
    SeqMod = 3
    MaxHeard = 6
    MaxUnknown = 1
SPECIFICATION Spec
CHECK_DEADLOCK FALSE
INVARIANTS
    TypeOK
    SinkSeesLives
    AnomaliesCounted
