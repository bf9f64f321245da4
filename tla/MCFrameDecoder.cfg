CONSTANTS
    Byte = {0, 1, 2, 3}
    Magic0 = 2
    Magic1 = 3
    HeaderSize = 4
    CrcSize = 1
    MaxPayload = 3
    MaxPieces = 3
    Inputs <- MCInputs
    Acceptable <- MCAcceptable
    PayloadLength <- MCPayloadLength
    Crc <- MCCrc
SPECIFICATION Spec
CHECK_DEADLOCK FALSE
INVARIANTS
    TypeOK
    NothingSkipped
    EmittedInOrder
    BufferBounded
    ChunksDoNotShow
PROPERTIES
    LoopEnds
