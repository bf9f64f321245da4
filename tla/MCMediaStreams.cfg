CONSTANTS
    StreamIds = {1, 2, 3, 4}
    Kinds = {"video", "audio"}
    Sources = {"cast", "file"}
    SeqIds = {2}
    SeqMod = 3
    MaxHeard = 4
    MaxUnknown = 1
    Enabled = {"video", "audio"}
    ProducerOpen = TRUE
    FirstVideo = 1
    FirstAudio = 3
    MaxStreamId = 4
SPECIFICATION MediaSpec
CHECK_DEADLOCK FALSE
INVARIANTS
    MediaTypeOK
    OneStreamPerSource
    IdsGivenOnce
    ChunksByKind
