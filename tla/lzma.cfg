CONSTANTS
    RC_INIT_SIZE = 2
    REQUIRED_INPUT_MAX = 3
    LZMA_DIC_MIN = 4
    LZMA2_DIC_BITS = 1
    MaxFed = 5
    MaxAsked = 5
    Streams <- MCStreams
SPECIFICATION Spec
INVARIANTS
    TypeOK
    OutputIsTheText
    RestInOneCall
    OneCallAgrees
CHECK_DEADLOCK FALSE
