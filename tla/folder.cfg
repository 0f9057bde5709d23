CONSTANTS
    RC_INIT_SIZE = 2
    REQUIRED_INPUT_MAX = 3
    LZMA_DIC_MIN = 4
    LZMA2_DIC_BITS = 1
    AddressBytes = 2
    BCJ2_INIT_SIZE = 2
    MaxFaults = 1
    Jobs <- MCJobs
    Convert <- MCConvert
SPECIFICATION Spec
INVARIANTS
    TypeOK
    DecodedIsTheText
    RefusedJustAtTheMark
    LoopsEnd
