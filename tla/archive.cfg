SPECIFICATION Spec
CONSTANTS
    t1 = t1
    t2 = t2
    Threads = {t1, t2}
    Archives <- MCArchives
    Arguments <- MCArguments
    MaxFaults = 1
    WordSize = 16
SYMMETRY Symmetry
INVARIANTS
    TypeOK
    ListingIsTheDirectory
    BufferFitsItsBlock
PROPERTIES
    OpenReturnsItsData
    SoundFilesOpen
