CONSTANT
    Files <- MCFiles
    Memory <- MCMemory
SPECIFICATION Spec
INVARIANTS
    TypeOK
    OpenedIsTheArchive
    FilesAreWhereTheyWerePut
    OpensJustIfSound
    LoopsEnd
CHECK_DEADLOCK FALSE
