SPECIFICATION Spec
CONSTANTS
    Paths <- OneBranch
    Ops <- DeletableFirst
    Starts <- Sparse
    Modes <- AllModes
    Disciplined = TRUE
INVARIANTS
    TypeOK
    CacheFresh
    LookupIsCurrent
    DeletedUnlessRefused
    OpenFallsBack
