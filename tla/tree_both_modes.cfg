SPECIFICATION Spec
CONSTANTS
    Paths <- OneFile
    Ops <- ReadOnlyBetween
    Starts <- AllTrees
    Modes <- AllModes
    Disciplined = TRUE
INVARIANT
    OpenFindsCapable
