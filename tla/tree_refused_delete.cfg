SPECIFICATION Spec
CONSTANTS
    Paths <- OneBranch
    Ops <- BothWritable
    Starts <- AllTrees
    Modes = {}
    Disciplined = TRUE
INVARIANT
    DeletedEverywhere
