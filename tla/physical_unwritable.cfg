SPECIFICATION Spec
CONSTANTS
    t1 = t1
    t2 = t2
    Threads = {t1, t2}
    Paths <- SmallPaths
    Targets <- AllTargets
    Modes <- AllModes
    Masks <- AllMasks
    Unwritable <- UnwritablePaths
    Stuck <- StuckPaths
    Apart = TRUE
SYMMETRY Symmetry
INVARIANT
    CreatedExists
