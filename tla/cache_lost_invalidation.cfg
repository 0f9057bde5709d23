SPECIFICATION Spec
CONSTANTS
    t1 = t1
    t2 = t2
    t3 = t3
    a = a
    b = b
    Threads = {t1, t2, t3}
    NoThread = NoThread
    Names = {a, b}
    NoName = NoName
    Mutable = {a, b}
    NumSystems = 2
    Readable = {1, 2}
    Creatable = {1, 2}
    Deletable = {1, 2}
    Faulty = {}
    Erring = {}
    Populators = {t1, t2, t3}
    Exclusive = FALSE
    MaxWrites = 2
SYMMETRY Symmetry
INVARIANT
    QuietCacheCurrent
