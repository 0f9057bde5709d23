SPECIFICATION Spec
CONSTANTS
    Names <- MCNames
    Lookups <- MCLookups
    Contents = {"x"}
    MaxEntries = 4
INVARIANTS
    TypeOK
    FoundHasTheName
    MergedAgrees
PROPERTY
    LookupIsStable
