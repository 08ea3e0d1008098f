SPECIFICATION FairSpec
CONSTANTS
    Key = {k1, k2}
    Content = {c1, c2}
    Bad = {}
    Legacy = {k1}
    None = None
    MaxIndexedRefs = 1
    MaxAttempts = 3
    MaxEdits = 2
    MaxFaults = 1
INVARIANTS
    TypeOK
    IndexNeverLosesRef
    MappedIsPlayable
PROPERTIES
    LibrarySpec
    GoodSourcePublished
    OrphanMappingGoes
CHECK_DEADLOCK FALSE
