SPECIFICATION Spec
CONSTANTS
    Key = {k1, k2}
    Content = {c1, c2}
    Bad = {c2}
    None = None
    MAX_INDEXED_REFS = 1
    MaxEdits = 3
    MaxFaults = 2
CHECK_DEADLOCK FALSE
SYMMETRY Symmetry
INVARIANTS
    TypeOK
    IndexNeverLosesRef
    MappedIsPlayable
PROPERTY
    LibrarySpec
