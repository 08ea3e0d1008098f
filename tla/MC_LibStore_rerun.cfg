SPECIFICATION Spec
CONSTANTS
    Key = {k1}
    Content = {c1}
    Bad = {}
    None = None
    MAX_INDEXED_REFS = 1
    MaxEdits = 1
    MaxFaults = 1
CHECK_DEADLOCK FALSE
INVARIANT
    RerunIsSafe
