SPECIFICATION FairSpec
CONSTANTS
    Key = {k1}
    Content = {c1}
    Bad = {}
    Legacy = {}
    None = None
    MaxIndexedRefs = 2
    MaxAttempts = 3
    MaxEdits = 3
    MaxFaults = 1
PROPERTY
    InterruptedGcIsFinished
CHECK_DEADLOCK FALSE
