SPECIFICATION Spec
CONSTANTS
    w1 = w1
    w2 = w2
    Worker <- MCWorker
    Id = {i1, i2, i3, i4, i5}
    None = None
    TTL <- PromptTTL
    Life <- PromptLife
    Skew = 1
    AgeCap = 4
    MaxFaults = 2
    Prompt = TRUE
SYMMETRY Symmetry
INVARIANTS
    TypeInv
    HolderOwnsLock
PROPERTIES
    MutexSpec
