SPECIFICATION LibSpec
CONSTANTS
    w1 = w1
    w2 = w2
    Worker <- MCWorker
    Id = {i1, i2, i3, i4}
    None = None
    TTL <- MCTTL
    Life <- MCLife
    Skew = 0
    AgeCap = 2
    MaxFaults = 1
    Prompt = TRUE
SYMMETRY Symmetry
INVARIANT
    AtMostOneRunner
