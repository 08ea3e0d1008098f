SPECIFICATION FairSpec
CONSTANTS
    w1 = w1
    w2 = w2
    Worker <- MCWorker
    Id = {i1, i2, i3}
    None = None
    TTL <- OverrunTTL
    Life <- OverrunLife
    Skew = 0
    AgeCap = 2
    MaxFaults = 2
    Prompt = FALSE
PROPERTIES
    RemovalJustified
    LockGoesAway
    BucketServed
