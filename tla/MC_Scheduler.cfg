SPECIFICATION FairSpec
CONSTANTS
    Candidates <- MCCandidates
    First <- MCFirst
    Under <- MCUnder
    NoName = NoName
    K = 2
    PageSize = 1
    Generous = TRUE
    None = None
    MaxEdits = 1
    MaxFaults = 1
INVARIANTS
    TypeOK
    CursorSkipsNothing
PROPERTY
    EverySourceTried
