SPECIFICATION FairSpec
CONSTANTS
    Input <- MCInput
    First <- MCFirst
    Under <- MCUnder
    NoName = NoName
    Key = {k1}
    Version = {v1, v2, v3}
    Bad = {v3}
    None = None
    MaxAttempts = 3
    MaxEdits = 3
    MaxFaults = 1
INVARIANT
    TypeOK
PROPERTIES
    LiveImageKeepsMapping
    ImageDecided
    OrphanImageGoes
