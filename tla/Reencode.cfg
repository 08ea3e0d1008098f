SPECIFICATION FairSpec
CONSTANTS
    Key = {k1, k2}
    Content = {c1, c2}
    Upright = {c2}
    Bad = {c2}
    OldRungs = {low, mid}
    NewRungs = {mid, high}
    None = None
    MaxAttempts = 2
    MaxCount = 3
    MaxEdits = 1
    MaxFaults = 1
CHECK_DEADLOCK FALSE
INVARIANTS
    TypeOK
    OldPlaylistsPlay
    MasterResolves
    ReencodesOnlyStale
    RestampIsEarned
    WrongOutputsAreDue
PROPERTIES
    MigrationEnds
    DownloadsEnd
