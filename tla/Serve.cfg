SPECIFICATION FairSpec
CONSTANTS
    Upload = {u1, u2, u3}
    Redis = TRUE
    Http = TRUE
    None = None
    MaxFaults = 2
INVARIANTS
    TypeOK
    RequestStaysPending
PROPERTIES
    UploadIsCovered
    DeadEndpointSurfaces
    SigtermStops
