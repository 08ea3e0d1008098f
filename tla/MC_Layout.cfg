SPECIFICATION Spec
CONSTANTS
    None = None
    Key = {k1, k2}
    Stream <- MC_Stream
    Conf <- MC_Conf
    Old <- MC_Old
    OldVersion <- MC_OldVersion
    Version <- MC_Version
    Threshold <- MC_Threshold
SYMMETRY KeySymmetry
INVARIANTS
    TypeOK
    FramesFollowSource
    LeftAloneIsTight
    CheckedOnce
