SPECIFICATION Spec
CONSTANTS
    Uni <- MCId
    Oem <- MCId
    Lead <- MCNo
    Trail <- MCNo
    VolumeStr <- MCVolumes
    ExCvt <- MCPage
    NAMES <- MCNames
    BODY = 3
    EXT = 1
    LFN_CHARS = 4
    FF_MAX_LFN = 6
    FF_LFN_UNICODE = 1
    FF_FS_RPATH = 0
    SignedChar = FALSE
    FF_STR_VOLUME_ID = 0
    Size = 5
    NumLimit = 3
    Stale = 65
    Ids = {1, 2}
INVARIANTS
    FoundByName
    NamesApart
    NoOrphans
CHECK_DEADLOCK FALSE
