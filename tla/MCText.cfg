SPECIFICATION TextSpec
CONSTANTS
    Uni <- MCUni
    Oem <- MCOem
    Lead <- MCLead
    Trail <- MCTrail
    CONFS <- MCConfs
    TEXT <- MCText1
    CHARMAP <- MCMap
    VolumeStr <- MCVolumes
    QUESTIONS <- MCQuestions
    SZ_PUTC_BUF = 8
    SZ_NUM_BUF = 8
    WORD_BITS = 8
    LENGTHS = {6, 9}
    MaxPut = 2
    BODY = 3
    EXT = 1
    LFN_CHARS = 3
    FF_MAX_LFN = 6
    UpcaseBytes = 4104
INVARIANTS
    TextComesBack
    SegmentsFollowPath
    ShownNameOpens
    LongNameFound
    PatternMatches
    CharactersSurvive
    LabelComesBack
    VolumesFound
    PartitionsApart
CHECK_DEADLOCK FALSE
