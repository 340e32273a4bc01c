SPECIFICATION Spec
CONSTANTS
    SectorSize = 64
    Word32 = 512
    MAX_FAT12 = 43
    MAX_FAT16 = 48
    MAX_FAT32 = 60
    MinTot16 = 6
    MinTot32 = 20
    Fs = {1, 2}
    Obj = {1}
    IdMod = 3
    Null = 0
    None <- MCNone
    Media <- MCMedia
    Spares <- MCSpares
    Contents <- MCContents
VIEW View
INVARIANTS ObjectsInPlace VolumeTrue
