SPECIFICATION Spec
CONSTANTS
    Content = {zero, noinfo}
    Zero = zero
    NoInfo = noinfo
    IsFAT32 = TRUE
    NFats = 2
    FatBase = 2
    FSize = 1
    DirBase = 4
    DataBase = 4
    CSize = 2
    NFatEnt = 3
INVARIANTS Coherent MirrorAgrees FsInfoFresh SyncedIsDurable
PROPERTIES RefinesStore
