SPECIFICATION FairDamagedSpec
CONSTANTS
    NFatEnt = 5
    Obj = {f}
PROPERTIES UsedEntriesKept RemovalEnds
