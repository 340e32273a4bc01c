SPECIFICATION Spec
CONSTANTS
    NFatEnt = 7
    Files = {f}
    Subdirs = {d}
    Home = home
    HomeClust = 5
    Blocks = 1
    MaxSize = 3
    Reserved <- ReservedClusters
    Garbage <- Stack
SYMMETRY NamesAlike
CONSTRAINT WithoutStray
INVARIANTS ChainKnown Recorded BitmapAccounted NeverInternal
