SPECIFICATION Spec
CONSTANTS
    Name = {a, b}
    SS = 2
    CSize = 2
    NRootDir = 4
    NFatEnt = 4
    MaxDir = 8
    Room = 1
SYMMETRY Symmetric
VIEW View
INVARIANTS TableSound
PROPERTIES RefinesListing
