SPECIFICATION Spec
CONSTANTS
    v1 = v1
    v2 = v2
    s = s
    t = t
    x = x
    y = y
    z = z
    a = a
    b = b
    d = d
    Threads = {s, t}
    Volumes = {v1}
    Places = {a, b}
    Tables = {d}
    VolumeOf <- OneVolume
    Fils = {x, y}
    Dirs = {z}
    FF_FS_LOCK = 2
    WriteMark = 4
    ExchangeAnytime = FALSE
INVARIANTS
    LocksCount
    WriterAlone
    OpenFileStays
    GrantHeld
SYMMETRY Alike
