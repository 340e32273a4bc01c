SPECIFICATION Spec
CONSTANTS
    File = {f}
    Cluster = {c1, c2}
    SS = 2
    CSize = 2
    MaxSize = 5
    None = None
    EOC = EOC
    Old = Old
SYMMETRY Symmetry
VIEW View
INVARIANTS InStep Kept ReadsRight
