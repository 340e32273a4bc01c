SPECIFICATION Spec
CONSTANTS
    File = {f, g}
    Cluster = {c1}
    SS = 2
    CSize = 1
    MaxSize = 1
    None = None
    EOC = EOC
    Old = Old
INVARIANT ClosedFilesUndisturbed
