SPECIFICATION Spec
CONSTANTS
    Name = {a, b}
    Cluster = {c1, c2}
    Zero = Zero
    EOC = EOC
    MaxLen = 2
    MaxFaults = 1
SYMMETRY Symmetric
INVARIANTS VolumeSound NothingLost
CHECK_DEADLOCK FALSE
VIEW View
