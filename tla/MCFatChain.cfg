SPECIFICATION Spec
CONSTANTS
    NFatEnt = 6
    Obj = {f, g}
SYMMETRY Symmetric
INVARIANTS ChainsApart NoLeak CountHonest
PROPERTIES ImplementsChains
