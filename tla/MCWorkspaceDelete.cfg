SPECIFICATION Spec
CONSTANTS
    f1 = f1
    f2 = f2
    Tasks = {t1, t2}
    Files = {f1, f2}
    Paths <- MCPaths
    Normalized <- MCNormalized
    Unsafe = Unsafe
    Nobody = Nobody
    MaxWrites = 3
SYMMETRY Symmetry
PROPERTIES
    NoLostUpdate
