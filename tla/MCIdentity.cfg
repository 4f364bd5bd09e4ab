SPECIFICATION Spec
CONSTANTS
    Var = {1, 2, 3, 4}
    w1 = w1
    w2 = w2
    World = {w1, w2}
    MaxRank = 3
    None = None
SYMMETRY Symmetry
INVARIANTS
    RowsConsistent
PROPERTIES
    ImplementsUnionFind
    DeltaNamesMovedClasses
