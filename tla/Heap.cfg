SPECIFICATION HeapSpec
CONSTANTS
    Task = {t1, t2}
    Scalar = {Collection}
    Collection = Collection
    Free = Free
    None = None
    True = True
    Condition = {c1, c2}
    Descriptor = {d1, d2}
    MaxProgress = 1
    MaxView = 2
    MaxStep = 3
SYMMETRY Symmetry
INVARIANTS
    NothingHeldIsFreed
    RecordsAreTrue
    NothingIsLeft
PROPERTIES
    FirstComeFirstServed
