SPECIFICATION Spec
CONSTANTS
    None = None
    MaxChoice = 4
    CacheLimit = 2
    MaxCollections = 2
    Script <- MCScript
INVARIANTS
    HandlesAreMeanings
    NothingFreedOrLeft
    RestartsOnce
CHECK_DEADLOCK FALSE
