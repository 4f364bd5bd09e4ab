SPECIFICATION Spec
CONSTANTS
    Route = {"start", "step", "resume", "continue", "pause"}
    None = None
    MaxBoot = 2
    MaxIntent = 3
    MaxFault = 3
    MaxEvent = 4
    MaxLate = 1
INVARIANTS
    StoredIsDone
    CommandIsNextOrReplay
PROPERTY EverySettled
CHECK_DEADLOCK FALSE
