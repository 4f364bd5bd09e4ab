SPECIFICATION Spec
CONSTANTS
    MaxBoot = 1
    Route = {"start", "step", "resume"}
    None = None
    MaxIntent = 5
    MaxFault = 2
    MaxEvent = 7
    MaxLate = 1
INVARIANT CommandIsNextOrReplay
CHECK_DEADLOCK FALSE
