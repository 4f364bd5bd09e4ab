SPECIFICATION MCSpec
CONSTANTS
    MaxBoot = 2
    MaxOwner = 2
    MaxRun = 2
    MaxCommand = 2
    Asked <- AskedByAnyone
    MaxAlternative = 2
    MaxPart = 1
    Limit = 3
    Full = 2
    CompactAt = 2
    MaxTrouble = 1
    MaxPoll = 0
    w1 = w1
    w2 = w2
    k1 = k1
    k2 = k2
    Worker = {w1, w2}
    Keeper = {k1, k2}
    Other = {k2}
    OwnerId = {1}
    MaxStarted = 1
    MaxAsked = 5
INVARIANTS
    ExecutedInOrder
    OwnersCountRuns
    ArchiveIsExact
    TablesAgree
PROPERTIES
    AllIsServed
CHECK_DEADLOCK FALSE
