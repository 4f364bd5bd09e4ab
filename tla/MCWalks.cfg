SPECIFICATION WalkSpec
CONSTANTS
    Var = {1, 2, 3, 4}
    w1 = w1
    w2 = w2
    World = {w1, w2}
    MaxRank = 2
    Occurrence = {1, 2, 3}
    Ports <- AllPorts
    Job <- Jobs
    Goal <- Goals
    View <- Views
    Reader = {r1, r2}
    Query <- Queries
    Capacity = 2
    PrefixRows = 2
    MaxClear = 1
    Cell = {1, 2}
    ArgsOf <- Args
    HeadsOf <- Heads
    SeedLists <- Seeds
    Links <- Merges
    MaxDirty = 1
    MaxSeeds = 1
    MaxWrite = 2
    MaxPrune = 2
    MaxOrder = 1
    Payload = {1, 2}
    Width = 2
    MaxHeld = 6
    MaxSerial = 6
INVARIANTS
    MembersAndWakesAreExact
    MatchesAreExact
    AnswersAreHistories
    SharedRowsAreExact
    PruneIsExact
    BlocksAreExact
PROPERTIES
    WalksEnd
CHECK_DEADLOCK FALSE
