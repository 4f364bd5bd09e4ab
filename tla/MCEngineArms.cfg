SPECIFICATION FairSpec
CONSTANTS
    Programs <- ArmPrograms
    World <- AllWorlds
    MaxVar = 1
    MaxChoice = 2
    MaxTask = 40
    MaxSlack = 3
    Completion = Completion
    Free = Free
    None = None
INVARIANTS
    FinishedWorldsPublished
PROPERTIES
    ImplementsLane
    WorkGoesOn
CHECK_DEADLOCK FALSE
