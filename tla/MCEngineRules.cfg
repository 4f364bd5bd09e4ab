SPECIFICATION Spec
CONSTANTS
    Programs <- JoinPrograms
    World <- AllWorlds
    MaxVar = 5
    MaxChoice = 1
    MaxTask = 90
    MaxSlack = 2
    Completion = Completion
    Free = Free
    None = None
INVARIANTS
    AppliedOnce
    AnswersAreNormalForms
PROPERTIES
    AppliedWhereApplicable
    ImplementsCertificate
