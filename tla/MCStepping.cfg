SPECIFICATION StepSpec
CONSTANTS
    Task = {t1, t2}
    w1 = w1
    World = {w1, w2}
    Selections <- Lists
    Completion = Completion
    Free = Free
INVARIANTS
    NoLateWork
    Accounted
    StepsAreExact
PROPERTIES
    StepsEnd
CHECK_DEADLOCK FALSE
