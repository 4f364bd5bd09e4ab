SPECIFICATION Spec
CONSTANTS
    v1 = v1
    v2 = v2
    s1 = s1
    s2 = s2
    None = None
    Width = 3
    PageBit = 2
    Keys = {0, 6}
    Values = {v2}
    Slots = {s1, s2}
    Inputs <- MCInputs
    Ranges <- MCRanges
    Frontiers <- MCFrontiers
    MemoLimit = 1
    First <- MCFirst
    MaxCalls = 4
    Answers <- MCAnswers
    MaxSaved = 1
SYMMETRY MCSymmetry
INVARIANTS RootsAreMaps CollectionIsExact
CHECK_DEADLOCK FALSE
