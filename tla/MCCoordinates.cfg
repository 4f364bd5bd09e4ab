SPECIFICATION Spec
CONSTANTS
    MaxChoice = 3
    Programs <- MCPrograms
    SegmentEpochs = 2
    None = None
INVARIANT StatesKeepTheirMeaning
PROPERTY AnswersAreFinished
CHECK_DEADLOCK FALSE
