SPECIFICATION FairSpec
CONSTANTS
    N = 4
INVARIANTS
    EverySubtestJudged
    NoneRepeated
PROPERTIES
    Terminates
CHECK_DEADLOCK FALSE
