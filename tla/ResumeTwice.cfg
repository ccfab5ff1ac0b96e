SPECIFICATION Spec
CONSTANTS
    Tests <- MCTwo
    NoTest = NoTest
    Profile <- MCTwoProfile
    Workers <- MCWorkers
    Streams = FALSE
    Compressed = TRUE
    Faults = {"kill"}
    MaxSessions = 3
    a = a
    b = b
    c = c
    w1 = w1
    w2 = w2
INVARIANTS
    ResultsNotOverwritten
CHECK_DEADLOCK FALSE
