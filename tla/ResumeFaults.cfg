SPECIFICATION FairSpec
CONSTANTS
    Tests <- MCTwo
    NoTest = NoTest
    Profile <- MCTwoProfile
    Workers <- MCWorkers
    Streams = FALSE
    Compressed = TRUE
    Faults = {"kill", "raise", "io", "abort"}
    MaxSessions = 2
    a = a
    b = b
    c = c
    w1 = w1
    w2 = w2
INVARIANTS
    KilledIsLoadable
PROPERTIES
    SessionsEnd
CHECK_DEADLOCK FALSE
