SPECIFICATION Spec
CONSTANTS
    t1 = t1
    t2 = t2
    t3 = t3
    t4 = t4
    m1 = m1
    m2 = m2
    s1 = s1
    Tests <- MCTests
    Plan <- MCLongPlan
    Serial <- MCSerial
    Dummies <- MCDummies
    Concurrency = "none"
    MultiWorkers <- MCTwoWorkers
    SingleWorker = s1
    Monitored = TRUE
    Faults = {}
INVARIANTS
    MatchAborts
CHECK_DEADLOCK FALSE
