SPECIFICATION Spec
CONSTANTS
    t1 = t1
    t2 = t2
    t3 = t3
    t4 = t4
    m1 = m1
    m2 = m2
    s1 = s1
    Tests <- MCTests
    Plan <- MCPlan
    Serial <- MCSerial
    Dummies <- MCDummies
    Concurrency = "some"
    MultiWorkers <- MCTwoWorkers
    SingleWorker = s1
    Monitored = FALSE
    Faults = {"raise", "write"}
INVARIANTS
    SerialAlone
    ReturnedRanAll
    ReturnedCountedAll
CHECK_DEADLOCK FALSE
