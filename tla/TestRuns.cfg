SPECIFICATION FairSpec
CONSTANTS
    native = native
    other = other
    Tests = {native, other}
    Classes <- MCClasses
    Subtests <- MCSubtests
    Timed = {native}
    Attempts = 2
    Outputs <- MCOutputs
    Loggers = {"quiet", "http"}
INVARIANTS
    LogCounts
    NothingLeftBehind
    PassIsEarned
PROPERTIES
    TestsEnd
    ServerStops
CHECK_DEADLOCK FALSE
