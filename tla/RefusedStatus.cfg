SPECIFICATION Spec
CONSTANTS
    native = native
    other = other
    Tests = {native, other}
    Classes <- MCClasses
    Subtests <- MCSubtests
    Timed = {native}
    Attempts = 2
    Outputs <- MCOutputs
    Loggers = {"quiet", "http"}
INVARIANTS
    StatusAccepted
CHECK_DEADLOCK FALSE
