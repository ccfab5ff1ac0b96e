SPECIFICATION Spec
CONSTANTS
    Tests <- MCTests
    NoTest = NoTest
    Profile <- MCProfile
    Workers <- MCWorkers
    Streams = FALSE
    Compressed = TRUE
    Faults = {"kill"}
    MaxSessions = 2
    a = a
    b = b
    c = c
    w1 = w1
    w2 = w2
INVARIANTS
    TypeOK
    SavedResultsStay
    OnlyRecordedIsReported
    RecordedSurvives
    PublishedIsFaithful
PROPERTIES
    FinalResultsKept
    ImplementsRecord
CHECK_DEADLOCK FALSE
