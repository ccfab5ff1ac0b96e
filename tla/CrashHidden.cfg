SPECIFICATION SummarySpec
CONSTANTS
    Files = 1
    TestNames <- MCNames
    Outcomes <- MCOutcomes
INVARIANTS
    CrashIsAProblem
CHECK_DEADLOCK FALSE
