SPECIFICATION ProfilesSpec
CONSTANTS
    Parts <- MCProfileParts
    Lower <- MCLower
    CommandLines <- MCListCommandLines
INVARIANTS
    ResumeRunsTheRest
CHECK_DEADLOCK FALSE
