SPECIFICATION FairSpec
CONSTANTS
    fileRule = fileRule
    lockedRule = lockedRule
    logRule = logRule
    dmesg = dmesg
    file = file
    log = log
    t1 = t1
    t2 = t2
    t3 = t3
    Rules <- MCRules
    Dmesg = dmesg
    Kind <- MCKind
    SourceOf <- MCSourceOf
    Stamped <- MCStamped
    Texts = {"error", "text"}
    Errors = {"error"}
    Chunk = 3
    Ring = 2
    MaxLines = 3
    MaxTests = 2
    Askers = {t1, t2, t3}
    Has <- MCHas
    Needs <- MCNeeds
    Compat = TRUE
    MaxDepth = 2
    Replayers = {p1, p2}
    Chunks = 2
    Anew = FALSE
    Keep = FALSE
    MaxReplays = 4
    Loaders = {l1, l2}
    SameName = TRUE
    MaxKills = 1
    Names = {"a", "b", "c", "d", "e", "x"}
    NoAlias = "none"
    Commands <- MCGLCommands
    Keys = {"k1", "k2", "k3"}
    Values = {"v1", "v2"}
    Nodes <- MCNodes
    Provided <- MCEnums
    Documents <- MCDocuments
    Bits8 = 4
    Bits16 = 8
    ExponentBits = 3
    FloatBits = 12
    FloatPlaces = 16
    AllAttribBits = 9
    AllAttribValue = 3
    ActiveProgram = 1
    BadValue = 2
    Absent = Absent
    Requires <- MCRequires
    Files = 2
    TestNames <- MCTestNames
    Outcomes <- MCOutcomes
    JunitEscape <- MCEscape
    Stripped <- MCStripped
    JUnitNames <- MCJUnitNames
    JUnitOutcomes <- MCJUnitOutcomes
    Listed <- MCListed
    Parts <- MCProfileParts
    Lower <- MCLower
    CommandLines <- MCCommandLines
    WithSubtests = TRUE
    None = "none"
INVARIANTS
    OneAnswer
    CacheComplete
    PassIsOwn
    MembersDisjoint
    BlocksAgree
    ResumeRunsTheRest
    PagesAgree
    ResultsSurviveUpdates
    ExpectedIsGreen
    AliasClasses
    EnumsSorted
    RegistryIsLinked
    BuiltinsSound
    PackingSound
PROPERTIES
    ImplementsOrderedSet
    NewErrorsAbort
    LogBlamesTheTest
    AskersEnd
CHECK_DEADLOCK FALSE
