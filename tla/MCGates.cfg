SPECIFICATION Spec
CONSTANTS
    ByName <- MCByName
    Commands <- MCCommands
    Tags <- MCTags
    MarkTag = "needsreal"
    TestDirs <- MCTestDirs
    Within <- MCWithin
    Carrying <- MCCarrying
    NaN = NaN
    Words = Words
    GoPaths = {"b.go"}
    Runs <- MCRuns
    PathOf <- MCPathOf
INVARIANTS
    SilenceIsAgreement
    MarksAreHonoured
    ChainsAreShortest
    FloorsAreCleared
    FormatSettles
    CommandsCloseForTheShell
CHECK_DEADLOCK FALSE
