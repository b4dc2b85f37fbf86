SPECIFICATION FairSpec
CONSTANTS
    c1 = c1
    c2 = c2
    c3 = c3
    r1 = r1
    r2 = r2
    Cases = {c1, c2, c3}
    Suites = {"engine", "identity"}
    Requirements = {r1, r2}
    SuiteOf <- MCSuiteOf
    Needs <- MCNeeds
    Early = {"engine"}
    Programs <- MCPrograms
    NoWords = NoWords
    Nobody = Nobody
CHECK_DEADLOCK FALSE
INVARIANTS
    RosterSaysWhatHappened
    RefusalsAreReal
    CleanRunIsComplete
PROPERTIES
    NothingIsTakenBack
    RunEnds
