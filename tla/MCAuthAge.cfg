SPECIFICATION Spec
CONSTANTS
    Holders = {h1, h2}
    Arrays = {a1, a2}
    Nil = nil
    Sources = {"dms"}
    Raw = {"v1", "v2"}
    Requests <- MCComes
    Policies <- MCAsks
    Configurations <- MCOneLine
    SourceAnswers = {"B1"}
    Writes <- MCWrites
    PermissionSets <- MCPermissionSets
    MaxGroupAge = 1
    MaxTime = 4
SYMMETRY Symmetry
INVARIANTS
    FreshGroupsAreRecent
PROPERTY
    GroupsAreNotShared
CHECK_DEADLOCK FALSE
