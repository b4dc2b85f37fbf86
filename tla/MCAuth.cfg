SPECIFICATION Spec
CONSTANTS
    Holders = {h1, h2, h3}
    Arrays = {a1, a2, a3}
    Nil = nil
    Sources = {"dms", "tax"}
    Raw = {"v1"}
    Requests <- MCRequests
    Policies <- MCPolicies
    Configurations <- MCConfigurations
    SourceAnswers = {"A1", ""}
    Writes <- MCNobodyWrites
    PermissionSets <- MCPermissionSets
    MaxGroupAge = 1
    MaxTime = 0
SYMMETRY Symmetry
INVARIANTS
    SessionsAreWhole
    IdentitiesAreAccounted
    AccessIsAccounted
CHECK_DEADLOCK FALSE
