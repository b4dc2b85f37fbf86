SPECIFICATION PassesSpec
CONSTANTS
    MaxEntries = 3
    Askers <- MCAskers
    Sets <- MCSets
INVARIANTS
    TypeOK
    AllowedIsPromised
    ComputesEvaluate
