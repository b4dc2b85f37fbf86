SPECIFICATION SuiteSpec
CONSTANTS
    Subjects <- MCSubjects
    MaxUnwinding = 2
    MaxWorkers = 2
    SettleWithin = 2
CHECK_DEADLOCK FALSE
INVARIANTS
    EveryCaseAccounted
PROPERTIES
    LeaksAreToldApart
