SPECIFICATION Spec
CONSTANT Documents <- MCDocuments
CHECK_DEADLOCK FALSE
INVARIANTS
    ReadersAgree
    OneBoundary
    EveryBlockLineAccounted
    CutOffIsRefused
