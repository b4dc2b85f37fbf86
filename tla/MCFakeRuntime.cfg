SPECIFICATION Spec
CONSTANTS
    Calls = {c1, c2}
    Observers = {}
    Free = free
    AnswerWords = 3
    Declared <- MCDeclared
    Behaviours <- MCBehaviours
    Requests <- MCRequests
INVARIANTS
    TypeOK
    MisbehaviourShows
PROPERTY
    ImplementsContract
CHECK_DEADLOCK FALSE
