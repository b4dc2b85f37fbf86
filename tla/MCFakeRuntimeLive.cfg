SPECIFICATION FairSpec
CONSTANTS
    Calls = {c1, c2}
    Observers = {o1}
    Free = free
    AnswerWords = 3
    Declared <- MCDeclared
    Behaviours <- MCBehaviours
    Requests <- MCOneGenerate
INVARIANTS
    CountIsExact
    CancellationIsVisible
PROPERTY
    ContextEndsCalls
