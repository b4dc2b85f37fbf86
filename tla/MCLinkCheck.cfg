SPECIFICATION Spec
CONSTANTS
    here = here
    there = there
    shown = shown
    local = local
    Targets = {here, there, shown, local}
    URLs = {here, there, shown}
    Trees <- MCTrees
    Budgets <- MCBudgets
CHECK_DEADLOCK FALSE
INVARIANTS
    Accounted
    RedOnlyOnItsWord
PROPERTIES
    NeverAsksInVain
