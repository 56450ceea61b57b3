SPECIFICATION Spec
CONSTANTS
    Nodes = {n0, n1, n2}
    NoVote = NoVote
    EntryIds = {2}
    Foreign <- MCForeign
    Garbage = {0, 3, 6}
    MaxLog = 5
    Budgets <- MCBudgets
INVARIANTS
    TypeOK
    LeaderWasElected
    AppliedIsLogPrefix

    
CHECK_DEADLOCK FALSE
SYMMETRY Symmetry
