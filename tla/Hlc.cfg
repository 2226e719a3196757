CONSTANTS
    a1 = a1
    a2 = a2
    b1 = b1
    Member = {0, 1}
    Thread = {a1, a2, b1}
    Home <- Homes
    None = None
    Ticks = 2
    MaxMs = 1
    MaxWrites = 3
SPECIFICATION Spec
SYMMETRY AThreads
CHECK_DEADLOCK FALSE
INVARIANTS
    TypeOK
    StampsUnique
    StampsFollowKnowledge
    
